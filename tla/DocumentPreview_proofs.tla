----------------------- MODULE DocumentPreview_proofs -----------------------
(***************************************************************************)
(* Proofs about the document preview, for any documents, any lengths and   *)
(* any number of clicks: what is below the title is the document the title *)
(* names, superseded renderings ask for nothing, and the preview is what   *)
(* PreviewViewer promises.                                                 *)
(*                                                                         *)
(* The argument: no two renderings have the same request id, so that at    *)
(* most one is current, and the current one knows exactly how much of its  *)
(* document the preview shows.                                             *)
(***************************************************************************)
EXTENDS DocumentPreview, SequenceTheorems, TLAPS

-----------------------------------------------------------------------------
(* Sequences of pages. *)

\* The first n pages of a document are a sequence of n pages.
LEMMA PagesIsSequence ==
    ASSUME NEW d \in Doc, NEW n \in Nat
    PROVE  Pages(d, n) \in Seq(Doc \X Nat) /\ Len(Pages(d, n)) = n
  <1>1. \A i \in 1..n : <<d, i>> \in Doc \X Nat
    OBVIOUS
  <1>2. Pages(d, n) \in [1..n -> Doc \X Nat]
    BY <1>1 DEF Pages
  <1> QED
    BY <1>2, SMT DEF Pages

\* No pages are the empty sequence, whatever the document.
LEMMA NoPages ==
    ASSUME NEW d
    PROVE  Pages(d, 0) = << >>
  BY SMT DEF Pages

\* A page more at the end (appendChild) makes the first n + 1 pages.
LEMMA PagesAppend ==
    ASSUME NEW d \in Doc, NEW n \in Nat
    PROVE  Append(Pages(d, n), <<d, n + 1>>) = Pages(d, n + 1)
  <1>1. Pages(d, n) \in Seq(Doc \X Nat) /\ Len(Pages(d, n)) = n
    BY PagesIsSequence
  <1>2. Pages(d, n + 1) \in Seq(Doc \X Nat) /\ Len(Pages(d, n + 1)) = n + 1
    BY PagesIsSequence
  <1>3. <<d, n + 1>> \in Doc \X Nat
    OBVIOUS
  <1>4. Append(Pages(d, n), <<d, n + 1>>) \in Seq(Doc \X Nat)
        /\ Len(Append(Pages(d, n), <<d, n + 1>>)) = n + 1
    BY <1>1, <1>3, AppendProperties
  <1>5. \A i \in 1..(n + 1) : Append(Pages(d, n), <<d, n + 1>>)[i] = Pages(d, n + 1)[i]
    <2> SUFFICES ASSUME NEW i \in 1..(n + 1)
                 PROVE  Append(Pages(d, n), <<d, n + 1>>)[i] = Pages(d, n + 1)[i]
      OBVIOUS
    <2>1. CASE i = n + 1
      BY <2>1, <1>1, <1>3, AppendProperties DEF Pages
    <2>2. CASE i \in 1..n
      BY <2>2, <1>1, <1>3, AppendProperties DEF Pages
    <2>3. i = n + 1 \/ i \in 1..n
      OBVIOUS
    <2> QED
      BY <2>1, <2>2, <2>3
  <1> QED
    BY <1>2, <1>4, <1>5, SeqEqual

-----------------------------------------------------------------------------
(* The inductive invariant. *)

Used(k) == rendering[k].step # "unused"

\* Request ids are handed out once, and never again after a close.
IdsDiffer ==
    /\ \A k \in Click : k > clicks <=> ~Used(k)
    /\ \A k \in Click : rendering[k].id <= previewRequestId
    /\ \A k \in Click, j \in Click : Used(k) /\ Used(j) /\ rendering[k].id = rendering[j].id => k = j

\* What is shown, with or without a rendering that goes on.
ContentFits ==
    /\ hidden <=> preview.kind = "empty"
    /\ preview.kind \in {"empty", "loading", "error"} => preview.pages = << >>
    /\ ~hidden => title \in Doc
    /\ \E n \in Nat : preview.pages = Pages(title, n) /\ (n > 0 => title \in Doc)

\* The current rendering has shown the pages before the one it waits for.
RenderingFits(k) ==
    /\ Used(k) => rendering[k].doc \in Doc
    /\ rendering[k].step = "waiting" => rendering[k].doc \notin Pdf
    /\ Used(k) /\ Current(k) =>
         /\ rendering[k].doc = title
         /\ rendering[k].step \in {"fetching", "reading"} => preview.kind = "loading"
         /\ rendering[k].step = "waiting" =>
              /\ preview.kind = IF rendering[k].page = 1 THEN "loading" ELSE "pages"
              /\ preview.pages = Pages(title, rendering[k].page - 1)

CurrentFits == \A k \in Click : RenderingFits(k)

PreviewInv == PreviewTypeOK /\ IdsDiffer /\ ContentFits /\ CurrentFits

-----------------------------------------------------------------------------
LEMMA InitEstablishesInv == PreviewInit => PreviewInv
  <1> SUFFICES ASSUME PreviewInit PROVE PreviewInv
    OBVIOUS
  <1> USE PreviewAssumption
  <1>1. << >> \in Seq(Doc \X Nat)
    BY EmptySeq
  <1>2. PreviewTypeOK
    BY <1>1 DEF PreviewInit, PreviewTypeOK, Nothing, Unused
  <1>3. IdsDiffer
    BY DEF PreviewInit, IdsDiffer, Used, Unused, Click
  <1>4. ContentFits
    <2>1. preview.pages = Pages(title, 0)
      BY NoPages DEF PreviewInit, Nothing
    <2> QED
      BY <2>1 DEF PreviewInit, ContentFits, Nothing
  <1>5. CurrentFits
    BY DEF PreviewInit, CurrentFits, RenderingFits, Used, Unused
  <1> QED
    BY <1>2, <1>3, <1>4, <1>5 DEF PreviewInv

-----------------------------------------------------------------------------
(* Steps of a rendering. *)

\* One rendering goes on: it keeps its request id and its document, and
\* changes the preview only when it is current.
Advances(k) ==
    /\ UNCHANGED <<hidden, title, previewRequestId, clicks>>
    /\ Used(k)
    /\ rendering'[k].step \in {"reading", "waiting", "ended"}
    /\ rendering'[k].id = rendering[k].id /\ rendering'[k].doc = rendering[k].doc
    /\ \A j \in Click \ {k} : rendering'[j] = rendering[j]
    /\ preview' # preview => Current(k)

\* A step of one rendering leaves what is known of the others: no other one is
\* current when this one is.
LEMMA AdvanceKeepsOthers ==
    ASSUME PreviewInv, NEW k \in Click, Advances(k)
    PROVE  /\ IdsDiffer'
           /\ Current(k)' = Current(k)
           /\ \A j \in Click \ {k} : RenderingFits(j)'
  <1> USE DEF Advances
  <1>1. rendering[k].id \in Nat /\ \A j \in Click : rendering[j].id \in Nat
    BY DEF PreviewInv, PreviewTypeOK
  <1>2. IdsDiffer'
    <2>1. \A j \in Click : Used(j)' <=> Used(j)
      BY DEF Used
    <2>2. \A j \in Click : rendering'[j].id = rendering[j].id
      OBVIOUS
    <2> QED
      BY <2>1, <2>2 DEF PreviewInv, IdsDiffer
  <1>3. Current(k)' = Current(k)
    BY DEF Current
  <1>4. ASSUME NEW j \in Click \ {k}
        PROVE  RenderingFits(j)'
    <2>1. RenderingFits(j)
      BY DEF PreviewInv, CurrentFits
    <2>2. rendering'[j] = rendering[j] /\ (Used(j)' <=> Used(j)) /\ (Current(j)' <=> Current(j))
      BY DEF Used, Current
    <2>3. CASE Used(j) /\ Current(j)
      <3>1. ~Current(k)
        BY <2>3 DEF PreviewInv, IdsDiffer, Current
      <3>2. preview' = preview /\ title' = title
        BY <3>1
      <3> QED
        BY <2>1, <2>2, <3>2 DEF RenderingFits, Pages
    <2>4. CASE ~(Used(j) /\ Current(j))
      BY <2>1, <2>2, <2>4 DEF RenderingFits
    <2> QED
      BY <2>3, <2>4
  <1> QED
    BY <1>2, <1>3, <1>4

\* What is left to show of a step of a rendering.
LEMMA AdvanceKeepsInv ==
    ASSUME PreviewInv, NEW k \in Click, Advances(k),
           PreviewTypeOK', ContentFits', RenderingFits(k)'
    PROVE  PreviewInv'
  BY AdvanceKeepsOthers DEF PreviewInv, CurrentFits

\* The values of the preview and of the renderings.
Notices == [kind : {"empty", "loading", "error", "frame", "pages"}, pages : Seq(Doc \X Nat)]

Renderings ==
    [Click -> [step : {"unused", "fetching", "reading", "waiting", "ended"},
               id : Nat, doc : Doc \cup {"none"},
               page : 1..MAX_PREVIEW_PAGES, asked : 0..MAX_PREVIEW_PAGES]]

LEMMA EndIsTyped ==
    ASSUME PreviewInv, NEW k \in Click
    PROVE  Ended(k) \in Renderings
  BY DEF PreviewInv, PreviewTypeOK, Ended, Renderings

\* A rendering that ends without a change of the preview.
LEMMA EndKeepsInv ==
    ASSUME PreviewInv, NEW k \in Click, Used(k), rendering' = Ended(k),
           UNCHANGED <<hidden, title, previewRequestId, clicks, preview>>
    PROVE  PreviewInv'
  <1>1. PreviewTypeOK'
    BY DEF PreviewInv, PreviewTypeOK, Ended
  <1>2. /\ rendering'[k].step = "ended" /\ rendering'[k].id = rendering[k].id
        /\ rendering'[k].doc = rendering[k].doc
        /\ \A j \in Click \ {k} : rendering'[j] = rendering[j]
    BY DEF PreviewInv, PreviewTypeOK, Ended
  <1>3. Advances(k)
    BY <1>2 DEF Advances
  <1>4. ContentFits'
    BY DEF PreviewInv, ContentFits, Pages
  <1>5. RenderingFits(k)'
    <2>1. RenderingFits(k)
      BY DEF PreviewInv, CurrentFits
    <2> QED
      BY <1>2, <2>1 DEF RenderingFits, Used, Current
  <1> QED
    BY <1>1, <1>3, <1>4, <1>5, AdvanceKeepsInv

\* A rendering that fails before it has shown anything.
LEMMA RejectKeepsInv ==
    ASSUME PreviewInv, NEW k \in Click, Used(k), Reject(k)
    PROVE  PreviewInv'
  <1>1. CASE ~Current(k)
    BY <1>1, EndKeepsInv DEF Reject
  <1>2. CASE Current(k)
    <2> USE <1>2
    <2>1. preview' = Nothing("error")
      BY DEF Reject
    <2>2. << >> \in Seq(Doc \X Nat)
      BY EmptySeq
    <2>3. PreviewTypeOK'
      <3>1. preview' \in Notices
        BY <2>1, <2>2 DEF Nothing, Notices
      <3>2. rendering' \in Renderings
        BY EndIsTyped DEF Reject
      <3> QED
        BY <3>1, <3>2 DEF Reject, PreviewInv, PreviewTypeOK, Notices, Renderings
    <2>4. /\ rendering'[k].step = "ended" /\ rendering'[k].id = rendering[k].id
          /\ rendering'[k].doc = rendering[k].doc
          /\ \A j \in Click \ {k} : rendering'[j] = rendering[j]
      BY DEF Reject, PreviewInv, PreviewTypeOK, Ended
    <2>5. Advances(k)
      BY <2>4 DEF Advances, Reject
    <2>6. ContentFits'
      <3>1. preview'.pages = Pages(title', 0)
        BY <2>1, NoPages DEF Nothing
      <3>2. hidden' = FALSE /\ title' \in Doc
        BY DEF Reject, Current, PreviewInv, PreviewTypeOK, ContentFits
      <3> QED
        BY <2>1, <3>1, <3>2 DEF ContentFits, Nothing
    <2>7. RenderingFits(k)'
      <3>1. RenderingFits(k)
        BY DEF PreviewInv, CurrentFits
      <3> QED
        BY <2>4, <3>1 DEF Reject, RenderingFits, Used, Current
    <2> QED
      BY <2>3, <2>5, <2>6, <2>7, AdvanceKeepsInv
  <1> QED
    BY <1>1, <1>2

LEMMA FetchedKeepsInv ==
    ASSUME PreviewInv, NEW k \in Click, Fetched(k)
    PROVE  PreviewInv'
  <1> USE DEF Fetched
  <1>1. PreviewTypeOK'
    BY DEF PreviewInv, PreviewTypeOK
  <1>2. /\ rendering'[k].step = "reading" /\ rendering'[k].id = rendering[k].id
        /\ rendering'[k].doc = rendering[k].doc
        /\ \A j \in Click \ {k} : rendering'[j] = rendering[j]
    BY DEF PreviewInv, PreviewTypeOK
  <1>3. Advances(k)
    BY <1>2 DEF Advances, Used
  <1>4. ContentFits'
    BY DEF PreviewInv, ContentFits, Pages
  <1>5. RenderingFits(k)'
    <2>1. RenderingFits(k)
      BY DEF PreviewInv, CurrentFits
    <2> QED
      BY <1>2, <2>1 DEF RenderingFits, Used, Current
  <1> QED
    BY <1>1, <1>3, <1>4, <1>5, AdvanceKeepsInv

LEMMA PdfReadKeepsInv ==
    ASSUME PreviewInv, NEW k \in Click, PdfRead(k)
    PROVE  PreviewInv'
  <1>0. Used(k)
    BY DEF PdfRead, Used
  <1>1. CASE ~Current(k)
    BY <1>0, <1>1, EndKeepsInv DEF PdfRead
  <1>2. CASE Current(k)
    <2> USE <1>0, <1>2
    <2>1. RenderingFits(k)
      BY DEF PreviewInv, CurrentFits
    <2>2. rendering[k].doc = title /\ title \in Doc
      BY <2>1 DEF RenderingFits
    <2>3. /\ preview' = [kind |-> "frame", pages |-> Pages(title, 1)]
          /\ Pages(title, 1) \in Seq(Doc \X Nat)
      BY <2>2, PagesIsSequence DEF PdfRead
    <2>4. PreviewTypeOK'
      <3>1. preview' \in Notices
        BY <2>3 DEF Notices
      <3>2. rendering' \in Renderings
        BY EndIsTyped DEF PdfRead
      <3> QED
        BY <3>1, <3>2 DEF PdfRead, PreviewInv, PreviewTypeOK, Notices, Renderings
    <2>5. /\ rendering'[k].step = "ended" /\ rendering'[k].id = rendering[k].id
          /\ rendering'[k].doc = rendering[k].doc
          /\ \A j \in Click \ {k} : rendering'[j] = rendering[j]
      BY DEF PdfRead, PreviewInv, PreviewTypeOK, Ended
    <2>6. Advances(k)
      BY <2>5 DEF Advances, PdfRead
    <2>7. ContentFits'
      <3>1. hidden' = FALSE /\ title' = title /\ preview'.pages = Pages(title', 1)
        BY <2>3 DEF PdfRead, Current, PreviewInv, PreviewTypeOK
      <3> QED
        BY <2>2, <2>3, <3>1 DEF ContentFits
    <2>8. RenderingFits(k)'
      BY <2>1, <2>5 DEF PdfRead, RenderingFits, Used, Current
    <2> QED
      BY <2>4, <2>6, <2>7, <2>8, AdvanceKeepsInv
  <1> QED
    BY <1>1, <1>2

\* A round of the loop that begins for the current rendering of an image
\* document, whose preview holds the pages before this one.
LEMMA AwaitKeepsInv ==
    ASSUME PreviewInv, NEW k \in Click, Used(k), Current(k), NEW page \in Nat \ {0},
           rendering[k].doc = title, title \in Doc \ Pdf, Await(k, page),
           UNCHANGED <<hidden, title, previewRequestId, clicks>>,
           preview' = [kind |-> IF page = 1 THEN "loading" ELSE "pages",
                       pages |-> Pages(title, page - 1)]
    PROVE  PreviewInv'
  <1> USE PreviewAssumption
  <1>1. Pages(title, page - 1) \in Seq(Doc \X Nat)
    BY PagesIsSequence
  <1>2. rendering' \in Renderings
    <2>1. CASE page > MAX_PREVIEW_PAGES
      BY <2>1, EndIsTyped DEF Await
    <2>2. CASE ~(page > MAX_PREVIEW_PAGES)
      <3> DEFINE asked == IF page < MAX_PREVIEW_PAGES THEN page + 1 ELSE page
      <3>1. rendering' = [rendering EXCEPT ![k].step = "waiting", ![k].page = page, ![k].asked = asked]
        BY <2>2 DEF Await
      <3>2. page \in 1..MAX_PREVIEW_PAGES /\ asked \in 0..MAX_PREVIEW_PAGES
        BY <2>2
      <3> HIDE DEF asked
      <3>3. rendering \in Renderings
        BY DEF PreviewInv, PreviewTypeOK, Renderings
      <3>4. rendering'[k] = [step |-> "waiting", id |-> rendering[k].id, doc |-> rendering[k].doc,
                             page |-> page, asked |-> asked]
            /\ \A j \in Click \ {k} : rendering'[j] = rendering[j]
        BY <3>1, <3>3 DEF Renderings
      <3>5. DOMAIN rendering' = Click /\ rendering' = [j \in Click |-> rendering'[j]]
        BY <3>1, <3>3 DEF Renderings
      <3>6. rendering[k].id \in Nat /\ rendering[k].doc \in Doc \cup {"none"}
        BY <3>3 DEF Renderings
      <3> QED
        BY <3>2, <3>3, <3>4, <3>5, <3>6 DEF Renderings
    <2> QED
      BY <2>1, <2>2
  <1>3. PreviewTypeOK'
    BY <1>1, <1>2 DEF PreviewInv, PreviewTypeOK, Renderings
  <1>4. /\ \/ rendering'[k].step = "ended"
           \/ rendering'[k].step = "waiting" /\ rendering'[k].page = page
        /\ rendering'[k].id = rendering[k].id /\ rendering'[k].doc = rendering[k].doc
        /\ \A j \in Click \ {k} : rendering'[j] = rendering[j]
    BY DEF Await, Ended, PreviewInv, PreviewTypeOK
  <1>5. Advances(k)
    BY <1>4 DEF Advances
  <1>6. ContentFits'
    <2>1. hidden' = FALSE /\ title' = title
      BY DEF Current, PreviewInv, PreviewTypeOK
    <2>2. page = 1 => preview'.pages = << >>
      BY NoPages
    <2>3. page - 1 \in Nat /\ preview'.pages = Pages(title', page - 1)
      BY <2>1
    <2> QED
      BY <2>1, <2>2, <2>3 DEF ContentFits
  <1>7. RenderingFits(k)'
    <2>1. title' = title
      OBVIOUS
    <2> QED
      BY <1>4, <2>1 DEF RenderingFits, Pages
  <1> QED
    BY <1>3, <1>5, <1>6, <1>7, AdvanceKeepsInv

LEMMA ImageReadKeepsInv ==
    ASSUME PreviewInv, NEW k \in Click, ImageRead(k)
    PROVE  PreviewInv'
  <1>0. Used(k)
    BY DEF ImageRead, Used
  <1>1. CASE ~Current(k)
    BY <1>0, <1>1, EndKeepsInv DEF ImageRead
  <1>2. CASE Current(k)
    <2>1. RenderingFits(k)
      BY DEF PreviewInv, CurrentFits
    <2>2. /\ rendering[k].doc = title /\ title \in Doc \ Pdf
          /\ preview.kind = "loading" /\ preview.pages = << >>
      BY <1>0, <1>2, <2>1 DEF RenderingFits, ImageRead, PreviewInv, ContentFits
    <2>3. preview = [kind |-> preview.kind, pages |-> preview.pages]
      BY DEF PreviewInv, PreviewTypeOK
    <2>4. preview' = [kind |-> "loading", pages |-> Pages(title, 0)]
      BY <2>2, <2>3, NoPages DEF ImageRead
    <2> QED
      BY <1>0, <1>2, <2>2, <2>4, AwaitKeepsInv DEF ImageRead
  <1> QED
    BY <1>1, <1>2

\* The image of a current rendering goes below the pages before it.
LEMMA ImageIsNext ==
    ASSUME PreviewInv, NEW k \in Click, ImageLoads(k), Current(k)
    PROVE  /\ rendering[k].doc = title /\ title \in Doc \ Pdf
           /\ rendering[k].page \in 1..MAX_PREVIEW_PAGES
           /\ preview.kind = IF rendering[k].page = 1 THEN "loading" ELSE "pages"
           /\ preview.pages = Pages(title, rendering[k].page - 1)
           /\ preview' = [kind |-> "pages", pages |-> Pages(title, rendering[k].page)]
  <1> USE PreviewAssumption
  <1> DEFINE n == rendering[k].page - 1
  <1>1. RenderingFits(k)
    BY DEF PreviewInv, CurrentFits
  <1>2. /\ rendering[k].doc = title /\ title \in Doc \ Pdf
        /\ rendering[k].page \in 1..MAX_PREVIEW_PAGES
    BY <1>1 DEF RenderingFits, ImageLoads, Used, PreviewInv, PreviewTypeOK
  <1>3. /\ preview.kind = IF rendering[k].page = 1 THEN "loading" ELSE "pages"
        /\ preview.pages = Pages(title, n)
    BY <1>1 DEF RenderingFits, ImageLoads, Used
  <1>4. n \in Nat /\ rendering[k].page = n + 1
    BY <1>2
  <1>5. (IF rendering[k].page = 1 THEN << >> ELSE preview.pages) = Pages(title, n)
    BY <1>2, <1>3, NoPages
  <1>6. Append(Pages(title, n), <<title, n + 1>>) = Pages(title, n + 1)
    BY <1>2, <1>4, PagesAppend
  <1> HIDE DEF n
  <1>7. preview' = [kind |-> "pages", pages |-> Pages(title, n + 1)]
    BY <1>2, <1>4, <1>5, <1>6 DEF ImageLoads, ShowPage
  <1> QED
    BY <1>2, <1>3, <1>4, <1>7 DEF n

LEMMA ImageLoadsKeepsInv ==
    ASSUME PreviewInv, NEW k \in Click, ImageLoads(k)
    PROVE  PreviewInv'
  <1>0. Used(k)
    BY DEF ImageLoads, Used
  <1>1. CASE ~Current(k)
    BY <1>0, <1>1, EndKeepsInv DEF ImageLoads
  <1>2. CASE Current(k)
    <2> DEFINE page == rendering[k].page + 1
    <2>1. /\ rendering[k].doc = title /\ title \in Doc \ Pdf
          /\ rendering[k].page \in 1..MAX_PREVIEW_PAGES
          /\ preview' = [kind |-> "pages", pages |-> Pages(title, rendering[k].page)]
      BY <1>2, ImageIsNext
    <2>2. page \in Nat \ {0} /\ page # 1 /\ page - 1 = rendering[k].page
      BY <2>1, PreviewAssumption
    <2>3. Await(k, page)
      BY <1>2 DEF ImageLoads
    <2>4. preview' = [kind |-> IF page = 1 THEN "loading" ELSE "pages",
                      pages |-> Pages(title, page - 1)]
      BY <2>1, <2>2
    <2>5. UNCHANGED <<hidden, title, previewRequestId, clicks>>
      BY DEF ImageLoads
    <2> HIDE DEF page
    <2> QED
      BY <1>0, <1>2, <2>1, <2>2, <2>3, <2>4, <2>5, AwaitKeepsInv
  <1> QED
    BY <1>1, <1>2

LEMMA ImageBreaksKeepsInv ==
    ASSUME PreviewInv, NEW k \in Click, ImageBreaks(k)
    PROVE  PreviewInv'
  <1>0. Used(k)
    BY DEF ImageBreaks, Used
  <1> QED
    BY <1>0, RejectKeepsInv, EndKeepsInv DEF ImageBreaks, GiveUp

LEMMA ClosePreviewKeepsInv ==
    ASSUME PreviewInv, ClosePreview
    PROVE  PreviewInv'
  <1> USE DEF ClosePreview
  <1>1. preview' \in Notices
    BY EmptySeq DEF Nothing, Notices
  <1>2. PreviewTypeOK'
    BY <1>1 DEF PreviewInv, PreviewTypeOK, Notices
  <1>3. IdsDiffer'
    BY DEF PreviewInv, PreviewTypeOK, IdsDiffer, Used
  <1>4. ContentFits'
    <2>1. preview'.pages = Pages(title', 0)
      BY NoPages DEF Nothing
    <2> QED
      BY <2>1 DEF ContentFits, Nothing
  <1>5. CurrentFits'
    BY DEF PreviewInv, CurrentFits, RenderingFits, Used, Current
  <1> QED
    BY <1>2, <1>3, <1>4, <1>5 DEF PreviewInv

LEMMA ClickDocumentKeepsInv ==
    ASSUME PreviewInv, NEW d \in Doc, ClickDocument(d)
    PROVE  PreviewInv'
  <1> USE PreviewAssumption
  <1>0. PICK k \in Click : k = clicks + 1
    BY DEF ClickDocument, PreviewInv, PreviewTypeOK, Click
  <1>1. ~Used(k) /\ clicks' = k
    BY <1>0 DEF ClickDocument, PreviewInv, PreviewTypeOK, IdsDiffer, Click
  <1>2. /\ rendering'[k] = Started(d, previewRequestId')
        /\ \A j \in Click \ {k} : rendering'[j] = rendering[j]
    BY <1>1 DEF ClickDocument, PreviewInv, PreviewTypeOK
  <1>3. previewRequestId' \in Nat /\ previewRequestId' > previewRequestId
    BY DEF ClickDocument, PreviewInv, PreviewTypeOK
  <1>4. PreviewTypeOK'
    <2>1. preview' \in Notices
      BY EmptySeq DEF ClickDocument, Nothing, Notices
    <2>2. Started(d, previewRequestId') \in
             [step : {"unused", "fetching", "reading", "waiting", "ended"},
              id : Nat, doc : Doc \cup {"none"},
              page : 1..MAX_PREVIEW_PAGES, asked : 0..MAX_PREVIEW_PAGES]
      BY <1>3 DEF Started
    <2>3. rendering' \in Renderings
      BY <1>1, <2>2 DEF ClickDocument, PreviewInv, PreviewTypeOK, Renderings
    <2> QED
      <3>1. clicks' \in 0..MaxClicks
        BY <1>1 DEF Click, PreviewInv, PreviewTypeOK
      <3>2. title' \in Doc \cup {"none"} /\ hidden' \in BOOLEAN
        BY DEF ClickDocument
      <3> QED
        BY <1>3, <2>1, <2>3, <3>1, <3>2 DEF PreviewTypeOK, Notices, Renderings
  <1>5. IdsDiffer'
    <2>1. \A j \in Click : Used(j)' <=> (j = k \/ Used(j))
      BY <1>1, <1>2 DEF Used, Started
    <2>2. rendering'[k].id = previewRequestId'
      BY <1>2 DEF Started
    <2>3. \A j \in Click : j > clicks <=> ~Used(j)
      BY DEF PreviewInv, IdsDiffer
    <2>4. \A j \in Click \ {k} : rendering'[j].id = rendering[j].id
             /\ rendering[j].id <= previewRequestId /\ rendering[j].id \in Nat
      BY <1>2 DEF PreviewInv, IdsDiffer, PreviewTypeOK
    <2>5. \A j \in Click : j > clicks' <=> ~Used(j)'
      <3>1. clicks \in Nat /\ \A j \in Click : j \in Nat
        BY DEF Click, PreviewInv, PreviewTypeOK
      <3>2. \A j \in Click : j > k <=> (j > clicks /\ j # k)
        BY <1>0, <3>1
      <3> QED
        BY <1>1, <2>1, <2>3, <3>2
    <2>6. previewRequestId \in Nat
      BY DEF PreviewInv, PreviewTypeOK
    <2>7. \A j \in Click : rendering'[j].id <= previewRequestId'
      BY <1>3, <2>2, <2>4, <2>6
    <2>8. ASSUME NEW i \in Click, NEW j \in Click, Used(i)', Used(j)',
                 rendering'[i].id = rendering'[j].id
          PROVE  i = j
      <3>1. CASE i # k /\ j # k
        BY <2>1, <2>4, <2>8, <3>1 DEF PreviewInv, IdsDiffer
      <3>2. CASE i = k \/ j = k
        BY <1>3, <2>2, <2>4, <2>6, <2>8, <3>2
      <3> QED
        BY <3>1, <3>2
    <2> QED
      BY <2>5, <2>7, <2>8 DEF IdsDiffer
  <1>6. ContentFits'
    <2>1. preview'.pages = Pages(title', 0)
      BY NoPages DEF ClickDocument, Nothing
    <2> QED
      BY <2>1 DEF ClickDocument, ContentFits, Nothing
  <1>7. CurrentFits'
    <2>1. RenderingFits(k)'
      <3>1. rendering'[k].doc = d /\ rendering'[k].step = "fetching"
        BY <1>2 DEF Started
      <3>2. title' = d /\ preview'.kind = "loading"
        BY DEF ClickDocument, Nothing
      <3> QED
        BY <3>1, <3>2 DEF RenderingFits
    <2>2. ASSUME NEW j \in Click \ {k}
          PROVE  RenderingFits(j)'
      <3>1. RenderingFits(j) /\ rendering[j].id <= previewRequestId
            /\ rendering[j].id \in Nat /\ previewRequestId \in Nat
        BY DEF PreviewInv, CurrentFits, IdsDiffer, PreviewTypeOK
      <3>2. ~Current(j)'
        BY <1>2, <1>3, <3>1 DEF Current
      <3> QED
        BY <1>2, <3>1, <3>2 DEF RenderingFits, Used
    <2> QED
      BY <2>1, <2>2 DEF CurrentFits
  <1> QED
    BY <1>4, <1>5, <1>6, <1>7 DEF PreviewInv

LEMMA RenderKeepsInv ==
    ASSUME PreviewInv, NEW k \in Click, Render(k)
    PROVE  PreviewInv'
  <1>1. CASE FetchFails(k)
    <2>1. Used(k)
      BY <1>1 DEF FetchFails, Used
    <2> QED
      BY <1>1, <2>1, RejectKeepsInv DEF FetchFails
  <1>2. CASE Fetched(k)
    BY <1>2, FetchedKeepsInv
  <1>3. CASE PdfRead(k)
    BY <1>3, PdfReadKeepsInv
  <1>4. CASE ImageRead(k)
    BY <1>4, ImageReadKeepsInv
  <1>5. CASE ImageLoads(k)
    BY <1>5, ImageLoadsKeepsInv
  <1>6. CASE ImageBreaks(k)
    BY <1>6, ImageBreaksKeepsInv
  <1> QED
    BY <1>1, <1>2, <1>3, <1>4, <1>5, <1>6 DEF Render

LEMMA NextKeepsInv ==
    ASSUME PreviewInv, [PreviewNext]_previewVars
    PROVE  PreviewInv'
  <1>1. CASE UNCHANGED previewVars
    <2> USE <1>1 DEF previewVars
    <2>1. PreviewTypeOK'
      BY DEF PreviewInv, PreviewTypeOK
    <2>2. IdsDiffer'
      BY DEF PreviewInv, IdsDiffer, Used
    <2>3. ContentFits'
      BY DEF PreviewInv, ContentFits, Pages
    <2>4. CurrentFits'
      BY DEF PreviewInv, CurrentFits, RenderingFits, Used, Current, Pages
    <2> QED
      BY <2>1, <2>2, <2>3, <2>4 DEF PreviewInv
  <1>2. CASE PreviewNext
    BY <1>2, ClickDocumentKeepsInv, ClosePreviewKeepsInv, RenderKeepsInv DEF PreviewNext
  <1> QED
    BY <1>1, <1>2

LEMMA PreviewInvariant == PreviewSpec => []PreviewInv
  BY InitEstablishesInv, NextKeepsInv, PTL DEF PreviewSpec

-----------------------------------------------------------------------------
(* Results. *)

\* Every value of the modal and of its renderings is of its type; above all no
\* page after MAX_PREVIEW_PAGES is asked for (lines 125-130).
THEOREM PreviewTypeCorrect == PreviewSpec => []PreviewTypeOK
  BY PreviewInvariant, PTL DEF PreviewInv

\* What is below the title is the document the title names, its pages in order
\* and none twice, however the renderings interleave (lines 104 and 137).
THEOREM ShownIsTitledAlways == PreviewSpec => []ShownIsTitled
  <1>1. PreviewInv => ShownIsTitled
    <2> SUFFICES ASSUME PreviewInv PROVE ShownIsTitled
      OBVIOUS
    <2>1. PICK n \in Nat : preview.pages = Pages(title, n) /\ (n > 0 => title \in Doc)
      BY DEF PreviewInv, ContentFits
    <2>2. Len(preview.pages) = n
      <3>1. CASE n = 0
        BY <2>1, <3>1, NoPages
      <3>2. CASE n > 0
        BY <2>1, <3>2, PagesIsSequence
      <3> QED
        BY <3>1, <3>2
    <2> QED
      BY <2>1, <2>2 DEF ShownIsTitled
  <1> QED
    BY <1>1, PreviewInvariant, PTL

\* A rendering that was superseded or closed asks the server for no further
\* page (lines 128 and 137).
THEOREM StaleRenderingsAskNothing == PreviewSpec => NoStaleRequest
  <1> DEFINE Asks == \A k \in Click :
                 rendering[k].step # "unused" /\ rendering'[k].asked > rendering[k].asked => Current(k)
  <1>1. ASSUME PreviewInv, [PreviewNext]_previewVars
        PROVE  [Asks]_previewVars
    <2> SUFFICES ASSUME PreviewNext, NEW k \in Click, Used(k), ~Current(k)
                 PROVE  ~(rendering'[k].asked > rendering[k].asked)
      BY <1>1 DEF Used
    <2>1. rendering[k].asked \in Nat /\ \A j \in Click : j > clicks <=> ~Used(j)
      BY <1>1, PreviewAssumption DEF PreviewInv, PreviewTypeOK, IdsDiffer
    <2>2. rendering'[k].asked = rendering[k].asked
      <3>1. CASE ClosePreview
        BY <3>1 DEF ClosePreview
      <3>2. ASSUME NEW d \in Doc, ClickDocument(d)
            PROVE  rendering'[k].asked = rendering[k].asked
        <4>1. clicks' # k
          BY <1>1, <2>1, <3>2 DEF ClickDocument, PreviewInv, PreviewTypeOK
        <4> QED
          BY <1>1, <3>2, <4>1 DEF ClickDocument, PreviewInv, PreviewTypeOK
      <3>3. ASSUME NEW j \in Click, Render(j)
            PROVE  rendering'[k].asked = rendering[k].asked
        <4>1. CASE j # k
          BY <1>1, <3>3, <4>1 DEF Render, FetchFails, Fetched, PdfRead, ImageRead, ImageLoads,
             ImageBreaks, Reject, GiveUp, Ended, Await, PreviewInv, PreviewTypeOK
        <4>2. CASE j = k
          BY <1>1, <3>3, <4>2 DEF Render, FetchFails, Fetched, PdfRead, ImageRead, ImageLoads,
             ImageBreaks, Reject, GiveUp, Ended, PreviewInv, PreviewTypeOK
        <4> QED
          BY <4>1, <4>2
      <3> QED
        BY <3>1, <3>2, <3>3 DEF PreviewNext
    <2> QED
      BY <2>1, <2>2
  <1>2. PreviewSpec => [][Asks]_previewVars
    BY <1>1, PreviewInvariant, PTL DEF PreviewSpec
  <1> QED
    BY <1>2 DEF NoStaleRequest

-----------------------------------------------------------------------------
(* The refinement. *)

LEMMA PagesAgree == \A d, n : Viewer!PagesOf(d, n) = Pages(d, n)
  BY DEF Viewer!PagesOf, Pages

\* A first page, of a PDF or of images, takes the place of the loading notice,
\* and every other page goes below those already there.
LEMMA RenderRefines ==
    ASSUME PreviewInv, NEW k \in Click, Render(k)
    PROVE  [Viewer!ViewerNext]_Viewer!viewer
  <1> USE PreviewAssumption
  <1>1. CASE preview' = preview
    <2>1. title' = title
      BY DEF Render, FetchFails, Fetched, PdfRead, ImageRead, ImageLoads, ImageBreaks, Reject, GiveUp
    <2> QED
      BY <1>1, <2>1 DEF Viewer!viewer, Notice
  <1>2. CASE preview' # preview
    <2>1. RenderingFits(k) /\ title' = title
      BY DEF PreviewInv, CurrentFits, Render, FetchFails, Fetched, PdfRead, ImageRead, ImageLoads,
             ImageBreaks, Reject, GiveUp
    <2>2. CASE Reject(k) /\ (FetchFails(k) \/ ImageBreaks(k))
      <3>1. Current(k) /\ preview' = Nothing("error")
        BY <1>2, <2>2 DEF Reject
      <3>2. Used(k) /\ (rendering[k].step \in {"fetching", "reading"}
                          \/ (rendering[k].step = "waiting" /\ rendering[k].page = 1))
        BY <1>2, <2>2 DEF FetchFails, ImageBreaks, GiveUp, Used
      <3>3. preview.kind = "loading" /\ preview.pages = << >>
        BY <2>1, <3>1, <3>2 DEF RenderingFits, PreviewInv, ContentFits
      <3>4. Viewer!GiveUp
        BY <2>1, <3>1, <3>3 DEF Viewer!GiveUp, Notice, Nothing
      <3> QED
        BY <3>4 DEF Viewer!ViewerNext
    <2>3. CASE PdfRead(k)
      <3>1. /\ Current(k) /\ rendering[k].doc \in Pdf
            /\ preview' = [kind |-> "frame", pages |-> Pages(rendering[k].doc, 1)]
        BY <1>2, <2>3 DEF PdfRead
      <3>2. rendering[k].doc = title /\ preview.kind = "loading" /\ preview.pages = << >>
        BY <2>1, <2>3, <3>1 DEF PdfRead, RenderingFits, Used, PreviewInv, ContentFits
      <3>3. Viewer!ShowPage(1)
        BY <2>1, <3>1, <3>2, PagesAgree, NoPages DEF Viewer!ShowPage, Notice
      <3>4. 1 \in 1..MAX_PREVIEW_PAGES
        OBVIOUS
      <3> QED
        BY <3>3, <3>4 DEF Viewer!ViewerNext
    <2>4. CASE ImageLoads(k)
      <3>1. PICK n \in 1..MAX_PREVIEW_PAGES :
               /\ title \notin Pdf
               /\ preview.kind = IF n = 1 THEN "loading" ELSE "pages"
               /\ preview.pages = Pages(title, n - 1)
               /\ preview' = [kind |-> "pages", pages |-> Pages(title, n)]
        <4>1. Current(k)
          BY <1>2, <2>4 DEF ImageLoads
        <4> QED
          BY <2>4, <4>1, ImageIsNext
      <3>2. Viewer!ShowPage(n)
        BY <2>1, <3>1, PagesAgree DEF Viewer!ShowPage, Notice
      <3> QED
        BY <3>2 DEF Viewer!ViewerNext
    <2> QED
      BY <1>2, <2>2, <2>3, <2>4 DEF Render, FetchFails, Fetched, ImageRead, ImageBreaks, GiveUp
  <1> QED
    BY <1>1, <1>2

LEMMA NextRefines ==
    ASSUME PreviewInv, [PreviewNext]_previewVars
    PROVE  [Viewer!ViewerNext]_Viewer!viewer
  <1>1. ASSUME NEW d \in Doc, ClickDocument(d)
        PROVE  Viewer!ViewerNext
    BY <1>1, PagesAgree, NoPages DEF ClickDocument, Nothing, Notice, Viewer!Open, Viewer!ViewerNext
  <1>2. CASE ClosePreview
    BY <1>2, PagesAgree, NoPages DEF ClosePreview, Nothing, Notice, Viewer!Close, Viewer!ViewerNext
  <1>3. ASSUME NEW k \in Click, Render(k)
        PROVE  [Viewer!ViewerNext]_Viewer!viewer
    BY <1>3, RenderRefines
  <1>4. CASE UNCHANGED previewVars
    BY <1>4 DEF previewVars, Viewer!viewer, Notice
  <1> QED
    BY <1>1, <1>2, <1>3, <1>4 DEF PreviewNext

\* The preview shows what PreviewViewer promises: pages in order and without a
\* gap under the title they belong to, at most MAX_PREVIEW_PAGES, an error only
\* in the place of the loading notice.
THEOREM PreviewImplementsViewer == PreviewSpec => ImplementsViewer
  <1>1. PreviewInit => Viewer!ViewerInit
    BY PagesAgree, NoPages DEF PreviewInit, Nothing, Notice, Viewer!ViewerInit
  <1>2. PreviewInv /\ [PreviewNext]_previewVars => [Viewer!ViewerNext]_Viewer!viewer
    BY NextRefines
  <1> QED
    BY <1>1, <1>2, PreviewInvariant, PTL DEF PreviewSpec, ImplementsViewer, Viewer!ViewerSpec
=============================================================================
