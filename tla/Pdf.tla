-------------------------------- MODULE Pdf ---------------------------------
(***************************************************************************)
(* The PDF reader of a page.  A document is loaded and its outline read    *)
(* before its first page is drawn; drawing asks for the page and paints it *)
(* on the one canvas; the page and the mode are kept for each file.        *)
(* Opening a file destroys the load under way, which then fails, unless    *)
(* it still waits for the library.                                         *)
(***************************************************************************)
EXTENDS Naturals

CONSTANTS
  Pdfs,       \* files
  PdfPages,   \* the pages of each
  MaxPdfOps   \* bound on what the user does

NoPdf == "no pdf"

ASSUME PdfAssumption == NoPdf \notin Pdfs /\ PdfPages \in [Pdfs -> Nat \ {0}] /\ MaxPdfOps \in Nat

VARIABLES
  pv,        \* pdfViewer, and whether it was opened while a reset was due (`hasty', which
             \* no step looks at)
  doc,       \* window._pdfDoc: its file, or none
  library,   \* window.pdfjsLib is there
  task,      \* window._pdfLoadingTask: the id of its opening, or none
  opens,     \* openings that have not come to their first page
  fetched,   \* pages asked for, with the document they are of
  render,    \* the page that is painted, and whether window._pdfRenderTask is its task
  canvas,    \* what the canvas shows
  pclosing,  \* timers of the reader's resets
  pkept,     \* localStorage: page and mode of each file
  pdfops      \* what the user has done so far

pdfVars == <<pv, doc, library, task, opens, fetched, render, canvas, pclosing, pkept, pdfops>>
drawing == <<fetched, render, canvas>>

NoCanvas == [file |-> NoPdf, page |-> 0]
NoRender == [of |-> NoCanvas, held |-> FALSE]
NoTask == 0
FitWidth == 0      \* 'width' and 'height'; other zooms are per cents
FitHeight == 1

PdfInit ==
  /\ pv = [show |-> FALSE, file |-> NoPdf, pages |-> 0, at |-> 1, loading |-> FALSE,
           drawn |-> TRUE, scroll |-> "page", zoom |-> FitWidth, auto |-> FALSE, hasty |-> FALSE]
  /\ doc = NoPdf /\ library = FALSE /\ task = NoTask /\ opens = {} /\ fetched = {} /\ render = NoRender
  /\ canvas = NoCanvas /\ pclosing = 0 /\ pdfops = 0
  /\ \E at \in {1, 3} : pkept = [p \in Pdfs |-> [page |-> at, scroll |-> "page"]]

PdfDoes == pdfops < MaxPdfOps /\ pdfops' = pdfops + 1

\* A load that is destroyed fails, if its document was not there yet.
Destroyed(os) == {IF o.id = task /\ o.pc = "load" THEN [o EXCEPT !.pc = "fails"] ELSE o : o \in os}
\* _pdfRenderTask is cancelled, which stops the painter if it is the painter's.
Cancelled == IF render.held THEN NoRender ELSE render

OpenPdfViewer(p) ==
  /\ PdfDoes /\ ~pv.show
  /\ pv' = [pv EXCEPT !.show = TRUE, !.file = p, !.loading = TRUE, !.drawn = FALSE, !.at = 1,
                      !.pages = 0, !.auto = FALSE, !.zoom = FitWidth, !.hasty = pclosing > 0]
  /\ opens' = Destroyed(opens) \cup {[id |-> pdfops', file |-> p,
                                      pc |-> IF library THEN "load" ELSE "library"]}
  /\ task' = IF library THEN pdfops' ELSE NoTask
  /\ doc' = NoPdf /\ render' = Cancelled
  /\ UNCHANGED <<library, fetched, canvas, pclosing, pkept>>

\* The library comes, and the task of an opening that waited for it takes the place of the
\* one before.
PdfLibrary(o) ==
  /\ o \in opens /\ o.pc = "library"
  /\ opens' = (opens \ {o}) \cup {[o EXCEPT !.pc = "load"]}
  /\ library' = TRUE /\ task' = o.id
  /\ UNCHANGED <<pv, doc, drawing, pclosing, pkept, pdfops>>

\* The document is there: it is used if the reader still shows its file.
AwaitedPdf(p) == pv.show /\ pv.file = p
PdfLoaded(o) ==
  /\ o \in opens /\ o.pc = "load"
  /\ IF AwaitedPdf(o.file)
       THEN /\ doc' = o.file
            /\ pv' = [pv EXCEPT !.pages = PdfPages[o.file], !.loading = FALSE]
            /\ opens' = (opens \ {o}) \cup {[o EXCEPT !.pc = "outline"]}
       ELSE opens' = opens \ {o} /\ UNCHANGED <<pv, doc>>
  /\ UNCHANGED <<library, task, drawing, pclosing, pkept, pdfops>>

\* A failure, its own or that of being destroyed, closes whatever is shown.
PdfFails(o) ==
  /\ o \in opens /\ o.pc \in {"library", "load", "fails"}
  /\ opens' = opens \ {o}
  /\ pv' = [pv EXCEPT !.show = FALSE, !.loading = FALSE, !.drawn = TRUE]
  /\ UNCHANGED <<doc, library, task, drawing, pclosing, pkept, pdfops>>

\* renderPdfPage(n) of a viewer v: nothing without a document or such a page.
RenderPdfPage(v, n, memory) ==
  IF doc = NoPdf \/ n < 1 \/ n > v.pages
    THEN pv' = v /\ pkept' = memory /\ UNCHANGED <<fetched, render>>
    ELSE /\ pv' = [v EXCEPT !.at = n, !.drawn = FALSE]
         /\ pkept' = IF v.file = NoPdf THEN memory ELSE [memory EXCEPT ![v.file].page = n]
         /\ render' = Cancelled
         /\ fetched' = fetched \cup {[file |-> doc, page |-> n]}

\* After the outline was read nobody looks again which file is shown: the page that was kept
\* for o.file is drawn of the document there is now.
PdfStarts(o) ==
  LET saved == pkept[o.file].page
      first == IF saved <= PdfPages[o.file] THEN saved ELSE 1
      v == [pv EXCEPT !.scroll = pkept[o.file].scroll, !.at = first]
  IN
  /\ o \in opens /\ o.pc = "outline" /\ opens' = opens \ {o}
  /\ IF v.scroll = "page" THEN RenderPdfPage(v, first, pkept)
     ELSE pv' = v /\ UNCHANGED <<fetched, render, pkept>>
  /\ UNCHANGED <<doc, library, task, canvas, pclosing, pdfops>>

\* getPage is answered and painting starts; the answer may be to a call that was overtaken.
\* A canvas that is being painted refuses another painter, whose task is the one kept.
PageFetched(g) ==
  /\ g \in fetched /\ fetched' = fetched \ {g}
  /\ IF render = NoRender THEN render' = [of |-> g, held |-> TRUE] /\ pv' = pv
     ELSE render' = [render EXCEPT !.held = FALSE] /\ pv' = [pv EXCEPT !.drawn = TRUE]
  /\ UNCHANGED <<doc, library, task, opens, canvas, pclosing, pkept, pdfops>>
PageMissing(g) ==
  /\ g \in fetched /\ fetched' = fetched \ {g}
  /\ pv' = [pv EXCEPT !.drawn = TRUE]
  /\ UNCHANGED <<doc, library, task, opens, render, canvas, pclosing, pkept, pdfops>>
Painted ==
  /\ render # NoRender /\ render' = NoRender
  /\ canvas' = render.of
  /\ pv' = [pv EXCEPT !.drawn = TRUE]
  /\ UNCHANGED <<doc, library, task, opens, fetched, pclosing, pkept, pdfops>>

\* pdfNextPage, pdfPrevPage, and pdfJumpToPage, which scrolls in the continuous mode.
TurnPdf(n) ==
  PdfDoes /\ RenderPdfPage(pv, n, pkept) /\ UNCHANGED <<doc, library, task, opens, canvas, pclosing>>
PdfNextPage == pv.at < pv.pages /\ TurnPdf(pv.at + 1)
PdfPrevPage == pv.at > 1 /\ TurnPdf(pv.at - 1)
PdfJumpToPage(n) ==
  /\ n \in 1..pv.pages /\ n # pv.at
  /\ IF pv.scroll = "page" THEN TurnPdf(n)
     ELSE /\ PdfDoes /\ pv' = [pv EXCEPT !.at = n]
          /\ UNCHANGED <<doc, library, task, opens, drawing, pclosing, pkept>>
TrackPdfScroll(n) ==
  /\ PdfDoes /\ pv.scroll = "continuous" /\ n \in 1..pv.pages /\ n # pv.at
  /\ pv' = [pv EXCEPT !.at = n]
  /\ pkept' = IF pv.file = NoPdf THEN pkept ELSE [pkept EXCEPT ![pv.file].page = n]
  /\ UNCHANGED <<doc, library, task, opens, drawing, pclosing>>

TogglePdfScrollMode ==
  LET m == IF pv.scroll = "page" THEN "continuous" ELSE "page"
      v == [pv EXCEPT !.scroll = m]
      memory == IF pv.file = NoPdf THEN pkept ELSE [pkept EXCEPT ![pv.file].scroll = m]
  IN
  /\ PdfDoes /\ pv.show
  /\ IF m = "page" THEN RenderPdfPage(v, pv.at, memory)
     ELSE pv' = v /\ pkept' = memory /\ UNCHANGED <<fetched, render>>
  /\ UNCHANGED <<doc, library, task, opens, canvas, pclosing>>

\* 50 to 300 per cent in steps of 25, or the width or height of the window; in the page
\* mode the page is drawn again.
Zooms == {FitWidth, FitHeight} \cup {25 * i : i \in 2..12}
ZoomedInFromFit == IF pv.zoom + 25 > 300 THEN 300 ELSE pv.zoom + 25       \* a mutant
ZoomedIn == IF pv.zoom \in {FitWidth, FitHeight} THEN 100
            ELSE IF pv.zoom + 25 > 300 THEN 300 ELSE pv.zoom + 25
ZoomedOut == IF pv.zoom \in {FitWidth, FitHeight} THEN 100
             ELSE IF pv.zoom - 25 < 50 THEN 50 ELSE pv.zoom - 25
PdfSetZoom(z) ==
  /\ PdfDoes /\ pv.show
  /\ LET v == [pv EXCEPT !.zoom = z]
     IN IF pv.scroll = "page" THEN RenderPdfPage(v, pv.at, pkept)
        ELSE pv' = v /\ UNCHANGED <<fetched, render, pkept>>
  /\ UNCHANGED <<doc, library, task, opens, canvas, pclosing>>
TogglePdfZoom == pv.scroll = "page" /\ PdfSetZoom(IF pv.zoom = 200 THEN FitHeight ELSE 200)

ClosePdfViewer ==
  /\ PdfDoes /\ pv.show
  /\ pv' = [pv EXCEPT !.show = FALSE, !.auto = FALSE]
  /\ pclosing' = pclosing + 1
  /\ UNCHANGED <<doc, library, task, opens, drawing, pkept>>

\* After 400 ms, whatever is open by then.
PdfReset ==
  /\ pclosing > 0 /\ pclosing' = pclosing - 1
  /\ opens' = Destroyed(opens) /\ task' = NoTask
  /\ doc' = NoPdf /\ render' = Cancelled /\ canvas' = NoCanvas
  /\ pv' = [pv EXCEPT !.file = NoPdf]
  /\ UNCHANGED <<library, fetched, pkept, pdfops>>

\* Scrolling by itself turns the page at the end of each, and stops at the last.
TogglePdfAuto ==
  /\ PdfDoes /\ pv.show
  /\ pv' = [pv EXCEPT !.auto = ~@]
  /\ UNCHANGED <<doc, library, task, opens, drawing, pclosing, pkept>>
PdfFrame ==
  /\ pv.auto
  /\ IF pv.show /\ pv.at < pv.pages THEN RenderPdfPage(pv, pv.at + 1, pkept)
     ELSE pv' = [pv EXCEPT !.auto = FALSE] /\ UNCHANGED <<fetched, render, pkept>>
  /\ UNCHANGED <<doc, library, task, opens, canvas, pclosing, pdfops>>

-----------------------------------------------------------------------------
PdfNext ==
  \/ \E p \in Pdfs : OpenPdfViewer(p)
  \/ \E o \in opens : PdfLibrary(o) \/ PdfLoaded(o) \/ PdfFails(o) \/ PdfStarts(o)
  \/ \E g \in fetched : PageFetched(g) \/ PageMissing(g)
  \/ Painted \/ PdfNextPage \/ PdfPrevPage \/ TogglePdfScrollMode \/ ClosePdfViewer \/ PdfReset
  \/ \E n \in 1..pv.pages : PdfJumpToPage(n) \/ TrackPdfScroll(n)
  \/ \E z \in {ZoomedIn, ZoomedOut, FitHeight} : PdfSetZoom(z)
  \/ TogglePdfZoom \/ TogglePdfAuto \/ PdfFrame

PdfTypeOK ==
  /\ pv.file \in Pdfs \cup {NoPdf} /\ pv.zoom \in Zooms
  /\ doc \in Pdfs \cup {NoPdf}
  /\ task # NoTask => task <= pdfops
  /\ \A p \in Pdfs : pkept[p].scroll \in {"page", "continuous"}

\* The one state set apart: a reader reopened within 400 ms of a closing is emptied by its reset.
PdfBlanked == pv.hasty /\ pv.file = NoPdf

\* The document the reader draws from is that of the file it shows, with its number of pages,
\* however late an earlier one arrives, and it is missing only while it loads.  What an
\* overtaken painter leaves on the canvas until the next page is not spoken of, nor that a
\* late failure of an earlier file closes the reader.
PdfOwnPages ==
  pv.show /\ ~PdfBlanked =>
    /\ pv.file # NoPdf
    /\ IF doc = NoPdf THEN pv.loading ELSE doc = pv.file /\ pv.pages = PdfPages[doc]
=============================================================================
