-------------------------------- MODULE Epub --------------------------------
(***************************************************************************)
(* The book reader of a page.  A chapter is shown in a iframe that loads it *)
(* by itself; scrolling in the iframe, closing the reader and turning to    *)
(* another chapter keep the place in the book, which is read when it is    *)
(* opened again.                                                           *)
(***************************************************************************)
EXTENDS Naturals

CONSTANTS
  Books,       \* files
  Spine,       \* the number of chapters of each
  MaxEpubOps   \* bound on what the user does

NoBook == "no book"
Blank == [book |-> NoBook, chapter |-> 0]

ASSUME EpubAssumption == NoBook \notin Books /\ Spine \in [Books -> Nat] /\ MaxEpubOps \in Nat

VARIABLES
  ev,        \* epubViewer, and whether it was opened while a reset was due (`hasty', which
             \* no step looks at)
  metas,     \* tables of contents under way: how many of each book
  iframe,     \* the iframe: what it shows and what it loads, or none
  eclosing,  \* timers of the reader's resets
  places,      \* localStorage: chapter and scroll position of each book
  eops       \* what the user has done so far

epubVars == <<ev, metas, iframe, eclosing, places, eops>>

NoFrame == [there |-> FALSE, doc |-> Blank, loads |-> Blank, restore |-> FALSE]
NewFrame == [NoFrame EXCEPT !.there = TRUE]
NoScroll == [set |-> FALSE, chapter |-> 0]

EpubInit ==
  /\ ev = [show |-> FALSE, file |-> NoBook, spine |-> 0, at |-> 0, loading |-> FALSE,
           auto |-> FALSE, hasty |-> FALSE]
  /\ metas = [b \in Books |-> 0] /\ iframe = NoFrame /\ eclosing = 0 /\ eops = 0
  /\ \E at \in {0, 1} : places = [b \in Books |-> [chapter |-> at, scroll |-> NoScroll]]

EpubDoes == eops < MaxEpubOps /\ eops' = eops + 1
Earlier(a, b) == IF a < b THEN a ELSE b

OpenEpubViewer(b) ==
  /\ EpubDoes /\ ~ev.show
  /\ ev' = [ev EXCEPT !.show = TRUE, !.file = b, !.loading = TRUE, !.spine = 0, !.at = 0,
                      !.hasty = eclosing > 0]
  /\ iframe' = NewFrame
  /\ metas' = [metas EXCEPT ![b] = @ + 1]
  /\ UNCHANGED <<eclosing, places>>

\* _loadEpubChapter: without a chapter or a iframe nothing loads.
ChapterOf(b, c) == [book |-> b, chapter |-> c]
LoadChapter(at, spine, restore, memory) ==
  IF at >= spine THEN ev' = [ev EXCEPT !.at = at, !.spine = spine]
                      /\ places' = memory /\ UNCHANGED iframe
  ELSE /\ ev' = [ev EXCEPT !.at = at, !.spine = spine, !.loading = TRUE]
       /\ places' = IF ev.file # NoBook /\ iframe.there
                    THEN [memory EXCEPT ![ev.file].chapter = at] ELSE memory
       /\ iframe' = IF iframe.there
                     THEN [iframe EXCEPT !.loads = ChapterOf(ev.file, at), !.restore = restore]
                     ELSE iframe

AwaitedBook(b) == ev.show /\ ev.file = b
MetaLoaded(b) ==
  /\ metas[b] > 0 /\ metas' = [metas EXCEPT ![b] = @ - 1]
  /\ IF AwaitedBook(b)
       THEN LoadChapter(IF Spine[b] = 0 THEN 0 ELSE Earlier(places[b].chapter, Spine[b] - 1),
                        Spine[b], TRUE, places)
       ELSE UNCHANGED <<ev, iframe, places>>
  /\ UNCHANGED <<eclosing, eops>>

\* Only the failure of the book that is shown closes the reader.
AnyFailure(b) == TRUE                                                 \* a mutant
OwnFailure(b) == ev.file = b
MetaFails(b) ==
  /\ metas[b] > 0 /\ metas' = [metas EXCEPT ![b] = @ - 1]
  /\ ev' = IF OwnFailure(b) THEN [ev EXCEPT !.show = FALSE, !.loading = FALSE] ELSE ev
  /\ UNCHANGED <<iframe, eclosing, places, eops>>

\* iframe.onload; a position that was kept is used once.
FrameLoads ==
  /\ iframe.there /\ iframe.loads # Blank
  /\ iframe' = [iframe EXCEPT !.doc = iframe.loads, !.loads = Blank]
  /\ IF AwaitedBook(iframe.loads.book)
       THEN /\ ev' = [ev EXCEPT !.loading = FALSE]
            /\ places' = IF iframe.restore
                         THEN [places EXCEPT ![ev.file].scroll = NoScroll] ELSE places
       ELSE UNCHANGED <<ev, places>>
  /\ UNCHANGED <<metas, eclosing, eops>>

\* nextEpubChapter, prevEpubChapter and a link or an entry of the table of contents.
ScrollForgotten == IF ev.file = NoBook THEN places
             ELSE [places EXCEPT ![ev.file].scroll = NoScroll]
GoToChapter(at) == EpubDoes /\ LoadChapter(at, ev.spine, FALSE, ScrollForgotten) /\ UNCHANGED <<metas, eclosing>>
NextEpubChapter == ev.at + 1 < ev.spine /\ GoToChapter(ev.at + 1)
PrevEpubChapter == ev.at > 0 /\ GoToChapter(ev.at - 1)
NavigateToCfi(i) == ev.show /\ i < ev.spine /\ GoToChapter(i)

\* _saveEpubScroll keeps the position of what the iframe shows, for the book of the reader.
ScrollKept(b) == [places EXCEPT ![b].scroll = [set |-> TRUE, chapter |-> iframe.doc.chapter]]
ScrollEpub ==
  /\ EpubDoes /\ iframe.there /\ iframe.doc # Blank /\ ev.file # NoBook
  /\ places' = ScrollKept(ev.file)
  /\ UNCHANGED <<ev, metas, iframe, eclosing>>

CloseEpubViewer ==
  /\ EpubDoes /\ ev.show
  /\ places' = IF iframe.there THEN ScrollKept(ev.file) ELSE places
  /\ ev' = [ev EXCEPT !.show = FALSE, !.auto = FALSE]
  /\ eclosing' = eclosing + 1
  /\ UNCHANGED <<metas, iframe>>

\* After 400 ms, whatever is open by then: the comic reader asks, this one does not.
EpubReset ==
  /\ eclosing > 0 /\ eclosing' = eclosing - 1
  /\ iframe' = NoFrame
  /\ ev' = [ev EXCEPT !.file = NoBook, !.spine = 0]
  /\ UNCHANGED <<metas, places, eops>>

ToggleEpubAuto ==
  /\ EpubDoes /\ ev.show
  /\ ev' = [ev EXCEPT !.auto = ~@]
  /\ UNCHANGED <<metas, iframe, eclosing, places>>
EpubFrame ==
  /\ ev.auto /\ (~ev.show \/ ~iframe.there)
  /\ ev' = [ev EXCEPT !.auto = FALSE]
  /\ UNCHANGED <<metas, iframe, eclosing, places, eops>>

-----------------------------------------------------------------------------
EpubNext ==
  \/ \E b \in Books : OpenEpubViewer(b) \/ MetaLoaded(b) \/ MetaFails(b)
  \/ FrameLoads \/ NextEpubChapter \/ PrevEpubChapter \/ ScrollEpub
  \/ \E i \in 0..3 : NavigateToCfi(i)
  \/ CloseEpubViewer \/ EpubReset \/ ToggleEpubAuto \/ EpubFrame

EpubTypeOK ==
  /\ ev.file \in Books \cup {NoBook} /\ {ev.spine, ev.at} \subseteq Nat
  /\ metas \in [Books -> Nat] /\ eclosing \in Nat
  /\ \A b \in Books : places[b].chapter \in Nat

\* The one state set apart: a reader reopened within 400 ms of a closing is emptied by its reset.
EpubBlanked == ev.hasty /\ ev.file = NoBook

\* The chapter in the iframe, and the one it loads, are of the book that is shown, whose spine
\* is the reader's once its table of contents is there.
EpubOwnPages ==
  ev.show /\ ~EpubBlanked =>
    /\ ev.file # NoBook /\ iframe.there /\ ev.spine \in {0, Spine[ev.file]}
    /\ \A c \in {iframe.doc, iframe.loads} \ {Blank} : c.book = ev.file /\ c.chapter < Spine[c.book]

\* A book that is open is closed by the user or by its own failure, not by that of a book
\* that was opened before; and the place kept for a book is one of its chapters.
EpubKeepsBook ==
  [][/\ ev.show /\ ~ev'.show => eops' # eops \/ metas'[ev.file] < metas[ev.file]
     /\ \A b \in Books : places'[b].chapter # places[b].chapter => places'[b].chapter < Spine[b]]_epubVars
=============================================================================
