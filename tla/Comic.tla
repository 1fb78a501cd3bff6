------------------------------- MODULE Comic --------------------------------
(***************************************************************************)
(* The comic reader of a page.  The list of pages comes some time after    *)
(* the reader was opened, maybe for another comic by then; the state of a  *)
(* closed reader is cleared 400 ms later, maybe after it was opened again; *)
(* the page that was read is remembered for each comic.                    *)
(***************************************************************************)
EXTENDS Naturals, FiniteSets

CONSTANTS
  Comics,       \* files
  ComicPages,   \* the pages of each
  MaxComicOps   \* bound on what the user does

NoComic == "no comic"

ASSUME ComicAssumption ==
  NoComic \notin Comics /\ ComicPages \in [Comics -> Nat] /\ MaxComicOps \in Nat

VARIABLES
  cv,         \* comicViewer
  clists,     \* lists of pages under way: how many of each comic
  cclosing,   \* timers of the reader's resets: how many for each comic
  cprogress,  \* localStorage: the page index kept for each comic
  cops        \* what the user has done so far

comicVars == <<cv, clists, cclosing, cprogress, cops>>

ComicInit ==
  /\ cv = [show |-> FALSE, file |-> NoComic, pages |-> 0, at |-> 0, loading |-> FALSE,
           mode |-> "single", scroll |-> "page", auto |-> FALSE]
  /\ clists = [c \in Comics |-> 0] /\ cclosing = [c \in Comics |-> 0]
  /\ cprogress \in [Comics -> 0..1]
  /\ cops = 0

ComicDoes == cops < MaxComicOps /\ cops' = cops + 1
SaveComicProgress(at) == cprogress' = IF cv.file = NoComic THEN cprogress
                         ELSE [cprogress EXCEPT ![cv.file] = at]

\* The page comes from the last time, before the number of pages is known.
OpenComicViewer(c) ==
  /\ ComicDoes /\ ~cv.show
  /\ cv' = [cv EXCEPT !.show = TRUE, !.file = c, !.pages = 0, !.at = cprogress[c],
                      !.scroll = "page", !.loading = TRUE]
  /\ clists' = [clists EXCEPT ![c] = @ + 1]
  /\ UNCHANGED <<cclosing, cprogress>>

\* A list for a comic that is not shown any more is left out.
Awaited(c) == cv.show /\ cv.file = c
ComicListed(c) ==
  /\ clists[c] > 0 /\ clists' = [clists EXCEPT ![c] = @ - 1]
  /\ cv' = IF Awaited(c)
             THEN [cv EXCEPT !.pages = ComicPages[c], !.loading = FALSE,
                             !.at = IF @ >= ComicPages[c] /\ ComicPages[c] > 0 THEN 0 ELSE @]
             ELSE cv
  /\ UNCHANGED <<cclosing, cprogress, cops>>
\* A failure closes whatever comic is shown.
ComicListFails(c) ==
  /\ clists[c] > 0 /\ clists' = [clists EXCEPT ![c] = @ - 1]
  /\ cv' = [cv EXCEPT !.show = FALSE, !.loading = FALSE]
  /\ UNCHANGED <<cclosing, cprogress, cops>>

\* changeComicPageIndex: a double page starts at an even index.
EvenPage(i) == i - (i % 2)
ComicTarget(step) ==
  LET n == cv.pages
      by == IF cv.mode = "double" THEN 2 ELSE 1
      from == IF cv.mode = "double" THEN EvenPage(cv.at) ELSE cv.at
      last == IF by = 2 THEN EvenPage(n - 1) ELSE n - 1
  IN IF step = "next" THEN IF from + by < n THEN from + by ELSE last
     ELSE IF from < by THEN 0 ELSE from - by
ChangeComicPage(step) ==
  /\ ComicDoes /\ cv.pages > 0
  /\ ComicTarget(step) # cv.at
  /\ cv' = [cv EXCEPT !.at = ComicTarget(step)]
  /\ SaveComicProgress(ComicTarget(step))
  /\ UNCHANGED <<clists, cclosing>>

\* In the continuous mode scrolling tells the page.
ScrollComic(i) ==
  /\ ComicDoes /\ cv.scroll = "continuous" /\ i < cv.pages /\ i # cv.at
  /\ cv' = [cv EXCEPT !.at = i]
  /\ SaveComicProgress(i)
  /\ UNCHANGED <<clists, cclosing>>

ToggleComicScrollMode ==
  /\ ComicDoes /\ cv.show
  /\ cv' = [cv EXCEPT !.scroll = IF @ = "page" THEN "continuous" ELSE "page"]
  /\ UNCHANGED <<clists, cclosing, cprogress>>

SetComicViewMode(m) ==
  /\ ComicDoes /\ cv.show /\ m # cv.mode
  /\ cv' = [cv EXCEPT !.mode = m, !.at = IF m = "double" THEN EvenPage(@) ELSE @]
  /\ UNCHANGED <<clists, cclosing, cprogress>>

\* getComicPagesToRender
PagesToRender ==
  LET first == EvenPage(cv.at)
  IN IF cv.pages = 0 THEN {}
     ELSE IF cv.mode = "single" \/ cv.scroll = "continuous" THEN {cv.at}
     ELSE {first} \cup (IF first + 1 < cv.pages THEN {first + 1} ELSE {})

CloseComicViewer ==
  /\ ComicDoes /\ cv.show
  /\ cv' = [cv EXCEPT !.show = FALSE, !.auto = FALSE]
  /\ cclosing' = [cclosing EXCEPT ![cv.file] = @ + 1]
  /\ UNCHANGED <<clists, cprogress>>

\* "prevents the deferred null from blanking a fresh open"
StillClosed(c) == ~cv.show /\ cv.file \in {c, NoComic}
ComicReset(c) ==
  /\ cclosing[c] > 0 /\ cclosing' = [cclosing EXCEPT ![c] = @ - 1]
  /\ cv' = IF StillClosed(c) THEN [cv EXCEPT !.file = NoComic, !.pages = 0] ELSE cv
  /\ UNCHANGED <<clists, cprogress, cops>>

\* toggleComicAutoScroll, and a frame that finds the reader closed by a failure.
ToggleComicAuto ==
  /\ ComicDoes /\ cv.show /\ cv.scroll = "continuous"
  /\ cv' = [cv EXCEPT !.auto = ~@]
  /\ UNCHANGED <<clists, cclosing, cprogress>>
ComicFrame ==
  /\ cv.auto /\ ~cv.show
  /\ cv' = [cv EXCEPT !.auto = FALSE]
  /\ UNCHANGED <<clists, cclosing, cprogress, cops>>

-----------------------------------------------------------------------------
ComicNext ==
  \/ \E c \in Comics : OpenComicViewer(c) \/ ComicListed(c) \/ ComicListFails(c) \/ ComicReset(c)
  \/ \E step \in {"next", "prev"} : ChangeComicPage(step)
  \/ \E i \in 0..4 : ScrollComic(i)
  \/ ToggleComicScrollMode \/ CloseComicViewer \/ ToggleComicAuto \/ ComicFrame
  \/ \E m \in {"single", "double"} : SetComicViewMode(m)

ComicTypeOK ==
  /\ cv.file \in Comics \cup {NoComic}
  /\ {cv.pages, cv.at} \subseteq Nat
  /\ {clists, cclosing} \subseteq [Comics -> Nat] /\ cprogress \in [Comics -> Nat]

\* What is drawn are pages of the comic that is shown, the current one among them, and a
\* comic that is open is not cleared by the reset of one that was closed before.  A late
\* failure of an earlier comic closes it, which is not spoken of.
ComicOwnPages ==
  /\ cv.show => cv.file # NoComic /\ cv.pages = IF cv.loading THEN 0 ELSE ComicPages[cv.file]
  /\ PagesToRender # {} => PagesToRender \subseteq 0..(cv.pages - 1) /\ cv.at \in PagesToRender
=============================================================================
