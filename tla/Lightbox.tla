------------------------------ MODULE Lightbox ------------------------------
(***************************************************************************)
(* The image viewer and its slide show.  slideshowInterval is null, a      *)
(* timer, or "waiting" for the picture to load; the timer turns the page,  *)
(* the load event starts the next one.  The watchers of init run at the    *)
(* end of the task that changed what they watch, so they are part of it.   *)
(***************************************************************************)
EXTENDS Naturals, Sequences

CONSTANTS
  Images,     \* pictures of the page
  Shows,      \* imageFiles and selections: sequences of pictures
  MaxBoxOps   \* bound on what the user does

NoImage == "no image"
TimerIds == 1..3
Null == 0       \* no timer
Waiting == 4    \* "waiting"

ASSUME LightboxAssumption == <<>> \in Shows /\ Shows \subseteq Seq(Images) /\ MaxBoxOps \in Nat

VARIABLES
  pics,      \* imageFiles
  box,       \* imageViewer
  armed,     \* slide show timers that will fire
  loading,   \* lightboxLoading
  unloaded,  \* a load event of the picture is to come
  hiding,      \* lightboxControlsTimeout runs
  bops       \* what the user has done so far

boxVars == <<pics, box, armed, loading, unloaded, hiding, bops>>

\* interval: Null, Waiting or the id of a timer, which may have fired.
NoBox == [show |-> FALSE, src |-> NoImage, file |-> NoImage, slides |-> FALSE,
          interval |-> Null, list |-> <<>>, index |-> 1]

BoxInit ==
  /\ pics = <<>>
  /\ box = NoBox /\ armed = {} /\ loading = FALSE /\ unloaded = FALSE
  /\ hiding = FALSE /\ bops = 0

BoxDoes == bops < MaxBoxOps /\ bops' = bops + 1
TimersLeft == armed \ {box.interval}
NewTimer(a) == CHOOSE i \in TimerIds : i \notin a

\* The picture changes: the old one's load event does not come any more.
ShownPic(b, f) == [b EXCEPT !.src = f, !.file = f]
TurnsTo(f, b, a) ==
  /\ box' = ShownPic(b, f) /\ armed' = a
  /\ loading' = TRUE /\ unloaded' = TRUE

\* startSlideshow on a viewer b whose timer is cleared.
StartKeepingTimer(b, isLoading) ==                                    \* a mutant
  IF isLoading THEN box' = [b EXCEPT !.slides = TRUE, !.interval = Waiting] /\ UNCHANGED armed
  ELSE box' = [b EXCEPT !.slides = TRUE, !.interval = NewTimer(armed)]
       /\ armed' = armed \cup {NewTimer(armed)}
StartSlideshow(b, isLoading) ==
  IF isLoading
    THEN /\ box' = [b EXCEPT !.slides = TRUE, !.interval = Waiting]
         /\ armed' = TimersLeft
    ELSE /\ box' = [b EXCEPT !.slides = TRUE, !.interval = NewTimer(TimersLeft)]
         /\ armed' = TimersLeft \cup {NewTimer(TimersLeft)}

\* stopSlideshow
StoppedSlideshow(b) == [b EXCEPT !.interval = Null, !.slides = FALSE]

-----------------------------------------------------------------------------
\* openImageViewer: the picture that was there before is shown again as it is.
OpenImageViewer(f) ==
  /\ BoxDoes /\ ~box.show
  /\ IF box.src = f
       THEN /\ box' = [box EXCEPT !.show = TRUE, !.file = f]
            /\ UNCHANGED <<armed, loading, unloaded>>
       ELSE TurnsTo(f, [box EXCEPT !.show = TRUE], armed)
  /\ hiding' = TRUE
  /\ UNCHANGED pics

\* startSelectedSlideshow, of the selection or of all pictures, opens the viewer too.
StartSelectedSlideshow(list) ==
  LET b == [box EXCEPT !.show = TRUE, !.list = list, !.index = 1, !.file = list[1], !.src = list[1]]
      wait == loading \/ box.src # list[1]
  IN
  /\ BoxDoes /\ ~box.show /\ list # <<>>
  /\ StartSlideshow(b, wait)
  /\ loading' = wait /\ unloaded' = (unloaded \/ box.src # list[1])
  /\ hiding' = TRUE
  /\ UNCHANGED pics

\* The watcher of imageViewer.show.
CloseImageViewer ==
  /\ BoxDoes /\ box.show
  /\ box' = [StoppedSlideshow(box) EXCEPT !.show = FALSE, !.list = <<>>, !.file = NoImage]
  /\ armed' = TimersLeft
  /\ hiding' = FALSE
  /\ UNCHANGED <<pics, loading, unloaded>>

\* onLightboxImageLoad
ImageLoads ==
  /\ unloaded /\ unloaded' = FALSE
  /\ loading' = FALSE
  /\ IF box.slides /\ box.interval # Null
       THEN /\ box' = [box EXCEPT !.interval = NewTimer(TimersLeft)]
            /\ armed' = TimersLeft \cup {NewTimer(TimersLeft)}
       ELSE UNCHANGED <<box, armed>>
  /\ UNCHANGED <<pics, hiding, bops>>
\* Nothing waits for an error: a slide show with a broken picture stands still.
ImageBreaks ==
  /\ unloaded /\ unloaded' = FALSE
  /\ UNCHANGED <<pics, box, armed, loading, hiding, bops>>

\* nextSlideshowImage and prevSlideshowImage; one picture is not loaded again.  The timers
\* of fired are over.
NextSlide(step, fired) ==
  LET n == Len(box.list)
      i == IF step = "next" THEN (box.index % n) + 1
           ELSE IF box.index = 1 THEN n ELSE box.index - 1
      rest == TimersLeft \ fired
  IN
  IF n = 1
    THEN /\ IF box.interval = Null THEN armed' = armed \ fired /\ UNCHANGED box
            ELSE /\ box' = [box EXCEPT !.interval = NewTimer(rest)]
                 /\ armed' = rest \cup {NewTimer(rest)}
         /\ UNCHANGED <<loading, unloaded>>
    ELSE TurnsTo(box.list[i],
               [box EXCEPT !.index = i, !.interval = IF @ = Null THEN Null ELSE Waiting],
               rest)

SlideTimer(i) ==
  /\ i \in armed
  /\ IF box.list = <<>> THEN armed' = armed \ {i} /\ UNCHANGED <<box, loading, unloaded>>
     ELSE NextSlide("next", {i})
  /\ UNCHANGED <<pics, hiding, bops>>

\* nextImage and prevImage: of the slide show, or of the list of the page.
PlaceIn(list, f) == IF \E i \in DOMAIN list : list[i] = f
                      THEN CHOOSE i \in DOMAIN list : list[i] = f ELSE 0
StepImage(step) ==
  LET at == PlaceIn(pics, box.file)
      n == Len(pics)
      i == IF step = "next" THEN (at % n) + 1 ELSE IF at = 1 THEN n ELSE at - 1
  IN
  /\ BoxDoes /\ box.show
  /\ IF box.slides /\ box.list # <<>> THEN NextSlide(step, {})
     ELSE n > 1 /\ at # 0 /\ TurnsTo(pics[i], box, armed)
  /\ UNCHANGED <<pics, hiding>>

\* The button of the slide show, and the one for its speed.
ToggleSlideshow ==
  /\ BoxDoes /\ box.show /\ box.slides
  /\ IF box.interval # Null THEN box' = StoppedSlideshow(box) /\ armed' = TimersLeft
                              ELSE StartSlideshow(box, loading)
  /\ UNCHANGED <<pics, loading, unloaded, hiding>>
ChangeSpeed ==
  /\ BoxDoes /\ box.show /\ box.slides /\ box.interval # Null
  /\ StartSlideshow(box, loading)
  /\ UNCHANGED <<pics, loading, unloaded, hiding>>

\* The controls are hidden three seconds after the mouse moved last.
MouseMoves ==
  /\ BoxDoes /\ box.show /\ ~hiding /\ hiding' = TRUE
  /\ UNCHANGED <<pics, box, armed, loading, unloaded>>
ControlsHide ==
  /\ hiding /\ hiding' = FALSE
  /\ UNCHANGED <<pics, box, armed, loading, unloaded, bops>>

PicsChange ==
  /\ pics' \in Shows \ {pics}
  /\ UNCHANGED <<box, armed, loading, unloaded, hiding, bops>>

-----------------------------------------------------------------------------
BoxNext ==
  \/ \E f \in Images : OpenImageViewer(f)
  \/ \E list \in Shows : StartSelectedSlideshow(list)
  \/ CloseImageViewer \/ ImageLoads \/ ImageBreaks \/ ToggleSlideshow \/ ChangeSpeed
  \/ \E i \in TimerIds : SlideTimer(i)
  \/ \E step \in {"next", "prev"} : StepImage(step)
  \/ MouseMoves \/ ControlsHide \/ PicsChange

BoxTypeOK ==
  /\ pics \in Shows
  /\ {box.src, box.file} \subseteq Images \cup {NoImage}
  /\ box.interval \in TimerIds \cup {Null, Waiting}
  /\ box.list # <<>> => box.index \in DOMAIN box.list
  /\ armed \subseteq TimerIds

\* A slide show has one timer, which the viewer can stop: none runs on when the viewer is
\* closed, the show stopped, or another timer started.
OneTimer == armed \subseteq {box.interval} /\ (armed # {} => box.show /\ box.slides)
=============================================================================
