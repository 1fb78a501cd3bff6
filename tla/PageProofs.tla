------------------------------ MODULE PageProofs ------------------------------
(***************************************************************************)
(* Proofs about Page, for every set of files, users, keys, switches and    *)
(* tokens and any number of actions: each viewer and panel keeps an        *)
(* invariant of its own, and a step of the page is a step of one of them   *)
(* that leaves the others alone.                                           *)
(***************************************************************************)
EXTENDS Page, SequenceTheorems, FiniteSetTheorems, TLAPS

-----------------------------------------------------------------------------
(* The steps of the page *)

LEMMA ViewerSteps ==
  ASSUME [Next]_vars
  PROVE  /\ [PlayerNext]_playerVars /\ [BoxNext]_boxVars /\ [ComicNext]_comicVars
         /\ [EpubNext]_epubVars /\ [PdfNext]_pdfVars
<1>1. CASE UNCHANGED vars
  BY <1>1 DEF vars, viewerVars
<1>2. CASE UsePanel
  BY <1>2 DEF UsePanel, viewerVars
<1>3. CASE UseViewer
  BY <1>3 DEF UseViewer, UsePlayer, UseBox, UseComic, UseEpub, UsePdf
<1> QED
  BY <1>1, <1>2, <1>3 DEF Next

LEMMA PanelSteps ==
  ASSUME [Next]_vars
  PROVE  /\ [DialogsNext]_dialogVars /\ [DownloadsNext]_downloadVars
         /\ [SwitchNext \/ BotNext \/ LogoNext \/ VideoNext]_settingsVars
<1>1. CASE UNCHANGED vars
  BY <1>1 DEF vars, panelVars
<1>2. CASE UseViewer
  BY <1>2 DEF UseViewer, panelVars
<1>3. CASE UsePanel
  BY <1>3 DEF UsePanel, UseDialogs, UseSettings, UsesDownloads
<1> QED
  BY <1>1, <1>2, <1>3 DEF Next

-----------------------------------------------------------------------------
(* The slide show of the lightbox *)

Box == [show: BOOLEAN, src: Images \cup {NoImage}, file: Images \cup {NoImage}, slides: BOOLEAN,
        interval: TimerIds \cup {Null, Waiting}, list: Shows, index: Nat]

\* A timer, or the picture that is waited for, belongs to a slide show of an open viewer.
BoxInv ==
  /\ pics \in Shows /\ box \in Box
  /\ box.list # <<>> => box.index \in 1..Len(box.list)
  /\ armed \subseteq {box.interval} \cap TimerIds
  /\ box.interval # Null => box.show /\ box.slides

LEMMA BoxInvInit == BoxInit => BoxInv
BY LightboxAssumption DEF BoxInit, BoxInv, Box, NoBox, TimerIds, Null

LEMMA NewTimerOK == NewTimer({}) \in TimerIds
<1>1. \E i \in TimerIds : i \notin {}
  BY DEF TimerIds
<1> QED
  BY <1>1 DEF NewTimer

LEMMA BoxListed ==
  ASSUME NEW list \in Shows
  PROVE  Len(list) \in Nat /\ (list # <<>> => Len(list) > 0)
         /\ \A i \in 1..Len(list) : list[i] \in Images
<1>1. list \in Seq(Images)
  BY LightboxAssumption
<1> QED
  BY <1>1

\* A timer started over no other, by a load or a slide of a viewer that shows one.
LEMMA BoxWritten ==
  ASSUME NEW b \in Box, b.list # <<>> => b.index \in 1..Len(b.list),
         b.interval # Null => b.show /\ b.slides,
         box' = b, armed' \subseteq {b.interval} \cap TimerIds, pics \in Shows, pics' = pics
  PROVE  BoxInv'
BY DEF BoxInv

LEMMA StartSlideshowOK ==
  ASSUME BoxInv, NEW b \in Box, b.show, b.list # <<>> => b.index \in 1..Len(b.list),
         NEW wait, StartSlideshow(b, wait), pics' = pics
  PROVE  BoxInv'
<1>1. TimersLeft = {}
  BY DEF TimersLeft, BoxInv
<1>2. \A i \in TimerIds \cup {Waiting} :
        LET c == [b EXCEPT !.slides = TRUE, !.interval = i] IN
        c \in Box /\ c.list = b.list /\ c.index = b.index /\ c.show /\ c.slides /\ c.interval = i
  BY DEF Box
<1>3. \A i \in TimerIds \cup {Waiting} : i # Null
  BY DEF TimerIds, Waiting, Null
<1>4. CASE wait
  BY <1>1, <1>2, <1>4, BoxWritten DEF StartSlideshow, BoxInv
<1>5. CASE ~wait
  <2> DEFINE c == [b EXCEPT !.slides = TRUE, !.interval = NewTimer({})]
  <2>1. c \in Box /\ c.list = b.list /\ c.index = b.index /\ c.show /\ c.slides
        /\ c.interval = NewTimer({})
    BY <1>2, NewTimerOK
  <2>2. box' = c /\ armed' = {NewTimer({})}
    BY <1>1, <1>5 DEF StartSlideshow
  <2> HIDE DEF c
  <2> QED
    BY <2>1, <2>2, NewTimerOK, BoxWritten DEF BoxInv
<1> QED
  BY <1>4, <1>5

LEMMA NextSlideOK ==
  ASSUME BoxInv, box.list # <<>>, NEW step, NEW fired \in SUBSET TimerIds, NextSlide(step, fired),
         pics' = pics
  PROVE  BoxInv'
<1> DEFINE n == Len(box.list)
           i == IF step = "next" THEN (box.index % n) + 1
                ELSE IF box.index = 1 THEN n ELSE box.index - 1
<1>1. box \in Box /\ box.list \in Shows /\ n \in Nat \ {0} /\ box.index \in 1..n /\ TimersLeft = {}
  BY BoxListed DEF BoxInv, Box, TimersLeft
<1>2. i \in 1..n
  <2> HIDE DEF n
  <2>1. n \in Nat /\ n > 0 /\ box.index \in Nat /\ box.index >= 1 /\ box.index <= n
    BY <1>1
  <2>2. box.index % n \in 0..(n - 1)
    BY <2>1
  <2> QED
    BY <2>1, <2>2
<1>3. CASE n = 1
  <2>1. CASE box.interval = Null
    BY <1>1, <1>3, <2>1, BoxWritten DEF NextSlide, BoxInv
  <2>2. CASE box.interval # Null
    <3> DEFINE b == [box EXCEPT !.interval = NewTimer({})]
    <3>1. box' = b /\ armed' = {NewTimer({})}
      BY <1>1, <1>3, <2>2 DEF NextSlide
    <3>2. b \in Box /\ b.list = box.list /\ b.index = box.index /\ b.show /\ b.slides
          /\ b.interval = NewTimer({})
      BY <1>1, <2>2, NewTimerOK DEF Box, BoxInv
    <3> HIDE DEF b
    <3> QED
      BY <1>1, <3>1, <3>2, NewTimerOK, BoxWritten DEF BoxInv
  <2> QED
    BY <2>1, <2>2
<1>4. CASE n # 1
  <2> DEFINE b == [box EXCEPT !.index = i, !.interval = IF @ = Null THEN Null ELSE Waiting]
             c == ShownPic(b, box.list[i])
  <2>1. box' = c /\ armed' = {}
    BY <1>1, <1>4 DEF NextSlide, TurnsTo
  <2>2. box.list[i] \in Images
    BY <1>1, <1>2, BoxListed
  <2> DEFINE w == IF box.interval = Null THEN Null ELSE Waiting
             p == box.list[i]
  <2> HIDE DEF i
  <2>3. c = [box EXCEPT !.index = i, !.interval = w, !.src = p, !.file = p]
    BY <1>1 DEF Box, ShownPic
  <2>4. w \in {Null, Waiting} /\ (w # Null => box.interval # Null) /\ i \in Nat
    BY <1>2
  <2> HIDE DEF c, w, p
  <2>5. p \in Images
    BY <2>2 DEF p
  <2>6. c \in Box /\ c.list = box.list /\ c.index = i /\ c.show = box.show /\ c.slides = box.slides
        /\ c.interval = w
    BY <1>1, <2>3, <2>4, <2>5 DEF Box
  <2> QED
    BY <1>1, <1>2, <2>1, <2>4, <2>6, BoxWritten DEF BoxInv
<1> QED
  BY <1>3, <1>4

LEMMA BoxStep == BoxInv /\ [BoxNext]_boxVars => BoxInv'
<1> SUFFICES ASSUME BoxInv, [BoxNext]_boxVars PROVE BoxInv'
  OBVIOUS
<1>1. box \in Box /\ pics \in Shows /\ TimersLeft = {}
  BY DEF BoxInv, TimersLeft
<1>2. CASE UNCHANGED boxVars
  BY <1>2 DEF boxVars, BoxInv
<1>3. CASE \E f \in Images : OpenImageViewer(f)
  <2>1. PICK f \in Images : OpenImageViewer(f)
    BY <1>3
  <2>2. PICK b : /\ box' = b /\ armed' = armed /\ pics' = pics
                 /\ b \in {[box EXCEPT !.show = TRUE, !.file = f],
                           ShownPic([box EXCEPT !.show = TRUE], f)}
    BY <2>1 DEF OpenImageViewer, TurnsTo
  <2>3. b \in Box /\ b.list = box.list /\ b.index = box.index /\ b.interval = box.interval
        /\ b.slides = box.slides /\ b.show
    BY <1>1, <2>2 DEF Box, ShownPic
  <2> QED
    BY <2>2, <2>3, BoxWritten DEF BoxInv
<1>4. CASE \E list \in Shows : StartSelectedSlideshow(list)
  <2>1. PICK list \in Shows : StartSelectedSlideshow(list)
    BY <1>4
  <2> DEFINE b == [box EXCEPT !.show = TRUE, !.list = list, !.index = 1, !.file = list[1], !.src = list[1]]
  <2>2. list # <<>> /\ pics' = pics /\ \E wait : StartSlideshow(b, wait)
    BY <2>1 DEF StartSelectedSlideshow
  <2>3. list[1] \in Images /\ 1 \in 1..Len(list)
    BY <2>2, BoxListed
  <2>4. b \in Box /\ b.show /\ b.list = list /\ b.index = 1
    BY <1>1, <2>3 DEF Box
  <2> HIDE DEF b
  <2> QED
    BY <2>2, <2>3, <2>4, StartSlideshowOK
<1>5. CASE CloseImageViewer
  <2> DEFINE b == [StoppedSlideshow(box) EXCEPT !.show = FALSE, !.list = <<>>, !.file = NoImage]
  <2>1. box' = b /\ armed' = {} /\ pics' = pics
    BY <1>1, <1>5 DEF CloseImageViewer
  <2>2. b \in Box /\ b.list = <<>> /\ b.interval = Null
    BY <1>1, LightboxAssumption DEF Box, StoppedSlideshow
  <2> HIDE DEF b
  <2> QED
    BY <1>1, <2>1, <2>2, BoxWritten
<1>6. CASE ImageLoads
  <2>1. CASE box.slides /\ box.interval # Null
    <3> DEFINE b == [box EXCEPT !.interval = NewTimer({})]
    <3>1. box' = b /\ armed' = {NewTimer({})} /\ pics' = pics
      BY <1>1, <1>6, <2>1 DEF ImageLoads
    <3>2. b \in Box /\ b.list = box.list /\ b.index = box.index /\ b.show /\ b.slides
          /\ b.interval = NewTimer({})
      BY <1>1, <2>1, NewTimerOK DEF Box, BoxInv
    <3> HIDE DEF b
    <3> QED
      BY <3>1, <3>2, NewTimerOK, BoxWritten DEF BoxInv
  <2>2. CASE ~(box.slides /\ box.interval # Null)
    BY <1>6, <2>2 DEF ImageLoads, BoxInv
  <2> QED
    BY <2>1, <2>2
<1>7. CASE ImageBreaks \/ MouseMoves \/ ControlsHide
  BY <1>7 DEF ImageBreaks, MouseMoves, ControlsHide, BoxInv
<1>8. CASE PicsChange
  BY <1>8 DEF PicsChange, BoxInv
<1>9. CASE ToggleSlideshow \/ ChangeSpeed
  <2>1. CASE box' = StoppedSlideshow(box) /\ armed' = TimersLeft
    <3>1. StoppedSlideshow(box) \in Box /\ StoppedSlideshow(box).list = box.list
          /\ StoppedSlideshow(box).index = box.index /\ StoppedSlideshow(box).interval = Null
      BY <1>1 DEF Box, StoppedSlideshow
    <3>2. pics' = pics
      BY <1>9 DEF ToggleSlideshow, ChangeSpeed
    <3> QED
      BY <1>1, <2>1, <3>1, <3>2, BoxWritten DEF BoxInv
  <2>2. CASE StartSlideshow(box, loading)
    <3>1. pics' = pics /\ box.show
      BY <1>9 DEF ToggleSlideshow, ChangeSpeed
    <3> QED
      BY <2>2, <3>1, StartSlideshowOK DEF BoxInv
  <2> QED
    BY <1>9, <2>1, <2>2 DEF ToggleSlideshow, ChangeSpeed
<1>10. CASE \E i \in TimerIds : SlideTimer(i)
  <2>1. PICK i \in TimerIds : SlideTimer(i)
    BY <1>10
  <2>2. CASE box.list = <<>>
    BY <1>1, <2>1, <2>2 DEF SlideTimer, BoxInv
  <2>3. CASE box.list # <<>>
    <3>1. NextSlide("next", {i}) /\ pics' = pics
      BY <2>1, <2>3 DEF SlideTimer
    <3> QED
      BY <2>3, <3>1, NextSlideOK
  <2> QED
    BY <2>2, <2>3
<1>11. CASE \E step \in {"next", "prev"} : StepImage(step)
  <2>1. PICK step \in {"next", "prev"} : StepImage(step)
    BY <1>11
  <2>2. CASE box.slides /\ box.list # <<>>
    <3>1. NextSlide(step, {}) /\ pics' = pics
      BY <2>1, <2>2 DEF StepImage
    <3> QED
      BY <2>2, <3>1, NextSlideOK
  <2>3. CASE ~(box.slides /\ box.list # <<>>)
    <3> DEFINE at == PlaceIn(pics, box.file)
               n == Len(pics)
               i == IF step = "next" THEN (at % n) + 1 ELSE IF at = 1 THEN n ELSE at - 1
    <3>1. pics' = pics /\ n > 1 /\ at # 0 /\ box' = ShownPic(box, pics[i]) /\ armed' = armed
      BY <2>1, <2>3 DEF StepImage, TurnsTo
    <3>2. at \in 1..n /\ n \in Nat
      <4>1. \E k \in DOMAIN pics : pics[k] = box.file
        BY <3>1 DEF PlaceIn
      <4>2. at \in DOMAIN pics
        BY <4>1 DEF PlaceIn
      <4> QED
        BY <1>1, <4>2, LightboxAssumption
    <3> HIDE DEF at
    <3>3. i \in 1..n
      <4>1. at % n \in 0..(n - 1)
        BY <3>1, <3>2
      <4> HIDE DEF n
      <4> QED
        BY <3>1, <3>2, <4>1
    <3>4. pics[i] \in Images
      BY <1>1, <3>3, BoxListed
    <3> HIDE DEF i
    <3>5. ShownPic(box, pics[i]) \in Box /\ ShownPic(box, pics[i]).list = box.list
          /\ ShownPic(box, pics[i]).index = box.index /\ ShownPic(box, pics[i]).interval = box.interval
          /\ ShownPic(box, pics[i]).show = box.show /\ ShownPic(box, pics[i]).slides = box.slides
      BY <1>1, <3>4 DEF Box, ShownPic
    <3> QED
      BY <1>1, <3>1, <3>5, BoxWritten DEF BoxInv
  <2> QED
    BY <2>2, <2>3
<1> QED
  BY <1>2, <1>3, <1>4, <1>5, <1>6, <1>7, <1>8, <1>9, <1>10, <1>11 DEF BoxNext

-----------------------------------------------------------------------------
(* The player and what the modal says of it *)

Modal == [show: BOOLEAN, file: Tracks \cup {NoTrack}, playing: BOOLEAN, min: BOOLEAN,
          placed: BOOLEAN, bubble: BOOLEAN, list: Lists, index: Nat]
Info == [show: BOOLEAN, file: Tracks \cup {NoTrack}, html: Tracks \cup {NoTrack}, loading: BOOLEAN]

\* A modal names a track, the entry of its playlist it is at.
ModalNames(m) ==
  /\ m \in Modal /\ m.index \in 0..Len(m.list)
  /\ m.placed => m.min
  /\ m.show => m.file \in Tracks /\ (m.index # 0 => m.list[m.index] = m.file)

\* The last player that is being made, or the one that was, is that of the modal.
Plays(m, os, p) ==
  /\ os \in Seq(Tracks) /\ Len(os) <= MaxOpening /\ p \in Tracks \cup {NoTrack}
  /\ m.show => IF os # <<>> THEN os[Len(os)] = m.file ELSE p \in {m.file, NoTrack}

PlayerInv ==
  /\ tracks \in Lists /\ ModalNames(modal) /\ Plays(modal, opening, player)
  /\ info \in Info /\ (info.show => info.file \in Tracks) /\ preview \subseteq Tracks

LEMMA PlayerInvInit == PlayerInit => PlayerInv
BY PlayerAssumption DEF PlayerInit, PlayerInv, ModalNames, Plays, Modal, Info, NoModal, NoInfo

LEMMA Listed ==
  ASSUME NEW list \in Lists
  PROVE  /\ Len(list) \in Nat /\ DOMAIN list = 1..Len(list)
         /\ \A i \in 1..Len(list) : list[i] \in Tracks
<1>1. list \in Seq(Tracks)
  BY PlayerAssumption
<1> QED
  BY <1>1

LEMMA IndexInOK ==
  ASSUME NEW list \in Lists, NEW f
  PROVE  /\ IndexIn(list, f) \in 0..Len(list)
         /\ IndexIn(list, f) # 0 => list[IndexIn(list, f)] = f
<1>1. CASE \E i \in DOMAIN list : list[i] = f
  <2>1. IndexIn(list, f) \in DOMAIN list /\ list[IndexIn(list, f)] = f
    BY <1>1 DEF IndexIn
  <2> QED
    BY <2>1, Listed
<1>2. CASE ~\E i \in DOMAIN list : list[i] = f
  BY <1>2, Listed DEF IndexIn
<1> QED
  BY <1>1, <1>2

\* A track is opened: its modal names it, and its player is the last one to be made.
LEMMA OpensTrackOK ==
  ASSUME PlayerInv, NEW f \in Tracks, NEW m, ModalNames(m), m.show, m.file = f, OpensTrack(f, m)
  PROVE  PlayerInv'
<1>1. /\ tracks' = tracks /\ preview' = preview /\ modal' = m /\ player' = NoTrack
      /\ opening' = Append(opening, f) /\ info' = [info EXCEPT !.show = FALSE]
  BY DEF OpensTrack, InfoClosed
<1>2. /\ opening \in Seq(Tracks) /\ Len(opening) \in Nat /\ Len(opening) < MaxOpening
      /\ MaxOpening \in Nat
  BY PlayerAssumption DEF PlayerInv, Plays, OpensTrack
<1>3. /\ opening' \in Seq(Tracks) /\ Len(opening') = Len(opening) + 1
      /\ opening'[Len(opening')] = f
  BY <1>1, <1>2
<1>4. opening' # <<>>
  BY <1>2, <1>3
<1>5. Plays(m, opening', player')
  BY <1>1, <1>2, <1>3, <1>4 DEF Plays
<1>6. info' \in Info /\ ~info'.show
  BY <1>1 DEF PlayerInv, Info
<1> QED
  BY <1>1, <1>5, <1>6 DEF PlayerInv

\* The modal of a track that was just opened.
LEMMA OpenedModalOK ==
  ASSUME NEW f \in Tracks, tracks \in Lists, NEW m, m = OpenedModal(f)
  PROVE  /\ m \in Modal /\ m.show /\ m.file = f /\ ~m.placed /\ m.list = tracks
         /\ m.index = IndexIn(tracks, f)
<1>1. NoModal \in Modal /\ ~NoModal.placed
  BY PlayerAssumption DEF NoModal, Modal
<1>2. IndexIn(tracks, f) \in Nat
  BY IndexInOK, Listed
<1> QED
  BY <1>1, <1>2 DEF OpenedModal, Modal

LEMMA PlayTrackOK ==
  ASSUME PlayerInv, NEW i, PlayTrack(i)
  PROVE  PlayerInv'
<1> DEFINE f == modal.list[i]
           m == Relisted(f, i)
<1>1. modal \in Modal /\ modal.list \in Lists /\ (modal.placed => modal.min)
  BY DEF PlayerInv, ModalNames, Modal
<1>2. i \in 1..Len(modal.list) /\ f \in Tracks /\ OpensTrack(f, m)
  BY <1>1, Listed DEF PlayTrack
<1>3. i \in Nat
  BY <1>2
<1> HIDE DEF f
<1>4. OpenedModal(f) \in Modal /\ OpenedModal(f).show /\ OpenedModal(f).file = f
  BY <1>2, OpenedModalOK DEF PlayerInv
<1>5. m \in Modal
  BY <1>1, <1>3, <1>4 DEF Modal, Relisted
<1>6. /\ m.list = modal.list /\ m.index = i /\ m.file = f /\ m.show
      /\ m.placed = modal.placed /\ m.min = modal.min
  BY <1>4 DEF Modal, Relisted
<1> HIDE DEF m
<1>7. m.list[i] = f /\ i \in 0..Len(m.list)
  BY <1>2, <1>6, Listed DEF f
<1>8. ModalNames(m)
  BY <1>1, <1>2, <1>5, <1>6, <1>7 DEF ModalNames
<1> QED
  BY <1>2, <1>6, <1>8, OpensTrackOK

\* What the modal names stays.
LEMMA ModalKept ==
  ASSUME PlayerInv, NEW m \in Modal, modal' = m, m.file = modal.file \/ ~m.show, m.list = modal.list,
         m.index = modal.index, m.show => modal.show, m.placed => m.min,
         opening' = opening, player' \in {player, NoTrack}, tracks' = tracks, info' = info, preview' = preview
  PROVE  PlayerInv'
<1>1. ModalNames(m)
  BY DEF PlayerInv, ModalNames
<1>2. Plays(m, opening', player')
  BY DEF PlayerInv, Plays
<1> QED
  BY <1>1, <1>2 DEF PlayerInv

LEMMA PlayerStep == PlayerInv /\ [PlayerNext]_playerVars => PlayerInv'
<1> SUFFICES ASSUME PlayerInv, [PlayerNext]_playerVars PROVE PlayerInv'
  OBVIOUS
<1>1. /\ modal \in Modal /\ modal.list \in Lists /\ (modal.placed => modal.min) /\ tracks \in Lists
      /\ info \in Info /\ opening \in Seq(Tracks) /\ player \in Tracks \cup {NoTrack}
  BY DEF PlayerInv, ModalNames, Modal, Plays
<1>2. CASE UNCHANGED playerVars
  BY <1>2 DEF playerVars, PlayerInv
<1>3. CASE \E f \in Tracks : OpenMediaPlayer(f)
  <2>1. PICK f \in Tracks : OpensTrack(f, OpenedModal(f))
    BY <1>3 DEF OpenMediaPlayer
  <2> DEFINE m == OpenedModal(f)
  <2>2. m \in Modal /\ m.show /\ m.file = f /\ ~m.placed /\ m.list = tracks /\ m.index = IndexIn(tracks, f)
    BY <1>1, OpenedModalOK
  <2>3. /\ IndexIn(tracks, f) \in 0..Len(tracks) /\ Len(tracks) \in Nat
        /\ IndexIn(tracks, f) # 0 => tracks[IndexIn(tracks, f)] = f
    BY <1>1, IndexInOK, Listed
  <2> HIDE DEF m
  <2>4. ModalNames(m)
    BY <2>2, <2>3 DEF ModalNames
  <2> QED
    BY <2>1, <2>2, <2>4, OpensTrackOK DEF m
<1>4. CASE \E f \in Tracks : ShowFileInfo(f)
  <2>1. PICK f \in Tracks : ShowFileInfo(f)
    BY <1>4
  <2>2. info' \in Info /\ info'.file \in Tracks
    BY <2>1 DEF ShowFileInfo, NoInfo, Info
  <2> QED
    BY <2>1, <2>2 DEF ShowFileInfo, PlayerInv
<1>5. CASE \E f \in Tracks : PreviewLoaded(f)
  <2>1. PICK f \in Tracks : PreviewLoaded(f)
    BY <1>5
  <2>2. info' \in Info /\ info'.file = info.file /\ info'.show = info.show
    BY <1>1, <2>1 DEF PreviewLoaded, Info
  <2> QED
    BY <2>1, <2>2 DEF PreviewLoaded, PlayerInv
<1>6. CASE PlayerMade \/ ScriptsMissing
  <2>1. /\ opening # <<>> /\ opening' = Tail(opening) /\ player' \in {Head(opening), player}
        /\ opening'= <<>> => player' \in {Head(opening), NoTrack}
        /\ UNCHANGED <<tracks, modal, info, preview>>
    BY <1>6 DEF PlayerMade, ScriptsMissing
  <2>2. /\ Len(opening) \in Nat \ {0} /\ Head(opening) = opening[1] /\ opening[1] \in Tracks
        /\ opening' \in Seq(Tracks) /\ Len(opening') = Len(opening) - 1
        /\ \A i \in 1..Len(opening') : opening'[i] = opening[i + 1]
    BY <1>1, <2>1
  <2>3. opening' # <<>> => opening'[Len(opening')] = opening[Len(opening)]
    <3>1. opening' # <<>> => Len(opening') \in 1..Len(opening')
      BY <2>2
    <3> QED
      BY <2>2, <3>1
  <2>4. opening' = <<>> => Len(opening) = 1
    BY <2>2
  <2>5. /\ Len(opening) <= MaxOpening /\ MaxOpening \in Nat
        /\ modal.show => opening[Len(opening)] = modal.file
    BY <2>1, PlayerAssumption DEF PlayerInv, Plays
  <2>6. Len(opening') <= MaxOpening
    BY <2>2, <2>5
  <2>7. player' \in Tracks \cup {NoTrack}
    BY <1>1, <2>1, <2>2
  <2>8. Plays(modal, opening', player')
    BY <2>1, <2>2, <2>3, <2>4, <2>5, <2>6, <2>7 DEF Plays
  <2> QED
    BY <2>1, <2>8 DEF PlayerInv
<1>7. CASE CloseMediaPlayer
  <2> DEFINE m == [modal EXCEPT !.show = FALSE, !.playing = FALSE]
  <2>1. /\ m \in Modal /\ m.file = modal.file /\ ~m.show /\ m.list = modal.list /\ m.index = modal.index
        /\ m.placed = modal.placed /\ m.min = modal.min
    BY <1>1 DEF Modal
  <2>2. modal' = m /\ player' = NoTrack /\ UNCHANGED <<tracks, opening, info, preview>>
    BY <1>7 DEF CloseMediaPlayer
  <2> HIDE DEF m
  <2> QED
    BY <1>1, <2>1, <2>2, ModalKept
<1>8. CASE ModalResets
  <2>1. PICK m : /\ m = modal' /\ UNCHANGED <<tracks, opening, player, info, preview>>
                 /\ m = modal \/ (~modal.show /\ m = ResetModal(modal))
    BY <1>8 DEF ModalResets, ResetClosedModal
  <2>2. /\ m \in Modal /\ (m.file = modal.file \/ ~m.show) /\ (m.show = modal.show)
        /\ m.list = modal.list /\ m.index = modal.index /\ (m.placed => m.min)
    BY <1>1, <2>1 DEF Modal, ResetModal
  <2> QED
    BY <2>1, <2>2, ModalKept
<1>9. CASE \E on \in BOOLEAN : PlayState(on)
  <2>1. PICK on \in BOOLEAN : PlayState(on)
    BY <1>9
  <2> DEFINE m == [modal EXCEPT !.playing = on]
  <2>2. /\ m \in Modal /\ m.file = modal.file /\ m.show = modal.show /\ m.list = modal.list
        /\ m.index = modal.index /\ m.placed = modal.placed /\ m.min = modal.min
    BY <1>1 DEF Modal
  <2>3. modal' = m /\ UNCHANGED <<tracks, opening, player, info, preview>>
    BY <2>1 DEF PlayState
  <2> HIDE DEF m
  <2> QED
    BY <1>1, <2>2, <2>3, ModalKept
<1>10. CASE (\E i \in DOMAIN modal.list : PlayListed(i)) \/ PlayNextTrack \/ PlayPrevTrack \/ TrackEnds
  <2>1. \E i : PlayTrack(i)
    BY <1>10 DEF PlayListed, PlayNextTrack, PlayPrevTrack, TrackEnds
  <2> QED
    BY <2>1, PlayTrackOK
<1>11. CASE ListChanges
  BY <1>11 DEF ListChanges, PlayerInv
<1>12. CASE ToggleMinimized \/ ToggleBubble \/ StartDrag
  <2>1. PICK m : /\ modal' = m /\ UNCHANGED <<tracks, opening, player, info, preview>>
                 /\ \/ m = [modal EXCEPT !.min = ~@, !.placed = @ /\ ~modal.min]
                    \/ m = [modal EXCEPT !.bubble = ~@]
                    \/ modal.min /\ m = [modal EXCEPT !.placed = TRUE]
    BY <1>12 DEF ToggleMinimized, ToggleBubble, StartDrag
  <2>2. /\ m \in Modal /\ m.file = modal.file /\ m.show = modal.show /\ m.list = modal.list
        /\ m.index = modal.index
    BY <1>1, <2>1 DEF Modal
  <2>3. m.placed => m.min
    BY <1>1, <2>1 DEF Modal
  <2> QED
    BY <2>1, <2>2, <2>3, ModalKept
<1>13. CASE LoadFilePreview
  <2>1. info' \in Info /\ info'.file = info.file /\ info.show
    BY <1>1, <1>13 DEF LoadFilePreview, Info
  <2> QED
    BY <1>13, <2>1 DEF LoadFilePreview, PlayerInv
<1>14. CASE CloseFileInfo \/ InfoResets
  <2>1. info' \in Info /\ (info'.show => info.show /\ info'.file = info.file)
    BY <1>1, <1>14 DEF CloseFileInfo, InfoResets, InfoClosed, Info
  <2>2. player' \in {player, NoTrack} /\ UNCHANGED <<tracks, modal, opening, preview>>
    BY <1>14 DEF CloseFileInfo, InfoResets
  <2>3. Plays(modal, opening, player')
    BY <1>1, <2>2 DEF Plays, PlayerInv
  <2> QED
    BY <2>1, <2>2, <2>3 DEF PlayerInv
<1> QED
  BY <1>2, <1>3, <1>4, <1>5, <1>6, <1>7, <1>8, <1>9, <1>10, <1>11, <1>12, <1>13, <1>14 DEF PlayerNext

LEMMA PlayerInvSays == PlayerInv => PlayerTypeOK /\ PlaysWhatItShows
BY PlayerAssumption DEF PlayerInv, PlayerTypeOK, PlaysWhatItShows, ModalNames, Plays, Modal

-----------------------------------------------------------------------------
(* The comic reader and the pages it draws *)

ComicView == [show: BOOLEAN, file: Comics \cup {NoComic}, pages: Nat, at: Nat, loading: BOOLEAN,
              mode: {"single", "double"}, scroll: {"page", "continuous"}, auto: BOOLEAN]

\* The reader is at a page of the list it has, which is that of the comic it shows.
ComicAt(v) ==
  /\ v \in ComicView
  /\ v.show => v.file \in Comics /\ v.pages = IF v.loading THEN 0 ELSE ComicPages[v.file]
  /\ v.pages > 0 => v.at < v.pages

ComicInv ==
  /\ ComicAt(cv)
  /\ clists \in [Comics -> Nat] /\ cclosing \in [Comics -> Nat] /\ cprogress \in [Comics -> Nat]

LEMMA ComicInvInit == ComicInit => ComicInv
BY ComicAssumption DEF ComicInit, ComicInv, ComicAt, ComicView

LEMMA EvenPageOK ==
  ASSUME NEW i \in Nat
  PROVE  EvenPage(i) \in Nat /\ i \in {EvenPage(i), EvenPage(i) + 1}
<1>1. i % 2 \in 0..1
  OBVIOUS
<1> QED
  BY <1>1 DEF EvenPage

\* Turning a page of the reader ends at a page of the comic.
LEMMA ComicTargetOK ==
  ASSUME ComicAt(cv), cv.pages > 0, NEW step \in {"next", "prev"}
  PROVE  ComicTarget(step) \in Nat /\ ComicTarget(step) < cv.pages
<1> DEFINE n == cv.pages
           by == IF cv.mode = "double" THEN 2 ELSE 1
           from == IF cv.mode = "double" THEN EvenPage(cv.at) ELSE cv.at
<1>1. n \in Nat /\ n > 0 /\ cv.at \in Nat /\ cv.at < n
  BY DEF ComicAt, ComicView
<1>2. from \in Nat /\ from <= cv.at /\ by \in {1, 2}
  BY <1>1, EvenPageOK
<1>3. n - 1 \in Nat /\ EvenPage(n - 1) \in Nat /\ EvenPage(n - 1) <= n - 1
  <2>1. n - 1 \in Nat
    BY <1>1
  <2> QED
    BY <2>1, EvenPageOK
<1>4. ComicTarget(step) =
        IF step = "next" THEN IF from + by < n THEN from + by
                              ELSE IF by = 2 THEN EvenPage(n - 1) ELSE n - 1
        ELSE IF from < by THEN 0 ELSE from - by
  BY DEF ComicTarget
<1> HIDE DEF n, by, from
<1>5. ComicTarget(step) \in Nat /\ ComicTarget(step) < n
  BY <1>1, <1>2, <1>3, <1>4
<1> QED
  BY <1>5 DEF n

LEMMA ComicStep == ComicInv /\ [ComicNext]_comicVars => ComicInv'
<1> SUFFICES ASSUME ComicInv, [ComicNext]_comicVars PROVE ComicInv'
  OBVIOUS
<1>1. /\ cv \in ComicView /\ ComicAt(cv) /\ clists \in [Comics -> Nat] /\ cclosing \in [Comics -> Nat]
      /\ cprogress \in [Comics -> Nat] /\ ComicPages \in [Comics -> Nat]
  BY ComicAssumption DEF ComicInv, ComicAt
<1>2. CASE UNCHANGED comicVars
  BY <1>2 DEF comicVars, ComicInv
<1>3. CASE \E c \in Comics : OpenComicViewer(c)
  <2>1. PICK c \in Comics : OpenComicViewer(c)
    BY <1>3
  <2>2. /\ cv' = [cv EXCEPT !.show = TRUE, !.file = c, !.pages = 0, !.at = cprogress[c],
                            !.scroll = "page", !.loading = TRUE]
        /\ clists' = [clists EXCEPT ![c] = @ + 1] /\ UNCHANGED <<cclosing, cprogress>>
    BY <2>1 DEF OpenComicViewer
  <2>3. cv' \in ComicView /\ cv'.pages = 0 /\ cv'.file = c /\ cv'.loading
    BY <1>1, <2>2 DEF ComicView
  <2>4. clists' \in [Comics -> Nat]
    BY <1>1, <2>2
  <2> QED
    BY <1>1, <2>2, <2>3, <2>4 DEF ComicInv, ComicAt
<1>4. CASE \E c \in Comics : ComicListed(c)
  <2>1. PICK c \in Comics : ComicListed(c)
    BY <1>4
  <2>2. clists' = [clists EXCEPT ![c] = @ - 1] /\ clists[c] > 0 /\ UNCHANGED <<cclosing, cprogress>>
    BY <2>1 DEF ComicListed
  <2>3. clists' \in [Comics -> Nat]
    BY <1>1, <2>2
  <2>4. CASE Awaited(c)
    <3> DEFINE at == IF cv.at >= ComicPages[c] /\ ComicPages[c] > 0 THEN 0 ELSE cv.at
    <3>1. cv' = [cv EXCEPT !.pages = ComicPages[c], !.loading = FALSE, !.at = at]
      BY <1>1, <2>1, <2>4 DEF ComicListed, ComicView
    <3>2. ComicPages[c] \in Nat /\ at \in Nat /\ (ComicPages[c] > 0 => at < ComicPages[c])
      BY <1>1 DEF ComicView
    <3> HIDE DEF at
    <3>3. /\ cv' \in ComicView /\ cv'.pages = ComicPages[c] /\ cv'.at = at /\ cv'.file = cv.file
          /\ ~cv'.loading
      BY <1>1, <3>1, <3>2 DEF ComicView
    <3> QED
      BY <1>1, <2>2, <2>3, <2>4, <3>2, <3>3 DEF ComicInv, ComicAt, Awaited
  <2>5. CASE ~Awaited(c)
    BY <1>1, <2>1, <2>2, <2>3, <2>5 DEF ComicListed, ComicInv
  <2> QED
    BY <2>4, <2>5
<1>5. CASE \E c \in Comics : ComicListFails(c)
  <2>1. PICK c \in Comics : ComicListFails(c)
    BY <1>5
  <2>2. /\ clists' = [clists EXCEPT ![c] = @ - 1] /\ clists[c] > 0 /\ UNCHANGED <<cclosing, cprogress>>
        /\ cv' = [cv EXCEPT !.show = FALSE, !.loading = FALSE]
    BY <2>1 DEF ComicListFails
  <2>3. clists' \in [Comics -> Nat]
    BY <1>1, <2>2
  <2>4. cv' \in ComicView /\ ~cv'.show /\ cv'.pages = cv.pages /\ cv'.at = cv.at
    BY <1>1, <2>2 DEF ComicView
  <2> QED
    BY <1>1, <2>2, <2>3, <2>4 DEF ComicInv, ComicAt
<1>6. CASE \E c \in Comics : ComicReset(c)
  <2>1. PICK c \in Comics : ComicReset(c)
    BY <1>6
  <2>2. /\ cclosing' = [cclosing EXCEPT ![c] = @ - 1] /\ cclosing[c] > 0 /\ UNCHANGED <<clists, cprogress>>
        /\ cv' \in {cv, [cv EXCEPT !.file = NoComic, !.pages = 0]} /\ (cv' # cv => ~cv.show)
    BY <2>1 DEF ComicReset, StillClosed
  <2>3. cclosing' \in [Comics -> Nat]
    BY <1>1, <2>2
  <2>4. CASE cv' = [cv EXCEPT !.file = NoComic, !.pages = 0]
    <3>1. cv' \in ComicView /\ cv'.show = cv.show /\ cv'.pages = 0 /\ cv'.file = NoComic
      BY <1>1, <2>4 DEF ComicView
    <3> QED
      BY <1>1, <2>2, <2>3, <3>1 DEF ComicInv, ComicAt
  <2> QED
    BY <1>1, <2>2, <2>3, <2>4 DEF ComicInv
<1>7. ASSUME NEW at \in Nat, at < cv.pages, cv' = [cv EXCEPT !.at = at], SaveComicProgress(at),
             UNCHANGED <<clists, cclosing>>
      PROVE  ComicInv'
  <2>1. /\ cv' \in ComicView /\ cv'.at = at /\ cv'.pages = cv.pages /\ cv'.show = cv.show
        /\ cv'.file = cv.file /\ cv'.loading = cv.loading
    BY <1>1, <1>7 DEF ComicView
  <2>2. cprogress' \in [Comics -> Nat]
    BY <1>1, <1>7 DEF SaveComicProgress, ComicView
  <2> QED
    BY <1>1, <1>7, <2>1, <2>2 DEF ComicInv, ComicAt
<1>8. CASE \E step \in {"next", "prev"} : ChangeComicPage(step)
  <2>1. PICK step \in {"next", "prev"} : ChangeComicPage(step)
    BY <1>8
  <2>2. ComicTarget(step) \in Nat /\ ComicTarget(step) < cv.pages
    BY <1>1, <2>1, ComicTargetOK DEF ChangeComicPage
  <2> QED
    BY <1>7, <2>1, <2>2 DEF ChangeComicPage
<1>9. CASE \E i \in 0..4 : ScrollComic(i)
  BY <1>7, <1>9 DEF ScrollComic
<1>10. CASE \E m \in {"single", "double"} : SetComicViewMode(m)
  <2>1. PICK m \in {"single", "double"} : SetComicViewMode(m)
    BY <1>10
  <2> DEFINE at == IF m = "double" THEN EvenPage(cv.at) ELSE cv.at
  <2>2. cv' = [cv EXCEPT !.mode = m, !.at = at] /\ UNCHANGED <<clists, cclosing, cprogress>>
    BY <1>1, <2>1 DEF SetComicViewMode, ComicView
  <2>3. at \in Nat /\ at <= cv.at /\ cv.at \in Nat /\ cv.pages \in Nat
    BY <1>1, EvenPageOK DEF ComicView
  <2> HIDE DEF at
  <2>4. /\ cv' \in ComicView /\ cv'.at = at /\ cv'.pages = cv.pages /\ cv'.show = cv.show
        /\ cv'.file = cv.file /\ cv'.loading = cv.loading
    BY <1>1, <2>2, <2>3 DEF ComicView
  <2> QED
    BY <1>1, <2>2, <2>3, <2>4 DEF ComicInv, ComicAt
<1>11. CASE ToggleComicScrollMode \/ ToggleComicAuto \/ ComicFrame \/ CloseComicViewer
  <2>1. /\ cv' \in ComicView /\ cv'.at = cv.at /\ cv'.pages = cv.pages /\ cv'.file = cv.file
        /\ cv'.loading = cv.loading /\ (cv'.show => cv.show)
    BY <1>1, <1>11 DEF ToggleComicScrollMode, ToggleComicAuto, ComicFrame, CloseComicViewer, ComicView
  <2>2. UNCHANGED <<clists, cprogress>>
    BY <1>11 DEF ToggleComicScrollMode, ToggleComicAuto, ComicFrame, CloseComicViewer
  <2>3. cclosing' \in [Comics -> Nat]
    <3>1. CASE CloseComicViewer
      BY <1>1, <3>1 DEF CloseComicViewer, ComicAt
    <3> QED
      BY <1>1, <1>11, <3>1 DEF ToggleComicScrollMode, ToggleComicAuto, ComicFrame
  <2> QED
    BY <1>1, <2>1, <2>2, <2>3 DEF ComicInv, ComicAt
<1> QED
  BY <1>2, <1>3, <1>4, <1>5, <1>6, <1>8, <1>9, <1>10, <1>11 DEF ComicNext

LEMMA ComicInvSays == ComicInv => ComicTypeOK /\ ComicOwnPages
<1> SUFFICES ASSUME ComicInv PROVE ComicTypeOK /\ ComicOwnPages
  OBVIOUS
<1>1. cv.pages \in Nat /\ cv.at \in Nat /\ (cv.pages > 0 => cv.at < cv.pages)
  BY DEF ComicInv, ComicAt, ComicView
<1>2. PagesToRender # {} => PagesToRender \subseteq 0..(cv.pages - 1) /\ cv.at \in PagesToRender
  <2>1. EvenPage(cv.at) \in Nat /\ cv.at \in {EvenPage(cv.at), EvenPage(cv.at) + 1}
    BY <1>1, EvenPageOK
  <2> QED
    BY <1>1, <2>1 DEF PagesToRender
<1> QED
  BY <1>2, ComicAssumption DEF ComicInv, ComicAt, ComicView, ComicTypeOK, ComicOwnPages

-----------------------------------------------------------------------------
(* The book reader and the place it keeps *)

EpubView == [show: BOOLEAN, file: Books \cup {NoBook}, spine: Nat, at: Nat, loading: BOOLEAN,
             auto: BOOLEAN, hasty: BOOLEAN]
Chapter == [book: Books \cup {NoBook}, chapter: Nat]
Iframe == [there: BOOLEAN, doc: Chapter, loads: Chapter, restore: BOOLEAN]
Places == [Books -> [chapter: Nat, scroll: [set: BOOLEAN, chapter: Nat]]]

\* The reader has no table of contents, or that of the book it shows.
OwnSpine(v) == v.spine = 0 \/ (v.file \in Books /\ v.spine = Spine[v.file])
\* The iframe shows and loads nothing else than chapters of the book b.
OwnChapter(c, b) == c = Blank \/ (c.book = b /\ c.chapter < Spine[b])
OwnFrame(f, b) == f.there /\ OwnChapter(f.doc, b) /\ OwnChapter(f.loads, b)
\* A reader has been opened while a reset was due, or none is due while it shows.
EpubHasty == ev.show /\ ~ev.hasty => eclosing = 0 /\ ev.file # NoBook

EpubInv ==
  /\ ev \in EpubView /\ OwnSpine(ev) /\ EpubHasty
  /\ ev.show /\ ev.file # NoBook => OwnFrame(iframe, ev.file)
  /\ metas \in [Books -> Nat] /\ iframe \in Iframe /\ eclosing \in Nat /\ places \in Places
  /\ eops \in Nat

LEMMA EpubInvInit == EpubInit => EpubInv
BY EpubAssumption DEF EpubInit, EpubInv, EpubView, Iframe, Chapter, Places, OwnSpine, EpubHasty,
                       NoFrame, Blank, NoScroll

\* Two memories of places that agree on the chapters.
SameChapters(p, q) == \A b \in Books : p[b].chapter = q[b].chapter
\* What EpubKeepsBook says of places.
PlacesAreChapters(p, q) == \A b \in Books : q[b].chapter # p[b].chapter => q[b].chapter < Spine[b]

\* A position that is kept leaves the chapters alone.
LEMMA ScrollWritten ==
  ASSUME NEW p \in Places, NEW b, NEW s \in [set: BOOLEAN, chapter: Nat],
         NEW q, q = [p EXCEPT ![b].scroll = s]
  PROVE  q \in Places /\ SameChapters(p, q) /\ PlacesAreChapters(p, q)
<1>1. q \in Places
  BY DEF Places
<1>2. SameChapters(p, q)
  BY DEF Places, SameChapters
<1> QED
  BY <1>1, <1>2 DEF SameChapters, PlacesAreChapters

\* The reader has the book it was opened for.
SameBook == ev'.file = ev.file /\ ev'.hasty = ev.hasty

LEMMA LoadChapterOK ==
  ASSUME EpubInv, NEW at \in Nat, NEW spine, spine = 0 \/ (ev.file \in Books /\ spine = Spine[ev.file]),
         NEW restore \in BOOLEAN, NEW memory \in Places, SameChapters(places, memory),
         LoadChapter(at, spine, restore, memory), metas' \in [Books -> Nat], eclosing' = eclosing,
         eops' \in Nat
  PROVE  EpubInv' /\ ev'.show = ev.show /\ PlacesAreChapters(places, places')
<1>1. ev \in EpubView /\ iframe \in Iframe /\ places \in Places /\ Spine \in [Books -> Nat]
  BY EpubAssumption DEF EpubInv
<1>2. spine \in Nat
  BY <1>1
<1>3. ev' \in EpubView /\ SameBook /\ ev'.show = ev.show /\ ev'.spine = spine
  BY <1>1, <1>2 DEF LoadChapter, EpubView, SameBook
<1>4. iframe' \in Iframe
  <2>1. ChapterOf(ev.file, at) \in Chapter
    BY <1>1 DEF ChapterOf, Chapter, EpubView
  <2> QED
    BY <1>1, <2>1 DEF LoadChapter, Iframe
<1>5. places' \in Places /\ PlacesAreChapters(places, places')
  <2>1. CASE places' = memory
    BY <2>1 DEF SameChapters, PlacesAreChapters
  <2>2. CASE places' = [memory EXCEPT ![ev.file].chapter = at] /\ at < spine
    <3>1. spine # 0
      BY <1>2, <2>2
    <3>2. ev.file \in Books /\ at < Spine[ev.file]
      BY <2>2, <3>1
    <3>3. places' \in Places
      BY <2>2 DEF Places
    <3>4. \A b \in Books : places'[b].chapter = IF b = ev.file THEN at ELSE memory[b].chapter
      BY <2>2, <3>2 DEF Places
    <3> QED
      BY <3>2, <3>3, <3>4 DEF SameChapters, PlacesAreChapters
  <2>3. at < spine \/ at >= spine
    BY <1>2
  <2> QED
    BY <2>1, <2>2, <2>3 DEF LoadChapter
<1>6. ev'.show /\ ev'.file # NoBook => OwnFrame(iframe', ev'.file)
  <2> SUFFICES ASSUME ev.show, ev.file # NoBook, ev'.file = ev.file PROVE OwnFrame(iframe', ev.file)
    BY <1>3 DEF SameBook
  <2>1. OwnFrame(iframe, ev.file)
    BY DEF EpubInv
  <2>2. CASE at >= spine
    BY <2>1, <2>2 DEF LoadChapter
  <2>3. CASE ~(at >= spine)
    <3>1. iframe' = [iframe EXCEPT !.loads = ChapterOf(ev.file, at), !.restore = restore]
      BY <2>1, <2>3 DEF LoadChapter, OwnFrame
    <3>2. ev.file \in Books /\ at < Spine[ev.file]
      BY <1>1, <1>2, <2>3
    <3> QED
      BY <1>1, <2>1, <3>1, <3>2 DEF OwnFrame, OwnChapter, ChapterOf, Iframe
  <2> QED
    BY <2>2, <2>3
<1> QED
  BY <1>3, <1>4, <1>5, <1>6 DEF EpubInv, OwnSpine, EpubHasty, SameBook

\* What the proof of EpubKeepsBook needs of a step.
EpubKept ==
  /\ ev.show /\ ~ev'.show => eops' # eops \/ metas'[ev.file] < metas[ev.file]
  /\ PlacesAreChapters(places, places')

LEMMA EpubStep ==
  ASSUME EpubInv, [EpubNext]_epubVars
  PROVE  EpubInv' /\ (EpubNext => EpubKept)
<1>1. /\ ev \in EpubView /\ OwnSpine(ev) /\ iframe \in Iframe /\ places \in Places
      /\ metas \in [Books -> Nat] /\ eclosing \in Nat /\ Spine \in [Books -> Nat] /\ eops \in Nat
  BY EpubAssumption DEF EpubInv
<1>2. SameChapters(places, places) /\ PlacesAreChapters(places, places) /\ eops' \in Nat
  <2>1. EpubDoes \/ eops' = eops
    BY DEF EpubNext, epubVars, OpenEpubViewer, MetaLoaded, MetaFails, FrameLoads, NextEpubChapter,
           PrevEpubChapter, NavigateToCfi, GoToChapter, ScrollEpub, CloseEpubViewer, EpubReset,
           ToggleEpubAuto, EpubFrame
  <2> QED
    BY <1>1, <2>1 DEF SameChapters, PlacesAreChapters, EpubDoes
<1>3. CASE UNCHANGED epubVars
  BY <1>2, <1>3 DEF epubVars, EpubInv, EpubHasty, EpubKept
<1>4. CASE \E b \in Books : OpenEpubViewer(b)
  <2>1. PICK b \in Books : OpenEpubViewer(b)
    BY <1>4
  <2> DEFINE due == eclosing > 0
  <2>0. due \in BOOLEAN /\ (~due => eclosing = 0)
    BY <1>1
  <2>2. /\ ev' = [ev EXCEPT !.show = TRUE, !.file = b, !.loading = TRUE, !.spine = 0, !.at = 0,
                            !.hasty = due]
        /\ iframe' = NewFrame /\ metas' = [metas EXCEPT ![b] = @ + 1] /\ UNCHANGED <<eclosing, places>>
    BY <2>1 DEF OpenEpubViewer
  <2> HIDE DEF due
  <2>3. ev' \in EpubView /\ OwnSpine(ev') /\ ev'.show /\ ev'.file = b /\ ev'.hasty = due
    BY <1>1, <2>0, <2>2 DEF EpubView, OwnSpine
  <2>4. iframe' \in Iframe /\ OwnFrame(iframe', b)
    BY <2>2 DEF NewFrame, NoFrame, Iframe, Chapter, Blank, OwnFrame, OwnChapter
  <2>5. EpubHasty'
    BY <2>0, <2>2, <2>3, EpubAssumption DEF EpubHasty
  <2>6. metas' \in [Books -> Nat]
    BY <1>1, <2>2
  <2> QED
    BY <1>1, <1>2, <2>2, <2>3, <2>4, <2>5, <2>6 DEF EpubInv, EpubKept
<1>5. CASE \E b \in Books : MetaLoaded(b)
  <2>1. PICK b \in Books : MetaLoaded(b)
    BY <1>5
  <2>2. metas' = [metas EXCEPT ![b] = @ - 1] /\ metas[b] > 0 /\ eclosing' = eclosing
    BY <2>1 DEF MetaLoaded
  <2>3. metas' \in [Books -> Nat]
    BY <1>1, <2>2
  <2>4. CASE AwaitedBook(b)
    <3> DEFINE at == IF Spine[b] = 0 THEN 0 ELSE Earlier(places[b].chapter, Spine[b] - 1)
    <3>1. places[b].chapter \in Nat /\ Spine[b] \in Nat
      BY <1>1 DEF Places
    <3>2. at \in Nat
      BY <3>1 DEF Earlier
    <3>3. LoadChapter(at, Spine[b], TRUE, places) /\ ev.file = b
      BY <2>1, <2>4 DEF MetaLoaded, AwaitedBook
    <3> QED
      BY <1>1, <1>2, <2>2, <2>3, <3>2, <3>3, LoadChapterOK DEF EpubKept
  <2>5. CASE ~AwaitedBook(b)
    BY <1>1, <1>2, <2>1, <2>2, <2>3, <2>5 DEF MetaLoaded, EpubInv, EpubHasty, EpubKept
  <2> QED
    BY <2>4, <2>5
<1>6. CASE \E b \in Books : MetaFails(b)
  <2>1. PICK b \in Books : MetaFails(b)
    BY <1>6
  <2>2. /\ metas' = [metas EXCEPT ![b] = @ - 1] /\ metas[b] > 0 /\ UNCHANGED <<iframe, eclosing, places>>
        /\ ev' = IF ev.file = b THEN [ev EXCEPT !.show = FALSE, !.loading = FALSE] ELSE ev
    BY <2>1 DEF MetaFails, OwnFailure
  <2>3. metas' \in [Books -> Nat] /\ metas'[b] < metas[b]
    BY <1>1, <2>2
  <2>4. /\ ev' \in EpubView /\ SameBook /\ ev'.spine = ev.spine /\ (ev'.show => ev.show)
        /\ ev'.show # ev.show => ev.file = b
    BY <1>1, <2>2 DEF EpubView, SameBook
  <2> QED
    BY <1>1, <1>2, <2>2, <2>3, <2>4 DEF EpubInv, EpubHasty, EpubKept, OwnSpine, SameBook
<1>7. CASE FrameLoads
  <2>1. /\ iframe' = [iframe EXCEPT !.doc = iframe.loads, !.loads = Blank] /\ UNCHANGED <<metas, eclosing>>
        /\ ev' \in {ev, [ev EXCEPT !.loading = FALSE]}
        /\ places' \in {places, [places EXCEPT ![ev.file].scroll = NoScroll]}
    BY <1>7 DEF FrameLoads
  <2>2. iframe' \in Iframe /\ \A b : OwnFrame(iframe, b) => OwnFrame(iframe', b)
    BY <1>1, <2>1 DEF Iframe, Chapter, Blank, OwnFrame, OwnChapter
  <2>3. ev' \in EpubView /\ SameBook /\ ev'.spine = ev.spine /\ ev'.show = ev.show
    BY <1>1, <2>1 DEF EpubView, SameBook
  <2>4. NoScroll \in [set: BOOLEAN, chapter: Nat]
    BY DEF NoScroll
  <2>5. places' \in Places /\ PlacesAreChapters(places, places')
    BY <1>1, <1>2, <2>1, <2>4, ScrollWritten
  <2> QED
    BY <1>1, <1>2, <2>1, <2>2, <2>3, <2>5 DEF EpubInv, EpubHasty, EpubKept, OwnSpine, SameBook
<1>8. CASE NextEpubChapter \/ PrevEpubChapter \/ \E i \in 0..3 : NavigateToCfi(i)
  <2>1. PICK at \in Nat : GoToChapter(at)
    <3>1. ev.at \in Nat /\ ev.at + 1 \in Nat /\ (ev.at > 0 => ev.at - 1 \in Nat)
      BY <1>1 DEF EpubView
    <3>2. \A i \in 0..3 : i \in Nat
      OBVIOUS
    <3> QED
      BY <1>8, <3>1, <3>2 DEF NextEpubChapter, PrevEpubChapter, NavigateToCfi
  <2>2. LoadChapter(at, ev.spine, FALSE, ScrollForgotten) /\ UNCHANGED <<metas, eclosing>>
    BY <2>1 DEF GoToChapter
  <2>3. NoScroll \in [set: BOOLEAN, chapter: Nat]
    BY DEF NoScroll
  <2>4. ScrollForgotten \in Places /\ SameChapters(places, ScrollForgotten)
    BY <1>1, <1>2, <2>3, ScrollWritten DEF ScrollForgotten
  <2>5. ev.spine = 0 \/ (ev.file \in Books /\ ev.spine = Spine[ev.file])
    BY <1>1 DEF OwnSpine
  <2>6. EpubInv' /\ ev'.show = ev.show /\ PlacesAreChapters(places, places')
    BY <1>1, <1>2, <2>2, <2>4, <2>5, LoadChapterOK
  <2> QED
    BY <2>6 DEF EpubKept
<1>9. CASE ScrollEpub \/ CloseEpubViewer
  <2> DEFINE kept == [set |-> TRUE, chapter |-> iframe.doc.chapter]
  <2>1. kept \in [set: BOOLEAN, chapter: Nat]
    BY <1>1 DEF Iframe, Chapter
  <2>2. places' \in {places, [places EXCEPT ![ev.file].scroll = kept]}
    BY <1>9 DEF ScrollEpub, CloseEpubViewer, ScrollKept
  <2> HIDE DEF kept
  <2>3. places' \in Places /\ PlacesAreChapters(places, places')
    BY <1>1, <1>2, <2>1, <2>2, ScrollWritten
  <2>4. CASE ScrollEpub
    BY <1>1, <1>2, <2>3, <2>4 DEF ScrollEpub, EpubInv, EpubHasty, EpubKept
  <2>5. CASE CloseEpubViewer
    <3>1. /\ ev' = [ev EXCEPT !.show = FALSE, !.auto = FALSE] /\ eclosing' = eclosing + 1
          /\ UNCHANGED <<metas, iframe>> /\ EpubDoes
      BY <2>5 DEF CloseEpubViewer
    <3>2. ev' \in EpubView /\ ev'.file = ev.file /\ ev'.spine = ev.spine /\ ~ev'.show
      BY <1>1, <3>1 DEF EpubView
    <3>3. eclosing' \in Nat
      BY <1>1, <3>1
    <3>4. eops' # eops
      BY <1>1, <3>1 DEF EpubDoes
    <3> QED
      BY <1>1, <1>2, <2>3, <3>1, <3>2, <3>3, <3>4 DEF EpubInv, EpubHasty, EpubKept, OwnSpine
  <2> QED
    BY <1>9, <2>4, <2>5
<1>10. CASE EpubReset
  <2>1. /\ ev' = [ev EXCEPT !.file = NoBook, !.spine = 0] /\ eclosing' = eclosing - 1 /\ eclosing > 0
        /\ iframe' = NoFrame /\ UNCHANGED <<metas, places>>
    BY <1>10 DEF EpubReset
  <2>2. ev' \in EpubView /\ ev'.spine = 0 /\ ev'.show = ev.show /\ ev'.file = NoBook /\ ev'.hasty = ev.hasty
    BY <1>1, <2>1 DEF EpubView
  <2>4. EpubHasty'
    BY <2>1, <2>2 DEF EpubInv, EpubHasty
  <2>3. iframe' \in Iframe /\ eclosing' \in Nat
    BY <1>1, <2>1 DEF NoFrame, Iframe, Chapter, Blank
  <2> QED
    BY <1>1, <1>2, <2>1, <2>2, <2>3, <2>4 DEF EpubInv, EpubKept, OwnSpine
<1>11. CASE ToggleEpubAuto \/ EpubFrame
  <2>1. ev' \in EpubView /\ SameBook /\ ev'.spine = ev.spine /\ ev'.show = ev.show
    BY <1>1, <1>11 DEF ToggleEpubAuto, EpubFrame, EpubView, SameBook
  <2>2. UNCHANGED <<metas, iframe, eclosing, places>>
    BY <1>11 DEF ToggleEpubAuto, EpubFrame
  <2> QED
    BY <1>1, <1>2, <2>1, <2>2 DEF EpubInv, EpubHasty, EpubKept, OwnSpine, SameBook
<1> QED
  BY <1>3, <1>4, <1>5, <1>6, <1>7, <1>8, <1>9, <1>10, <1>11 DEF EpubNext

LEMMA EpubInvSays == EpubInv => EpubTypeOK /\ EpubOwnPages
<1> SUFFICES ASSUME EpubInv PROVE EpubTypeOK /\ EpubOwnPages
  OBVIOUS
<1>1. EpubTypeOK
  BY DEF EpubInv, EpubTypeOK, EpubView, Places
<1>2. ASSUME ev.show, ~EpubBlanked PROVE ev.file # NoBook
  BY <1>2 DEF EpubInv, EpubHasty, EpubBlanked
<1> QED
  BY <1>1, <1>2 DEF EpubInv, EpubOwnPages, OwnSpine, OwnFrame, OwnChapter

-----------------------------------------------------------------------------
(* The PDF reader and its document *)

Scrolls == {"page", "continuous"}
PdfView == [show: BOOLEAN, file: Pdfs \cup {NoPdf}, pages: Nat, at: Nat, loading: BOOLEAN,
            drawn: BOOLEAN, scroll: Scrolls, zoom: Zooms, auto: BOOLEAN, hasty: BOOLEAN]
Opening == [id: Nat, file: Pdfs, pc: {"library", "load", "fails", "outline"}]
Kept == [Pdfs -> [page: Nat, scroll: Scrolls]]

\* A reader has been opened while a reset was due, or none is due while it shows.
PdfHasty == pv.show /\ ~pv.hasty => pclosing = 0

PdfInv ==
  /\ pv \in PdfView /\ doc \in Pdfs \cup {NoPdf} /\ opens \subseteq Opening
  /\ pclosing \in Nat /\ pdfops \in Nat /\ pkept \in Kept
  /\ task \in 0..pdfops /\ \A o \in opens : o.id <= pdfops
  /\ PdfHasty /\ PdfOwnPages

LEMMA PdfInvInit == PdfInit => PdfInv
BY PdfAssumption DEF PdfInit, PdfInv, PdfView, Kept, Scrolls, Zooms, FitWidth, NoTask, PdfHasty, PdfOwnPages

LEMMA ZoomsOK ==
  ASSUME pv.zoom \in Zooms
  PROVE  ZoomedIn \in Zooms /\ ZoomedOut \in Zooms /\ {FitHeight, 100, 200} \subseteq Zooms
<1>1. \A i \in 2..12 : 25 * i \in Zooms
  BY DEF Zooms
<1>2. {FitWidth, FitHeight} \subseteq Zooms /\ 50 \in Zooms /\ 100 \in Zooms /\ 200 \in Zooms /\ 300 \in Zooms
  <2>1. 50 = 25 * 2 /\ 100 = 25 * 4 /\ 200 = 25 * 8 /\ 300 = 25 * 12
    OBVIOUS
  <2>2. {2, 4, 8, 12} \subseteq 2..12
    OBVIOUS
  <2> QED
    BY <1>1, <2>1, <2>2 DEF Zooms
<1>3. CASE pv.zoom \in {FitWidth, FitHeight}
  BY <1>2, <1>3 DEF ZoomedIn, ZoomedOut
<1>4. CASE pv.zoom \notin {FitWidth, FitHeight}
  <2>1. PICK i \in 2..12 : pv.zoom = 25 * i
    BY <1>4 DEF Zooms
  <2>2. pv.zoom + 25 = 25 * (i + 1) /\ pv.zoom - 25 = 25 * (i - 1) /\ i \in Int
    BY <2>1
  <2>3. ~(pv.zoom + 25 > 300) => i + 1 \in 2..12
    BY <2>1, <2>2
  <2>4. ~(pv.zoom - 25 < 50) => i - 1 \in 2..12
    BY <2>1, <2>2
  <2>5. ~(pv.zoom + 25 > 300) => pv.zoom + 25 \in Zooms
    BY <1>1, <2>2, <2>3
  <2>6. ~(pv.zoom - 25 < 50) => pv.zoom - 25 \in Zooms
    BY <1>1, <2>2, <2>4
  <2> QED
    BY <1>2, <1>4, <2>5, <2>6 DEF ZoomedIn, ZoomedOut
<1> QED
  BY <1>2, <1>3, <1>4

\* A load that is destroyed keeps its file and its id.
LEMMA DestroyedOK ==
  ASSUME NEW os, os \subseteq Opening, NEW k \in Nat, \A o \in os : o.id <= k
  PROVE  Destroyed(os) \subseteq Opening /\ \A o \in Destroyed(os) : o.id <= k
<1> SUFFICES ASSUME NEW o \in os
             PROVE  LET d == IF o.id = task /\ o.pc = "load" THEN [o EXCEPT !.pc = "fails"] ELSE o
                    IN d \in Opening /\ d.id <= k
  BY DEF Destroyed
<1>1. o \in Opening /\ o.id <= k
  OBVIOUS
<1> QED
  BY <1>1 DEF Opening

\* Two views of the same opening, as far as its file is loaded.
SameFile(v, w) == v.file = w.file /\ v.pages = w.pages /\ v.loading = w.loading /\ v.hasty = w.hasty

LEMMA RenderPdfPageOK ==
  ASSUME NEW v \in PdfView, NEW n \in Nat, NEW memory \in Kept, RenderPdfPage(v, n, memory)
  PROVE  pv' \in PdfView /\ SameFile(pv', v) /\ pv'.show = v.show /\ pkept' \in Kept
<1>1. pv' \in {v, [v EXCEPT !.at = n, !.drawn = FALSE]}
  BY DEF RenderPdfPage
<1>2. pkept' \in {memory, [memory EXCEPT ![v.file].page = n]}
  BY DEF RenderPdfPage
<1>3. pkept' \in Kept
  BY <1>2 DEF Kept
<1> QED
  BY <1>1, <1>3 DEF PdfView, SameFile

\* The document, its openings and the file and pages that are shown stay.
LEMMA PdfWritten ==
  ASSUME PdfInv, pv' \in PdfView, pv'.show => pv.show /\ SameFile(pv', pv) /\ pclosing' = pclosing,
         pkept' \in Kept, doc' = doc, task' = task, opens' \subseteq opens, pclosing' \in Nat,
         PdfDoes \/ pdfops' = pdfops
  PROVE  PdfInv'
<1>1. pdfops' \in Nat /\ pdfops <= pdfops' /\ pdfops \in Nat
  BY DEF PdfInv, PdfDoes
<1>2. task' \in 0..pdfops'
  BY <1>1 DEF PdfInv
<1>3. \A o \in opens : o.id <= pdfops /\ o.id \in Nat
  BY DEF PdfInv, Opening
<1>4. \A o \in opens' : o.id <= pdfops'
  BY <1>1, <1>3
<1>5. PdfHasty' /\ PdfOwnPages'
  BY DEF PdfInv, PdfHasty, PdfOwnPages, PdfBlanked, SameFile
<1> QED
  BY <1>1, <1>2, <1>4, <1>5 DEF PdfInv

\* A page is drawn of what the reader has.
LEMMA PdfRendered ==
  ASSUME PdfInv, NEW v \in PdfView, v.show = pv.show, SameFile(v, pv),
         NEW n \in Nat, NEW memory \in Kept,
         RenderPdfPage(v, n, memory) \/ (pv' = v /\ pkept' = memory),
         doc' = doc, task' = task, opens' \subseteq opens, pclosing' = pclosing,
         PdfDoes \/ pdfops' = pdfops
  PROVE  PdfInv'
<1>1. pv' \in PdfView /\ SameFile(pv', pv) /\ pv'.show = v.show /\ pkept' \in Kept
  BY RenderPdfPageOK DEF SameFile
<1>2. pclosing' \in Nat
  BY DEF PdfInv
<1> QED
  BY <1>1, <1>2, PdfWritten

LEMMA PdfStep == PdfInv /\ [PdfNext]_pdfVars => PdfInv'
<1> SUFFICES ASSUME PdfInv, [PdfNext]_pdfVars PROVE PdfInv'
  OBVIOUS
<1>1. /\ pv \in PdfView /\ doc \in Pdfs \cup {NoPdf} /\ opens \subseteq Opening /\ pclosing \in Nat
      /\ pdfops \in Nat /\ pkept \in Kept /\ task \in 0..pdfops /\ pv.at \in Nat /\ pv.pages \in Nat
      /\ \A o \in opens : o.id <= pdfops
  BY DEF PdfInv, PdfView
<1>2. CASE UNCHANGED pdfVars
  BY <1>2 DEF pdfVars, drawing, PdfInv, PdfHasty, PdfOwnPages, PdfBlanked
<1>3. CASE \E p \in Pdfs : OpenPdfViewer(p)
  <2>1. PICK p \in Pdfs : OpenPdfViewer(p)
    BY <1>3
  <2> DEFINE due == pclosing > 0
  <2>0. due \in BOOLEAN /\ (~due => pclosing = 0)
    BY <1>1
  <2> DEFINE o == [id |-> pdfops', file |-> p, pc |-> IF library THEN "load" ELSE "library"]
  <2>2. /\ pv' = [pv EXCEPT !.show = TRUE, !.file = p, !.loading = TRUE, !.drawn = FALSE, !.at = 1,
                            !.pages = 0, !.auto = FALSE, !.zoom = FitWidth, !.hasty = due]
        /\ opens' = Destroyed(opens) \cup {o} /\ task' \in {pdfops', NoTask} /\ doc' = NoPdf
        /\ pdfops' = pdfops + 1 /\ UNCHANGED <<pclosing, pkept>>
    BY <2>1 DEF OpenPdfViewer, PdfDoes
  <2> HIDE DEF due
  <2>3. FitWidth \in Zooms
    BY DEF Zooms
  <2>4. pv' \in PdfView
    BY <1>1, <2>0, <2>2, <2>3 DEF PdfView
  <2>5. Destroyed(opens) \subseteq Opening /\ \A d \in Destroyed(opens) : d.id <= pdfops
    BY <1>1, DestroyedOK
  <2>6. o \in Opening /\ o.id = pdfops' /\ pdfops' \in Nat
    BY <1>1, <2>2 DEF Opening
  <2> HIDE DEF o
  <2>7. \A d \in Opening : d.id <= pdfops => d.id <= pdfops'
    BY <1>1, <2>2 DEF Opening
  <2>8. opens' \subseteq Opening /\ \A d \in opens' : d.id <= pdfops'
    BY <2>2, <2>5, <2>6, <2>7
  <2>9. task' \in 0..pdfops'
    BY <1>1, <2>2 DEF NoTask
  <2>10. PdfHasty' /\ PdfOwnPages'
    <3>1. pv'.file = p /\ pv'.loading /\ pv'.hasty = due /\ p # NoPdf
      BY <1>1, <2>2, PdfAssumption DEF PdfView
    <3> QED
      BY <2>0, <2>2, <3>1 DEF PdfHasty, PdfOwnPages
  <2> QED
    BY <1>1, <2>2, <2>4, <2>6, <2>8, <2>9, <2>10 DEF PdfInv
<1>4. CASE \E o \in opens : PdfLibrary(o)
  <2>1. PICK o \in opens : PdfLibrary(o)
    BY <1>4
  <2> DEFINE d == [o EXCEPT !.pc = "load"]
  <2>2. /\ opens' = (opens \ {o}) \cup {d} /\ task' = o.id
        /\ UNCHANGED <<pv, doc, pclosing, pkept, pdfops>>
    BY <2>1 DEF PdfLibrary
  <2>3. o \in Opening /\ o.id \in Nat /\ o.id <= pdfops
    BY <1>1, <2>1 DEF Opening
  <2>4. d \in Opening /\ d.id = o.id
    BY <2>3 DEF Opening
  <2> HIDE DEF d
  <2> QED
    BY <1>1, <2>2, <2>3, <2>4 DEF PdfInv, PdfHasty, PdfOwnPages, PdfBlanked
<1>5. CASE \E o \in opens : PdfLoaded(o)
  <2>1. PICK o \in opens : PdfLoaded(o)
    BY <1>5
  <2>2. o \in Opening /\ o.file \in Pdfs /\ UNCHANGED <<task, pclosing, pkept, pdfops>>
    BY <1>1, <2>1 DEF Opening, PdfLoaded
  <2>3. CASE AwaitedPdf(o.file)
    <3> DEFINE d == [o EXCEPT !.pc = "outline"]
    <3>1. /\ doc' = o.file /\ pv' = [pv EXCEPT !.pages = PdfPages[o.file], !.loading = FALSE]
          /\ opens' = (opens \ {o}) \cup {d} /\ pv.file = o.file
      BY <2>1, <2>3 DEF PdfLoaded, AwaitedPdf
    <3>2. d \in Opening /\ d.id = o.id
      BY <2>2 DEF Opening
    <3> HIDE DEF d
    <3>3. PdfPages[o.file] \in Nat
      BY <2>2, PdfAssumption
    <3>4. /\ pv' \in PdfView /\ pv'.pages = PdfPages[o.file] /\ pv'.file = o.file
          /\ pv'.show = pv.show /\ pv'.hasty = pv.hasty
      BY <1>1, <3>1, <3>3 DEF PdfView
    <3>5. \A x \in opens' : x \in Opening /\ x.id <= pdfops
      BY <1>1, <2>1, <3>1, <3>2
    <3>6. PdfHasty' /\ PdfOwnPages'
      BY <2>2, <3>1, <3>4, PdfAssumption DEF PdfInv, PdfHasty, PdfOwnPages
    <3> QED
      BY <1>1, <2>2, <3>1, <3>4, <3>5, <3>6 DEF PdfInv
  <2>4. CASE ~AwaitedPdf(o.file)
    <3>1. opens' \subseteq opens /\ UNCHANGED <<pv, doc>>
      BY <2>1, <2>4 DEF PdfLoaded
    <3> QED
      BY <1>1, <2>2, <3>1, PdfWritten DEF SameFile
  <2> QED
    BY <2>3, <2>4
<1>6. CASE \E o \in opens : PdfFails(o)
  <2>1. PICK o \in opens : PdfFails(o)
    BY <1>6
  <2>2. /\ opens' \subseteq opens /\ pv' = [pv EXCEPT !.show = FALSE, !.loading = FALSE, !.drawn = TRUE]
        /\ UNCHANGED <<doc, task, pclosing, pkept, pdfops>>
    BY <2>1 DEF PdfFails
  <2>3. pv' \in PdfView /\ ~pv'.show
    BY <1>1, <2>2 DEF PdfView
  <2> QED
    BY <1>1, <2>2, <2>3, PdfWritten
<1>7. CASE \E o \in opens : PdfStarts(o)
  <2>1. PICK o \in opens : PdfStarts(o)
    BY <1>7
  <2> DEFINE first == IF pkept[o.file].page <= PdfPages[o.file] THEN pkept[o.file].page ELSE 1
             v == [pv EXCEPT !.scroll = pkept[o.file].scroll, !.at = first]
  <2>2. o.file \in Pdfs
    BY <1>1, <2>1 DEF Opening
  <2>3. first \in Nat /\ pkept[o.file].scroll \in Scrolls
    BY <1>1, <2>2 DEF Kept
  <2>4. RenderPdfPage(v, first, pkept) \/ (pv' = v /\ pkept' = pkept)
    BY <2>1 DEF PdfStarts
  <2>5. opens' \subseteq opens /\ UNCHANGED <<doc, task, pclosing, pdfops>>
    BY <2>1 DEF PdfStarts
  <2> HIDE DEF first
  <2>6. v \in PdfView /\ v.show = pv.show /\ SameFile(v, pv)
    BY <1>1, <2>3 DEF PdfView, SameFile
  <2> HIDE DEF v
  <2> QED
    BY <1>1, <2>3, <2>4, <2>5, <2>6, PdfRendered
<1>8. CASE (\E g \in fetched : PageFetched(g) \/ PageMissing(g)) \/ Painted
  <2>1. /\ pv' \in {pv, [pv EXCEPT !.drawn = TRUE]}
        /\ UNCHANGED <<doc, task, opens, pclosing, pkept, pdfops>>
    BY <1>8 DEF PageFetched, PageMissing, Painted
  <2>2. pv' \in PdfView /\ pv'.show = pv.show /\ SameFile(pv', pv)
    BY <1>1, <2>1 DEF PdfView, SameFile
  <2> QED
    BY <1>1, <2>1, <2>2, PdfWritten
<1>9. ASSUME NEW n \in Nat, TurnPdf(n) PROVE PdfInv'
  <2>1. /\ RenderPdfPage(pv, n, pkept) /\ PdfDoes
        /\ UNCHANGED <<doc, task, opens, pclosing>>
    BY <1>9 DEF TurnPdf
  <2> QED
    BY <1>1, <2>1, PdfRendered DEF SameFile
<1>10. CASE PdfNextPage \/ PdfPrevPage
  <2>1. pv.at + 1 \in Nat /\ (pv.at > 1 => pv.at - 1 \in Nat)
    BY <1>1
  <2> QED
    BY <1>9, <1>10, <2>1 DEF PdfNextPage, PdfPrevPage
<1>11. CASE \E n \in 1..pv.pages : PdfJumpToPage(n) \/ TrackPdfScroll(n)
  <2>1. PICK n \in 1..pv.pages : PdfJumpToPage(n) \/ TrackPdfScroll(n)
    BY <1>11
  <2>2. n \in Nat
    BY <2>1
  <2>3. CASE TurnPdf(n)
    BY <1>9, <2>2, <2>3
  <2>4. CASE ~TurnPdf(n)
    <3>1. /\ pv' = [pv EXCEPT !.at = n] /\ PdfDoes /\ pkept' \in {pkept, [pkept EXCEPT ![pv.file].page = n]}
          /\ UNCHANGED <<doc, task, opens, pclosing>>
      BY <2>1, <2>4 DEF PdfJumpToPage, TrackPdfScroll
    <3>2. pv' \in PdfView /\ pv'.show = pv.show /\ SameFile(pv', pv)
      BY <1>1, <2>2, <3>1 DEF PdfView, SameFile
    <3>3. pkept' \in Kept
      BY <1>1, <2>2, <3>1 DEF Kept
    <3> QED
      BY <1>1, <3>1, <3>2, <3>3, PdfWritten
  <2> QED
    BY <2>3, <2>4
<1>12. CASE TogglePdfScrollMode
  <2> DEFINE m == IF pv.scroll = "page" THEN "continuous" ELSE "page"
             v == [pv EXCEPT !.scroll = m]
             memory == IF pv.file = NoPdf THEN pkept ELSE [pkept EXCEPT ![pv.file].scroll = m]
  <2>1. /\ RenderPdfPage(v, pv.at, memory) \/ (pv' = v /\ pkept' = memory)
        /\ PdfDoes /\ UNCHANGED <<doc, task, opens, pclosing>>
    BY <1>12 DEF TogglePdfScrollMode
  <2>2. m \in Scrolls
    BY DEF Scrolls
  <2> HIDE DEF m
  <2>3. v \in PdfView /\ v.show = pv.show /\ SameFile(v, pv)
    BY <1>1, <2>2 DEF PdfView, SameFile
  <2>4. memory \in Kept
    BY <1>1, <2>2 DEF Kept
  <2> HIDE DEF v, memory
  <2> QED
    BY <1>1, <2>1, <2>3, <2>4, PdfRendered
<1>13. CASE TogglePdfZoom \/ \E z \in {ZoomedIn, ZoomedOut, FitHeight} : PdfSetZoom(z)
  <2>1. PICK z \in Zooms : PdfSetZoom(z)
    <3>1. ZoomedIn \in Zooms /\ ZoomedOut \in Zooms /\ FitHeight \in Zooms /\ 200 \in Zooms
      BY <1>1, ZoomsOK DEF PdfView
    <3>2. CASE TogglePdfZoom
      BY <3>1, <3>2 DEF TogglePdfZoom
    <3> QED
      BY <1>13, <3>1, <3>2
  <2> DEFINE v == [pv EXCEPT !.zoom = z]
  <2>2. /\ RenderPdfPage(v, pv.at, pkept) \/ (pv' = v /\ pkept' = pkept)
        /\ PdfDoes /\ UNCHANGED <<doc, task, opens, pclosing>>
    BY <2>1 DEF PdfSetZoom
  <2>3. v \in PdfView /\ v.show = pv.show /\ SameFile(v, pv)
    BY <1>1 DEF PdfView, SameFile
  <2> HIDE DEF v
  <2> QED
    BY <1>1, <2>2, <2>3, PdfRendered
<1>14. CASE ClosePdfViewer \/ TogglePdfAuto
  <2>1. /\ \/ pv' = [pv EXCEPT !.show = FALSE, !.auto = FALSE] /\ pclosing' = pclosing + 1
           \/ pv' = [pv EXCEPT !.auto = ~@] /\ pclosing' = pclosing
        /\ PdfDoes /\ UNCHANGED <<doc, task, opens, pkept>>
    BY <1>14 DEF ClosePdfViewer, TogglePdfAuto
  <2>2. pv' \in PdfView /\ (pv'.show => pv.show /\ SameFile(pv', pv) /\ pclosing' = pclosing)
    BY <1>1, <2>1 DEF PdfView, SameFile
  <2>3. pclosing' \in Nat
    BY <1>1, <2>1
  <2> QED
    BY <1>1, <2>1, <2>2, <2>3, PdfWritten
<1>15. CASE PdfReset
  <2>1. /\ pclosing > 0 /\ pclosing' = pclosing - 1 /\ opens' = Destroyed(opens) /\ task' = NoTask
        /\ doc' = NoPdf /\ pv' = [pv EXCEPT !.file = NoPdf] /\ UNCHANGED <<pkept, pdfops>>
    BY <1>15 DEF PdfReset
  <2>2. pv' \in PdfView
    BY <1>1, <2>1 DEF PdfView
  <2>3. Destroyed(opens) \subseteq Opening /\ \A d \in Destroyed(opens) : d.id <= pdfops
    BY <1>1, DestroyedOK
  <2>4. pclosing' \in Nat /\ task' \in 0..pdfops
    BY <1>1, <2>1 DEF NoTask
  <2>5. PdfHasty' /\ PdfOwnPages'
    <3>1. pv'.file = NoPdf /\ pv'.show = pv.show /\ pv'.hasty = pv.hasty
      BY <1>1, <2>1 DEF PdfView
    <3>2. pv.show => pv.hasty
      BY <2>1 DEF PdfInv, PdfHasty
    <3> QED
      BY <3>1, <3>2 DEF PdfHasty, PdfOwnPages, PdfBlanked
  <2> QED
    BY <1>1, <2>1, <2>2, <2>3, <2>4, <2>5 DEF PdfInv
<1>16. CASE PdfFrame
  <2>1. UNCHANGED <<doc, task, opens, pclosing, pdfops>>
    BY <1>16 DEF PdfFrame
  <2>2. CASE RenderPdfPage(pv, pv.at + 1, pkept)
    BY <1>1, <2>1, <2>2, PdfRendered DEF SameFile
  <2>3. CASE pv' = [pv EXCEPT !.auto = FALSE] /\ pkept' = pkept
    <3>1. pv' \in PdfView /\ pv'.show = pv.show /\ SameFile(pv', pv)
      BY <1>1, <2>3 DEF PdfView, SameFile
    <3> QED
      BY <1>1, <2>1, <2>3, <3>1, PdfWritten
  <2> QED
    BY <1>16, <2>2, <2>3 DEF PdfFrame
<1> QED
  BY <1>2, <1>3, <1>4, <1>5, <1>6, <1>7, <1>8, <1>10, <1>11, <1>12, <1>13, <1>14, <1>15, <1>16 DEF PdfNext

LEMMA PdfInvSays == PdfInv => PdfTypeOK /\ PdfOwnPages
BY DEF PdfInv, PdfTypeOK, PdfView, Kept, Scrolls, NoTask

-----------------------------------------------------------------------------
(* The dialog and the operations that wait for it *)

Steps == {"asked", "sent", "served", "in vain", "done"}
Waits == [id: AskIds, what: Subject, step: Steps]
Dialog == [show: BOOLEAN, what: Subject, resolve: AskIds]
OnePerId(os) == \A a, b \in os : a.id = b.id => a = b

\* Every operation has an id of its own, and there is one left for the next: the user does
\* one thing for each, but for the update check.  The one whose resolver the dialog holds is
\* the one it names.
AsksInv ==
  /\ dialog \in Dialog /\ asks \subseteq Waits /\ OnePerId(asks)
  /\ \A a \in asks : a.step = "asked" /\ a.id = dialog.resolve => a.what = dialog.what
  /\ update \in BOOLEAN /\ dops \in 0..MaxDialogOps
  /\ IsFiniteSet(asks) /\ Cardinality(asks) + (IF update THEN 1 ELSE 0) <= dops + 1

\* What ConfirmedOnly says of a step.
Confirmed ==
  \A a \in asks : (a.step = "asked" /\ \E b \in asks' : b.id = a.id /\ b.step # "asked")
    => dialog.show /\ dialog.what = a.what /\ ~dialog'.show

LEMMA AsksInvInit == DialogsInit => AsksInv
<1> SUFFICES ASSUME DialogsInit PROVE AsksInv
  OBVIOUS
<1>1. MaxDialogOps \in Nat /\ 1 \in AskIds
  BY DialogsAssumption DEF AskIds
<1>2. [op |-> "update", of |-> Nobody] \in Subject
  BY DEF Subject
<1>3. dialog \in Dialog
  BY <1>1, <1>2 DEF DialogsInit, Dialog
<1>4. IsFiniteSet(asks) /\ Cardinality(asks) = 0 /\ asks = {}
  BY FS_EmptySet DEF DialogsInit
<1> QED
  BY <1>1, <1>3, <1>4 DEF DialogsInit, AsksInv, OnePerId

\* There is an id for the next operation.
LEMMA NextIdFree ==
  ASSUME IsFiniteSet(asks), Cardinality(asks) <= MaxDialogOps
  PROVE  NextId \in AskIds /\ \A a \in asks : a.id # NextId
<1>1. \E i \in AskIds : \A a \in asks : a.id # i
  <2> SUFFICES ASSUME \A i \in AskIds : \E a \in asks : a.id = i PROVE FALSE
    OBVIOUS
  <2> DEFINE f == [i \in AskIds |-> CHOOSE a \in asks : a.id = i]
  <2>1. f \in [AskIds -> asks] /\ \A i \in AskIds : f[i].id = i
    OBVIOUS
  <2> HIDE DEF f
  <2>2. IsFiniteSet(AskIds) /\ Cardinality(AskIds) = MaxDialogOps + 1
    BY DialogsAssumption, FS_Interval DEF AskIds
  <2>3. Cardinality(asks) < Cardinality(AskIds)
    BY <2>2, DialogsAssumption, FS_CardinalityType
  <2>4. \E x, y \in AskIds : x # y /\ f[x] = f[y]
    BY <2>1, <2>2, <2>3, FS_PigeonHole
  <2> QED
    BY <2>1, <2>4
<1> QED
  BY <1>1 DEF NextId

\* An operation is added, asked in the dialog that shows then or sent without one.
LEMMA AskAdded ==
  ASSUME AsksInv, NEW what \in Subject, NEW step \in {"asked", "sent"},
         asks' = asks \cup {[id |-> NextId, what |-> what, step |-> step]},
         IF step = "asked" THEN dialog' = [show |-> TRUE, what |-> what, resolve |-> NextId]
                           ELSE dialog' = dialog,
         \/ DialogDoes /\ update' = update
         \/ dops' = dops /\ update /\ ~update' /\ update' \in BOOLEAN
  PROVE  AsksInv' /\ Confirmed
<1> DEFINE new == [id |-> NextId, what |-> what, step |-> step]
<1>1. /\ IsFiniteSet(asks) /\ Cardinality(asks) \in Nat /\ dops \in Nat /\ MaxDialogOps \in Nat
      /\ Cardinality(asks) + (IF update THEN 1 ELSE 0) <= dops + 1 /\ dops <= MaxDialogOps
      /\ asks \subseteq Waits /\ OnePerId(asks) /\ dialog \in Dialog /\ update \in BOOLEAN
  BY FS_CardinalityType, DialogsAssumption DEF AsksInv
<1>2. Cardinality(asks) <= MaxDialogOps
  BY <1>1 DEF DialogDoes
<1>3. NextId \in AskIds /\ \A a \in asks : a.id # NextId
  BY <1>1, <1>2, NextIdFree
<1>4. new \in Waits /\ new.id = NextId /\ new.step = step /\ new.what = what
  BY <1>3 DEF Waits, Steps
<1>5. asks' = asks \cup {new}
  OBVIOUS
<1> HIDE DEF new
<1>6. asks' \subseteq Waits /\ OnePerId(asks')
  BY <1>1, <1>3, <1>4, <1>5 DEF OnePerId
<1>7. IsFiniteSet(asks') /\ Cardinality(asks') = Cardinality(asks) + 1
  BY <1>1, <1>3, <1>4, <1>5, FS_AddElement
<1>8. /\ dops' \in 0..MaxDialogOps /\ update' \in BOOLEAN
      /\ Cardinality(asks') + (IF update' THEN 1 ELSE 0) <= dops' + 1
  BY <1>1, <1>7 DEF DialogDoes
<1>9. dialog' \in Dialog
  <2>1. [show |-> TRUE, what |-> what, resolve |-> NextId] \in Dialog
    BY <1>3 DEF Dialog
  <2> QED
    BY <1>1, <2>1
<1>10. \A a \in asks' : a.step = "asked" /\ a.id = dialog'.resolve => a.what = dialog'.what
  BY <1>3, <1>4, <1>5 DEF AsksInv
<1>11. Confirmed
  BY <1>1, <1>3, <1>4, <1>5 DEF Confirmed, OnePerId
<1> QED
  BY <1>6, <1>7, <1>8, <1>9, <1>10, <1>11 DEF AsksInv

\* Operations go on or end.
LEMMA AsksGoOn ==
  ASSUME AsksInv, OnePerId(asks'), dialog' \in {dialog, [dialog EXCEPT !.show = FALSE]},
         \A b \in asks' : /\ b \in Waits
                          /\ \E a \in asks : /\ a.id = b.id /\ a.what = b.what
                                             /\ b.step = "asked" => a.step = "asked",
         DialogDoes \/ dops' = dops, update' = update
  PROVE  AsksInv'
<1>1. /\ IsFiniteSet(asks) /\ Cardinality(asks) \in Nat /\ dops \in Nat /\ MaxDialogOps \in Nat
      /\ Cardinality(asks) + (IF update THEN 1 ELSE 0) <= dops + 1 /\ dops <= MaxDialogOps
      /\ dialog \in Dialog /\ update \in BOOLEAN
  BY FS_CardinalityType, DialogsAssumption DEF AsksInv
<1> DEFINE f == [b \in asks' |-> CHOOSE a \in asks : a.id = b.id]
<1>2. f \in [asks' -> asks] /\ \A b \in asks' : f[b].id = b.id
  OBVIOUS
<1> HIDE DEF f
<1>3. f \in Injection(asks', asks)
  BY <1>2 DEF OnePerId, Injection, IsInjective
<1>4. IsFiniteSet(asks') /\ Cardinality(asks') <= Cardinality(asks)
  BY <1>1, <1>3, FS_Injection
<1>5. Cardinality(asks') \in Nat
  BY <1>4, FS_CardinalityType
<1>6. /\ dops' \in 0..MaxDialogOps
      /\ Cardinality(asks') + (IF update' THEN 1 ELSE 0) <= dops' + 1
  BY <1>1, <1>4, <1>5 DEF DialogDoes
<1>7. dialog' \in Dialog /\ dialog'.resolve = dialog.resolve /\ dialog'.what = dialog.what
  BY <1>1 DEF Dialog
<1>8. \A b \in asks' : b.step = "asked" /\ b.id = dialog'.resolve => b.what = dialog'.what
  BY <1>7 DEF AsksInv
<1> QED
  BY <1>1, <1>4, <1>6, <1>7, <1>8 DEF AsksInv

\* One that was sent goes on or ends: the others wait as before.
LEMMA SentGoesOn ==
  ASSUME AsksInv, NEW a \in asks, a.step # "asked", NEW s \in {"sent", "served", "in vain"},
         asks' \in {asks \ {a}, Moved(a, s)}, dialog' = dialog, dops' = dops, update' = update
  PROVE  AsksInv' /\ Confirmed
<1> DEFINE m == [a EXCEPT !.step = s]
<1>1. asks' \subseteq (asks \ {a}) \cup {m}
  BY DEF Moved
<1>2. asks \subseteq Waits /\ OnePerId(asks)
  BY DEF AsksInv
<1>3. m \in Waits /\ m.id = a.id /\ m.what = a.what /\ m.step = s
  BY <1>2 DEF Waits, Steps
<1> HIDE DEF m
<1>4. OnePerId(asks')
  BY <1>1, <1>2, <1>3 DEF OnePerId
<1>5. Confirmed
  BY <1>1, <1>2, <1>3 DEF OnePerId, Confirmed
<1>6. \A b \in asks' : /\ b \in Waits
                       /\ \E x \in asks : /\ x.id = b.id /\ x.what = b.what
                                          /\ b.step = "asked" => x.step = "asked"
  <2> SUFFICES ASSUME NEW b \in asks'
               PROVE  /\ b \in Waits
                      /\ \E x \in asks : /\ x.id = b.id /\ x.what = b.what
                                         /\ b.step = "asked" => x.step = "asked"
    OBVIOUS
  <2>1. CASE b \in asks
    BY <1>2, <2>1
  <2>2. CASE b = m
    BY <1>3, <2>2
  <2> QED
    BY <1>1, <2>1, <2>2
<1> QED
  BY <1>4, <1>5, <1>6, AsksGoOn

LEMMA AsksKept ==
  ASSUME AsksInv, asks' = asks, dialog' = dialog, DialogDoes \/ dops' = dops,
         update' = update \/ (~update' /\ update' \in BOOLEAN)
  PROVE  AsksInv' /\ Confirmed
<1>1. /\ Cardinality(asks) \in Nat /\ dops \in Nat /\ MaxDialogOps \in Nat
      /\ Cardinality(asks) + (IF update THEN 1 ELSE 0) <= dops + 1 /\ dops <= MaxDialogOps
      /\ update \in BOOLEAN
  BY FS_CardinalityType, DialogsAssumption DEF AsksInv
<1>2. dops' \in 0..MaxDialogOps /\ Cardinality(asks) + (IF update' THEN 1 ELSE 0) <= dops' + 1
  BY <1>1 DEF DialogDoes
<1>3. AsksInv'
  BY <1>1, <1>2 DEF AsksInv
<1>4. Confirmed
  BY DEF AsksInv, Confirmed, OnePerId
<1> QED
  BY <1>3, <1>4

LEMMA AnswerOK ==
  ASSUME AsksInv, NEW yes \in BOOLEAN, Answer(yes)
  PROVE  AsksInv' /\ Confirmed
<1> DEFINE mine == {a \in asks : a.id = dialog.resolve /\ a.step = "asked"}
           After(a) == [a EXCEPT !.step = IF a.what.op \in {"update", "paste"} THEN "done" ELSE "sent"]
<1>1. /\ DialogDoes /\ dialog.show /\ dialog' = [dialog EXCEPT !.show = FALSE] /\ update' = update
      /\ asks' \subseteq (asks \ mine) \cup {After(a) : a \in mine}
  BY DEF Answer
<1>2. asks \subseteq Waits /\ OnePerId(asks) /\ dialog \in Dialog
  BY DEF AsksInv
<1>3. \A a \in mine : /\ After(a) \in Waits /\ After(a).id = a.id /\ After(a).what = a.what
                      /\ After(a).step # "asked" /\ a \in asks /\ a.what = dialog.what
  BY <1>2 DEF Waits, Steps, AsksInv
<1>4. \A b \in asks' : b \in asks \ mine \/ \E a \in mine : b = After(a)
  BY <1>1
<1>5. ~dialog'.show
  BY <1>1, <1>2 DEF Dialog
<1> HIDE DEF mine, After
<1>6. OnePerId(asks')
  <2> SUFFICES ASSUME NEW b1 \in asks', NEW b2 \in asks', b1.id = b2.id PROVE b1 = b2
    BY DEF OnePerId
  <2>1. CASE b1 \in asks \ mine /\ b2 \in asks \ mine
    BY <1>2, <2>1 DEF OnePerId
  <2>2. \A x, y \in mine : After(x).id = After(y).id => x = y
    BY <1>2, <1>3 DEF OnePerId
  <2>3. \A x \in mine : \A y \in asks \ mine : After(x).id # y.id
    BY <1>2, <1>3 DEF OnePerId
  <2> QED
    BY <1>4, <2>1, <2>2, <2>3
<1>7. Confirmed
  BY <1>1, <1>2, <1>3, <1>4, <1>5 DEF Confirmed, OnePerId
<1>8. \A b \in asks' : /\ b \in Waits
                       /\ \E x \in asks : /\ x.id = b.id /\ x.what = b.what
                                          /\ b.step = "asked" => x.step = "asked"
  BY <1>2, <1>3, <1>4
<1> QED
  BY <1>1, <1>6, <1>7, <1>8, AsksGoOn

LEMMA AsksStep ==
  ASSUME AsksInv, [DialogsNext]_dialogVars
  PROVE  AsksInv' /\ Confirmed
<1>1. CASE UNCHANGED dialogVars
  BY <1>1, AsksKept DEF dialogVars, dialogPage
<1>2. CASE \E what \in Subject : Ask(what)
  BY <1>2, AskAdded DEF Ask, ShowUIModal, Asked, dialogPage
<1>3. CASE \E yes \in BOOLEAN : Answer(yes)
  BY <1>3, AnswerOK
<1>4. CASE CheckUpdate
  <2>1. [op |-> "update", of |-> Nobody] \in Subject
    BY DEF Subject
  <2>2. update /\ ~update' /\ update' \in BOOLEAN /\ dops' = dops
    BY <1>4 DEF CheckUpdate
  <2>3. CASE ShowUIModal([op |-> "update", of |-> Nobody])
    BY <2>1, <2>2, <2>3, AskAdded DEF ShowUIModal, Asked
  <2> QED
    BY <1>4, <2>2, <2>3, AsksKept DEF CheckUpdate
<1>5. CASE \E a \in asks : Serve(a) \/ Answered(a) \/ Refused(a) \/ RestartAnswered(a) \/ RestoreAnswered(a)
  <2>1. PICK a \in asks : Serve(a) \/ Answered(a) \/ Refused(a) \/ RestartAnswered(a) \/ RestoreAnswered(a)
    BY <1>5
  <2>2. PICK s \in {"served", "in vain"} : asks' \in {asks \ {a}, Moved(a, s)}
    BY <2>1 DEF Serve, Answered, Refused, RestartAnswered, RestoreAnswered
  <2>3. a.step # "asked" /\ UNCHANGED <<dialog, dops, update>>
    BY <2>1 DEF Serve, Answered, Refused, RestartAnswered, RestoreAnswered, dialogPage
  <2> QED
    BY <2>2, <2>3, SentGoesOn
<1>6. CASE RegenerateAPIKey
  <2>1. [op |-> "new key", of |-> Nobody] \in Subject
    BY DEF Subject
  <2> QED
    BY <1>6, <2>1, AskAdded DEF RegenerateAPIKey, dialogPage
<1>7. CASE \/ \E f \in fetching : ListRead(f) \/ \E ok \in BOOLEAN : ListArrives(f, ok)
           \/ OpenUsers \/ (\E u \in Users : TypeName(u)) \/ CreateUser \/ CreateServed
           \/ CreateAnswered \/ CreateFails \/ CloseCredentials \/ ServerRestarts \/ Polled
  <2>1. UNCHANGED <<asks, dialog, update>> /\ (DialogDoes \/ dops' = dops)
    BY <1>7 DEF ListRead, ListArrives, OpenUsers, TypeName, CreateUser, CreateServed, CreateAnswered,
                CreateFails, CloseCredentials, ServerRestarts, Polled, dialogPage
  <2> QED
    BY <2>1, AsksKept
<1>8. CASE Reload
  <2>1. asks' = {} /\ dialog' = [dialog EXCEPT !.show = FALSE] /\ update' = TRUE /\ dops' = dops
    BY <1>8 DEF Reload
  <2>2. dialog' \in Dialog
    BY <2>1 DEF AsksInv, Dialog
  <2>3. IsFiniteSet(asks') /\ Cardinality(asks') = 0
    BY <2>1, FS_EmptySet
  <2>4. dops \in Nat /\ dops \in 0..MaxDialogOps
    BY DEF AsksInv
  <2>5. Cardinality(asks') + (IF update' THEN 1 ELSE 0) <= dops' + 1
    BY <2>1, <2>3, <2>4
  <2> QED
    BY <2>1, <2>2, <2>3, <2>4, <2>5 DEF AsksInv, OnePerId, Confirmed
<1> QED
  BY <1>1, <1>2, <1>3, <1>4, <1>5, <1>6, <1>7, <1>8 DEF DialogsNext

\* The lists and the credentials are of users and passkeys, and a password of the user named.
UserList == [of: {"users"}, read: BOOLEAN, list: SUBSET Users]
KeyList == [of: {"passkeys"}, read: BOOLEAN, list: SUBSET Keys]

AnswersInv ==
  /\ accounts \subseteq Users /\ userList \subseteq Users /\ keys \subseteq Keys /\ keyList \subseteq Keys
  /\ fetching \subseteq UserList \cup KeyList
  /\ form \in Users \cup {Nobody}
  /\ creating \in [who: Users \cup {Nobody}, done: BOOLEAN] /\ (creating.done => creating.who # Nobody)
  /\ issued \in [show: BOOLEAN, who: Users \cup {Nobody}, password: Users \cup {Nobody}]
  /\ issued.show => issued.who # Nobody /\ issued.password \in {issued.who, Nobody}

LEMMA AnswersInvInit == DialogsInit => AnswersInv
BY DEF DialogsInit, AnswersInv

LEMMA CredentialsOK ==
  ASSUME NEW u \in Users, NEW q \in {u, Nobody}, issued' = Credentials(u, q)
  PROVE  /\ issued' \in [show: BOOLEAN, who: Users \cup {Nobody}, password: Users \cup {Nobody}]
         /\ issued'.show => issued'.who # Nobody /\ issued'.password \in {issued'.who, Nobody}
BY DialogsAssumption DEF Credentials

LEMMA NewList == ListOf("users") \in UserList /\ ListOf("passkeys") \in KeyList
BY DEF ListOf, UserList, KeyList

LEMMA AnswersStep ==
  ASSUME AnswersInv, AsksInv, [DialogsNext]_dialogVars
  PROVE  AnswersInv'
<1>1. CASE UNCHANGED dialogVars
  BY <1>1 DEF dialogVars, dialogServer, dialogLists, dialogPage, AnswersInv
<1>2. CASE (\E what \in Subject : Ask(what)) \/ (\E yes \in BOOLEAN : Answer(yes)) \/ CheckUpdate
           \/ RegenerateAPIKey \/ ServerRestarts \/ Polled \/ \E a \in asks : Refused(a) \/ RestartAnswered(a)
  <2>1. UNCHANGED <<accounts, keys, fetching, userList, keyList, form, creating, issued>>
    BY <1>2 DEF Ask, Answer, CheckUpdate, RegenerateAPIKey, ServerRestarts, Polled, Refused,
                RestartAnswered, dialogServer, dialogLists, dialogPage
  <2> QED
    BY <2>1 DEF AnswersInv
<1>3. CASE \E a \in asks : Serve(a)
  <2>1. PICK a \in asks : Serve(a)
    BY <1>3
  <2>2. UNCHANGED <<fetching, userList, keyList, form, creating, issued>>
    BY <2>1 DEF Serve, dialogLists, dialogPage
  <2>3. accounts' \subseteq accounts /\ keys' \subseteq Keys
    BY <2>1 DEF Serve, dialogServer, AnswersInv
  <2> QED
    BY <2>2, <2>3 DEF AnswersInv
<1>4. CASE \E a \in asks : Answered(a)
  <2>1. PICK a \in asks : Answered(a)
    BY <1>4
  <2>2. /\ UNCHANGED <<accounts, keys, userList, keyList, form, creating>>
        /\ fetching' \subseteq fetching \cup {ListOf("users"), ListOf("passkeys")}
        /\ issued' = issued \/ (a.what.op = "reset password" /\ issued' = Credentials(a.what.of, PasswordOf(a)))
    BY <2>1 DEF Answered
  <2>3. a.what.op = "reset password" => a.what.of \in Users
    BY DEF AsksInv, Waits, Subject
  <2>4. fetching' \subseteq UserList \cup KeyList
    BY <2>2, NewList DEF AnswersInv
  <2>5. PasswordOf(a) \in {a.what.of, Nobody}
    BY DEF PasswordOf
  <2> QED
    BY <2>2, <2>3, <2>4, <2>5, CredentialsOK DEF AnswersInv
<1>5. CASE \E a \in asks : RestoreAnswered(a)
  BY <1>5 DEF RestoreAnswered, AnswersInv, dialogLists
<1>6. CASE \E f \in fetching : ListRead(f)
  <2>1. PICK f \in fetching : ListRead(f)
    BY <1>6
  <2> DEFINE g == [f EXCEPT !.read = TRUE, !.list = IF f.of = "users" THEN accounts ELSE keys]
  <2>2. /\ UNCHANGED <<accounts, keys, userList, keyList, form, creating, issued>>
        /\ fetching' = (fetching \ {f}) \cup {g}
    BY <2>1 DEF ListRead, dialogServer, dialogPage
  <2>3. g \in UserList \cup KeyList
    BY DEF AnswersInv, UserList, KeyList
  <2> QED
    BY <2>2, <2>3 DEF AnswersInv
<1>7. CASE \E f \in fetching : \E ok \in BOOLEAN : ListArrives(f, ok)
  <2>1. PICK f \in fetching, ok \in BOOLEAN : ListArrives(f, ok)
    BY <1>7
  <2>2. /\ UNCHANGED <<accounts, keys, form, creating, issued>> /\ fetching' \subseteq fetching
    BY <2>1 DEF ListArrives, dialogServer, dialogPage
  <2>3. (f.of = "users" => f.list \subseteq Users) /\ (f.of # "users" => f.list \subseteq Keys)
    BY DEF AnswersInv, UserList, KeyList
  <2>4. userList' \subseteq Users /\ keyList' \subseteq Keys
    BY <2>1, <2>3 DEF ListArrives, AnswersInv
  <2> QED
    BY <2>2, <2>4 DEF AnswersInv
<1>8. CASE OpenUsers
  BY <1>8, NewList DEF OpenUsers, AnswersInv, dialogServer, dialogPage
<1>9. CASE (\E u \in Users : TypeName(u)) \/ CreateUser \/ CreateFails
  <2>1. /\ UNCHANGED <<accounts, keys, fetching, userList, keyList, issued>>
        /\ form' \in Users \cup {form}
        /\ creating' \in {creating, [who |-> form, done |-> FALSE], [who |-> Nobody, done |-> FALSE]}
    BY <1>9 DEF TypeName, CreateUser, CreateFails, dialogServer, dialogLists
  <2>2. form \in Users \cup {Nobody} /\ form' \in Users \cup {Nobody}
    BY <2>1 DEF AnswersInv
  <2>3. /\ creating' \in [who: Users \cup {Nobody}, done: BOOLEAN]
        /\ creating'.done => creating'.who # Nobody
    <3> DEFINE c(u) == [who |-> u, done |-> FALSE]
    <3>1. \A u \in Users \cup {Nobody} : c(u) \in [who: Users \cup {Nobody}, done: BOOLEAN] /\ ~c(u).done
      OBVIOUS
    <3>2. creating' \in {creating, c(form), c(Nobody)}
      BY <2>1
    <3> HIDE DEF c
    <3> QED
      BY <2>2, <3>1, <3>2 DEF AnswersInv
  <2> QED
    BY <2>1, <2>2, <2>3 DEF AnswersInv
<1>10. CASE CreateServed
  <2>1. /\ UNCHANGED <<keys, fetching, userList, keyList, form, issued>>
        /\ creating.who # Nobody /\ accounts' = accounts \cup {creating.who}
        /\ creating' = [creating EXCEPT !.done = TRUE]
    BY <1>10 DEF CreateServed, dialogLists
  <2> QED
    BY <2>1 DEF AnswersInv
<1>11. CASE CreateAnswered
  <2>1. /\ UNCHANGED <<accounts, keys, userList, keyList>> /\ form' = Nobody
        /\ creating.done /\ creating' = [who |-> Nobody, done |-> FALSE]
        /\ fetching' = fetching \cup {ListOf("users")}
        /\ issued' = Credentials(creating.who, creating.who)
    BY <1>11 DEF CreateAnswered, dialogServer
  <2>2. creating.who \in Users
    BY <2>1 DEF AnswersInv
  <2> QED
    BY <2>1, <2>2, CredentialsOK, NewList DEF AnswersInv
<1>12. CASE CloseCredentials
  BY <1>12 DEF CloseCredentials, AnswersInv, dialogServer, dialogLists
<1>13. CASE Reload
  BY <1>13, NewList DEF Reload, AnswersInv
<1> QED
  BY <1>1, <1>2, <1>3, <1>4, <1>5, <1>6, <1>7, <1>8, <1>9, <1>10, <1>11, <1>12, <1>13 DEF DialogsNext

LEMMA DialogsInvSays == AsksInv /\ AnswersInv => DialogsTypeOK /\ PasswordOfItsUser
<1> SUFFICES ASSUME AsksInv, AnswersInv PROVE DialogsTypeOK /\ PasswordOfItsUser
  OBVIOUS
<1>1. dialog.what \in Subject /\ dialog.resolve \in AskIds
  BY DEF AsksInv, Dialog
<1>2. \A a \in asks : a.what \in Subject /\ a.step \in {"asked", "sent", "served", "in vain", "done"}
  BY DEF AsksInv, Waits, Steps
<1> QED
  BY <1>1, <1>2 DEF AsksInv, AnswersInv, OnePerId, DialogsTypeOK, PasswordOfItsUser

-----------------------------------------------------------------------------
(* The settings *)

Row == [value: Tokens \cup {Empty}, saved: BOOLEAN]

\* Rows that can no longer be edited hold verified tokens, and so will those that the answer
\* of a verification closes.
GoodRow == {r \in Row : r.saved => r.value \in verified}
BotInv ==
  /\ rows \in Seq(GoodRow) /\ Len(rows) <= MaxRows
  /\ saving.step = "verified" => saving.good \subseteq verified

SwitchInv ==
  /\ shown \in [Switches -> BOOLEAN] /\ truth \in [Switches -> BOOLEAN]
  /\ flips \subseteq [switch: Switches, to: BOOLEAN, served: BOOLEAN]
LogoInv ==
  /\ brand \in [file: Logos \cup {NoLogo}, preview: Logos \cup {NoLogo}]
  /\ posts \subseteq [logo: Logos \cup {NoLogo, "reset"}, served: BOOLEAN, custom: Logos \cup {NoLogo}]
  /\ custom \in Logos \cup {NoLogo}
VideoInv ==
  /\ lookup \in [url: Urls \cup {Empty}, info: Urls \cup {Empty}, loading: BOOLEAN]
  /\ lookups \subseteq Urls
SettingsInv == SwitchInv /\ BotInv /\ LogoInv /\ VideoInv

\* The rows of the tokens there are at the start.
LEMMA SetToSeqOK ==
  ASSUME NEW S, IsFiniteSet(S)
  PROVE  SetToSeq(S) \in [1..Cardinality(S) -> S]
<1>1. ExistsBijection(1..Cardinality(S), S)
  BY FS_CardinalityType
<1>2. \E f \in [1..Cardinality(S) -> S] : IsInjective(f)
  BY <1>1 DEF ExistsBijection, Bijection, Injection
<1> QED
  BY <1>2 DEF SetToSeq

LEMMA SettingsInvInit == SettingsInit => SettingsInv
<1> SUFFICES ASSUME SettingsInit PROVE SettingsInv
  OBVIOUS
<1>1. SwitchInv
  BY DEF SettingsInit, SwitchInv
<1>2. LogoInv
  BY DEF SettingsInit, LogoInv
<1>3. VideoInv
  BY DEF SettingsInit, VideoInv
<1>4. BotInv
  <2>1. PICK t \in SUBSET Tokens :
          /\ rows = [i \in 1..Cardinality(t) |-> [value |-> SetToSeq(t)[i], saved |-> TRUE]]
          /\ verified = t
    BY DEF SettingsInit
  <2>2. /\ IsFiniteSet(t) /\ Cardinality(t) \in Nat /\ Cardinality(t) <= Cardinality(Tokens)
        /\ Cardinality(Tokens) \in Nat /\ Cardinality(Tokens) <= MaxRows /\ MaxRows \in Nat
    BY SettingsAssumption, FS_Subset, FS_CardinalityType
  <2> DEFINE n == Cardinality(t)
             q == SetToSeq(t)
  <2>3. q \in [1..n -> t] /\ n \in Nat /\ n <= MaxRows
    BY <2>2, SetToSeqOK
  <2>4. rows = [i \in 1..n |-> [value |-> q[i], saved |-> TRUE]]
    BY <2>1
  <2> HIDE DEF n, q
  <2>5. \A i \in 1..n : [value |-> q[i], saved |-> TRUE] \in GoodRow
    BY <2>1, <2>3 DEF GoodRow, Row
  <2>6. rows \in [1..n -> GoodRow]
    BY <2>4, <2>5
  <2>7. rows \in Seq(GoodRow) /\ Len(rows) = n
    BY <2>3, <2>6
  <2> QED
    BY <2>3, <2>7 DEF BotInv, SettingsInit, NotSaving
<1> QED
  BY <1>1, <1>2, <1>3, <1>4 DEF SettingsInv

LEMMA RemoveAtOK ==
  ASSUME NEW S, NEW s \in Seq(S), NEW i \in DOMAIN s
  PROVE  RemoveAt(s, i) \in Seq(S) /\ Len(RemoveAt(s, i)) <= Len(s)
<1>1. Len(s) \in Nat /\ i \in 1..Len(s) /\ \A j \in 1..Len(s) : s[j] \in S
  OBVIOUS
<1> DEFINE a == SubSeq(s, 1, i - 1)
           b == SubSeq(s, i + 1, Len(s))
<1>2. a \in Seq(S) /\ Len(a) = IF 1 <= i - 1 THEN (i - 1) - 1 + 1 ELSE 0
  <2>1. i - 1 \in Int /\ 1 \in Int /\ \A j \in 1..(i - 1) : s[j] \in S
    BY <1>1
  <2> QED
    BY ONLY <2>1, SubSeqProperties
<1>3. b \in Seq(S) /\ Len(b) = IF i + 1 <= Len(s) THEN Len(s) - (i + 1) + 1 ELSE 0
  <2>1. i + 1 \in Int /\ Len(s) \in Int /\ \A j \in (i + 1)..Len(s) : s[j] \in S
    BY <1>1
  <2> QED
    BY ONLY <2>1, SubSeqProperties
<1> HIDE DEF a, b
<1>4. a \o b \in Seq(S) /\ Len(a \o b) = Len(a) + Len(b)
  BY <1>2, <1>3, ConcatProperties
<1>5. Len(a) = i - 1 /\ Len(b) = Len(s) - i
  BY <1>1, <1>2, <1>3
<1>6. RemoveAt(s, i) = a \o b
  BY DEF RemoveAt, a, b
<1> QED
  BY <1>1, <1>4, <1>5, <1>6

LEMMA BotStep ==
  ASSUME BotInv, BotNext \/ UNCHANGED botVars
  PROVE  BotInv'
<1>1. /\ rows \in Seq(GoodRow) /\ Len(rows) \in Nat /\ Len(rows) <= MaxRows /\ MaxRows \in Nat
      /\ DOMAIN rows = 1..Len(rows) /\ \A i \in DOMAIN rows : rows[i] \in GoodRow
  BY SettingsAssumption DEF BotInv
<1>2. ASSUME verified \subseteq verified' PROVE GoodRow \subseteq GoodRow' /\ Seq(GoodRow) \subseteq Seq(GoodRow')
  <2>1. GoodRow \subseteq GoodRow'
    BY <1>2 DEF GoodRow
  <2> QED
    BY <2>1, SeqMonotonic
<1>3. CASE UNCHANGED botVars
  BY <1>3 DEF botVars, BotInv, GoodRow
<1>4. CASE AddBotToken
  <2> DEFINE r == [value |-> Empty, saved |-> FALSE]
  <2>1. rows' = Append(rows, r) /\ Len(rows) < MaxRows /\ saving' = saving /\ verified' = verified
    BY <1>4 DEF AddBotToken
  <2>2. r \in GoodRow
    BY DEF GoodRow, Row
  <2> HIDE DEF r
  <2>3. rows' \in Seq(GoodRow) /\ Len(rows') <= MaxRows
    BY <1>1, <2>1, <2>2
  <2> QED
    BY <1>2, <2>1, <2>3 DEF BotInv
<1>5. CASE \E i \in DOMAIN rows : RemoveBotToken(i)
  <2>1. PICK i \in DOMAIN rows : rows' = RemoveAt(rows, i) /\ saving' = saving /\ verified' = verified
    BY <1>5 DEF RemoveBotToken
  <2>2. rows' \in Seq(GoodRow) /\ Len(rows') <= Len(rows) /\ Len(rows') \in Nat
    BY <1>1, <2>1, RemoveAtOK
  <2>3. Len(rows') <= MaxRows
    BY <1>1, <2>2
  <2> QED
    BY <1>2, <2>1, <2>2, <2>3 DEF BotInv
<1>6. CASE \E i \in DOMAIN rows : \E t \in Tokens \cup {Empty} : EditBotToken(i, t)
  <2>1. PICK i \in DOMAIN rows, t \in Tokens \cup {Empty} : EditBotToken(i, t)
    BY <1>6
  <2> DEFINE r == [rows[i] EXCEPT !.value = t]
  <2>2. /\ rows' = [rows EXCEPT ![i] = r] /\ ~rows[i].saved /\ saving' = saving /\ verified' = verified
    BY <1>1, <2>1 DEF EditBotToken
  <2>3. r \in GoodRow
    BY <1>1, <2>2 DEF GoodRow, Row
  <2> HIDE DEF r
  <2>4. rows' \in Seq(GoodRow) /\ Len(rows') = Len(rows)
    BY <1>1, <2>2, <2>3, ExceptSeq
  <2> QED
    BY <1>1, <1>2, <2>2, <2>4 DEF BotInv
<1>7. CASE SaveBotPool \/ BotPoolFails
  <2>1. saving'.step # "verified" /\ UNCHANGED <<rows, verified>>
    BY <1>7 DEF SaveBotPool, BotPoolFails, NotSaving
  <2> QED
    BY <1>1, <1>2, <2>1 DEF BotInv
<1>8. CASE \E good \in SUBSET saving.posted : BotPoolVerified(good)
  <2>1. PICK good : /\ saving' = [saving EXCEPT !.good = good, !.step = "verified"]
                    /\ verified' = verified \cup good /\ rows' = rows
    BY <1>8 DEF BotPoolVerified
  <2>2. saving'.good \subseteq verified' \/ saving'.good = saving.good
    BY <2>1
  <2> QED
    BY <1>1, <1>2, <2>1, <2>2 DEF BotInv
<1>9. CASE BotPoolAnswered
  <2> DEFINE r(i) == [rows[i] EXCEPT !.saved = @ \/ rows[i].value \in saving.good]
  <2>1. /\ rows' = [i \in DOMAIN rows |-> r(i)] /\ saving' = NotSaving /\ verified' = verified
        /\ saving.good \subseteq verified
    BY <1>9 DEF BotPoolAnswered, BotInv
  <2>2. \A i \in 1..Len(rows) : r(i) \in GoodRow
    BY <1>1, <2>1 DEF GoodRow, Row
  <2> HIDE DEF r
  <2>3. rows' \in [1..Len(rows) -> GoodRow]
    BY <1>1, <2>1, <2>2
  <2>4. rows' \in Seq(GoodRow) /\ Len(rows') = Len(rows)
    BY <1>1, <2>3
  <2> QED
    BY <1>1, <1>2, <2>1, <2>4 DEF BotInv, NotSaving
<1> QED
  BY <1>3, <1>4, <1>5, <1>6, <1>7, <1>8, <1>9 DEF BotNext

LEMMA SwitchStep ==
  ASSUME SwitchInv, SwitchNext \/ UNCHANGED switchVars
  PROVE  SwitchInv'
<1> DEFINE F == [switch: Switches, to: BOOLEAN, served: BOOLEAN]
<1>1. CASE UNCHANGED switchVars
  BY <1>1 DEF switchVars, SwitchInv
<1>2. CASE \E s \in Switches : Flip(s)
  <2>1. PICK s \in Switches : Flip(s)
    BY <1>2
  <2>2. [switch |-> s, to |-> ~shown[s], served |-> FALSE] \in F
    OBVIOUS
  <2> QED
    BY <2>1, <2>2 DEF Flip, SwitchInv
<1>3. CASE \E f \in flips : FlipServed(f)
  <2>1. PICK f \in flips : FlipServed(f)
    BY <1>3
  <2>2. f \in F /\ [f EXCEPT !.served = TRUE] \in F
    BY DEF SwitchInv
  <2>3. truth' \in [Switches -> BOOLEAN]
    BY <2>1, <2>2 DEF FlipServed, SwitchInv
  <2> QED
    BY <2>1, <2>2, <2>3 DEF FlipServed, SwitchInv
<1>4. CASE \E f \in flips : FlipAnswered(f) \/ FlipFails(f)
  <2>1. PICK f \in flips : FlipAnswered(f) \/ FlipFails(f)
    BY <1>4
  <2>2. f \in F
    BY DEF SwitchInv
  <2>3. shown' \in [Switches -> BOOLEAN]
    BY <2>1, <2>2 DEF FlipAnswered, FlipFails, SwitchInv
  <2> QED
    BY <2>1, <2>3 DEF FlipAnswered, FlipFails, SwitchInv
<1> QED
  BY <1>1, <1>2, <1>3, <1>4 DEF SwitchNext

LEMMA LogoStep ==
  ASSUME LogoInv, LogoNext \/ UNCHANGED brandVars
  PROVE  LogoInv'
<1> DEFINE P == [logo: Logos \cup {NoLogo, "reset"}, served: BOOLEAN, custom: Logos \cup {NoLogo}]
           B == [file: Logos \cup {NoLogo}, preview: Logos \cup {NoLogo}]
<1>1. brand \in B /\ posts \subseteq P /\ custom \in Logos \cup {NoLogo}
  BY DEF LogoInv
<1>2. CASE UNCHANGED brandVars
  BY <1>2 DEF brandVars, LogoInv
<1>3. CASE \E f \in Logos : LogoFileSelected(f) \/ LogoRead(f)
  BY <1>1, <1>3 DEF LogoFileSelected, LogoRead, LogoInv
<1>4. CASE SaveBranding \/ ResetBrandingLogo
  <2>1. PICK l \in Logos \cup {NoLogo, "reset"} :
          posts' = posts \cup {[logo |-> l, served |-> FALSE, custom |-> NoLogo]}
    BY <1>1, <1>4 DEF SaveBranding, ResetBrandingLogo, Post
  <2>2. [logo |-> l, served |-> FALSE, custom |-> NoLogo] \in P
    OBVIOUS
  <2>3. posts' \subseteq P
    BY <1>1, <2>1, <2>2
  <2> QED
    BY <1>1, <1>4, <2>3 DEF SaveBranding, ResetBrandingLogo, LogoInv
<1>5. CASE \E p \in posts : BrandingServed(p)
  <2>1. PICK p \in posts : BrandingServed(p)
    BY <1>5
  <2>2. p \in P
    BY <1>1
  <2>3. custom' \in Logos \cup {NoLogo}
    BY <1>1, <2>1, <2>2 DEF BrandingServed
  <2>4. [p EXCEPT !.served = TRUE, !.custom = custom'] \in P
    BY <2>2, <2>3
  <2> QED
    BY <1>1, <2>1, <2>3, <2>4 DEF BrandingServed, LogoInv
<1>6. CASE \E p \in posts : BrandingAnswered(p) \/ BrandingFails(p)
  <2>1. PICK p \in posts : BrandingAnswered(p) \/ BrandingFails(p)
    BY <1>6
  <2>2. p.custom \in Logos \cup {NoLogo}
    BY <1>1
  <2>3. brand' \in B
    BY <1>1, <2>1, <2>2 DEF BrandingAnswered, BrandingFails
  <2> QED
    BY <1>1, <2>1, <2>3 DEF BrandingAnswered, BrandingFails, LogoInv
<1> QED
  BY <1>2, <1>3, <1>4, <1>5, <1>6 DEF LogoNext

LEMMA VideoStep ==
  ASSUME VideoInv, VideoNext \/ UNCHANGED videoVars
  PROVE  VideoInv'
<1>1. CASE UNCHANGED videoVars
  BY <1>1 DEF videoVars, VideoInv
<1>2. CASE \E u \in Urls \cup {Empty} : TypeUrl(u)
  BY <1>2 DEF TypeUrl, VideoInv
<1>3. CASE ClearVideo
  BY <1>3 DEF ClearVideo, VideoInv
<1>4. CASE FetchYTDLPFormats
  BY <1>4 DEF FetchYTDLPFormats, VideoInv
<1>5. CASE \E u \in lookups, ok \in BOOLEAN : FormatsAnswered(u, ok)
  <2>1. PICK u \in lookups, ok \in BOOLEAN : FormatsAnswered(u, ok)
    BY <1>5
  <2>2. u \in Urls /\ lookup' \in {[lookup EXCEPT !.info = u, !.loading = FALSE], [lookup EXCEPT !.loading = FALSE]}
    BY <2>1 DEF FormatsAnswered, VideoInv
  <2> QED
    BY <2>1, <2>2 DEF FormatsAnswered, VideoInv
<1> QED
  BY <1>1, <1>2, <1>3, <1>4, <1>5 DEF VideoNext

LEMMA SettingsStep ==
  ASSUME SettingsInv, [SwitchNext \/ BotNext \/ LogoNext \/ VideoNext]_settingsVars
  PROVE  SettingsInv'
<1>1. CASE UNCHANGED settingsVars
  BY <1>1, BotStep, SwitchStep, LogoStep, VideoStep DEF SettingsInv, settingsVars
<1>2. CASE SwitchNext
  <2>1. UNCHANGED <<botVars, brandVars, videoVars>>
    BY <1>2 DEF SwitchNext, Flip, FlipServed, FlipAnswered, FlipFails
  <2> QED
    BY <1>2, <2>1, BotStep, SwitchStep, LogoStep, VideoStep DEF SettingsInv
<1>3. CASE BotNext
  <2>1. UNCHANGED <<switchVars, brandVars, videoVars>>
    BY <1>3 DEF BotNext, AddBotToken, RemoveBotToken, EditBotToken, SaveBotPool, BotPoolVerified,
                BotPoolAnswered, BotPoolFails
  <2> QED
    BY <1>3, <2>1, BotStep, SwitchStep, LogoStep, VideoStep DEF SettingsInv
<1>4. CASE LogoNext
  <2>1. UNCHANGED <<switchVars, botVars, videoVars>>
    BY <1>4 DEF LogoNext, LogoFileSelected, LogoRead, SaveBranding, ResetBrandingLogo, BrandingServed,
                BrandingAnswered, BrandingFails
  <2> QED
    BY <1>4, <2>1, BotStep, SwitchStep, LogoStep, VideoStep DEF SettingsInv
<1>5. CASE VideoNext
  <2>1. UNCHANGED <<switchVars, botVars, brandVars>>
    BY <1>5 DEF VideoNext, TypeUrl, ClearVideo, FetchYTDLPFormats, FormatsAnswered
  <2> QED
    BY <1>5, <2>1, BotStep, SwitchStep, LogoStep, VideoStep DEF SettingsInv
<1> QED
  BY <1>1, <1>2, <1>3, <1>4, <1>5

LEMMA SettingsInvSays == SettingsInv => SettingsTypeOK /\ SavedIsVerified
<1> SUFFICES ASSUME SettingsInv PROVE SettingsTypeOK /\ SavedIsVerified
  OBVIOUS
<1>1. \A i \in DOMAIN rows : rows[i] \in GoodRow
  BY DEF SettingsInv, BotInv
<1>2. \A i \in DOMAIN rows : rows[i].value \in Tokens \cup {Empty} /\ (rows[i].saved => rows[i].value \in verified)
  BY <1>1 DEF GoodRow, Row
<1>3. SavedIsVerified
  BY <1>2 DEF SavedIsVerified
<1> QED
  BY <1>2, <1>3 DEF SettingsInv, SwitchInv, BotInv, LogoInv, VideoInv, SettingsTypeOK

-----------------------------------------------------------------------------
(* The downloads *)

Download == [asked: BOOLEAN, polls: BOOLEAN, timer: BOOLEAN]
\* A selection is at one of its files, and has asked for no more than that.
Batch == {b \in [at: Nat, of: Nat, frames: Nat, ended: BOOLEAN] :
            b.at \in 1..b.of /\ b.of <= MaxSelected /\ b.frames <= b.at}

DownloadsInv ==
  /\ downloads \in Seq(Download) /\ Len(downloads) <= MaxDownloads
  /\ batches \in Seq(Batch) /\ Len(batches) <= MaxBatches
  /\ batch \in [active: BOOLEAN, total: 0..MaxSelected, current: 0..MaxSelected]
  /\ selected \in 0..MaxSelected

LEMMA DownloadsInvInit == DownloadsInit => DownloadsInv
BY DownloadsAssumption DEF DownloadsInit, DownloadsInv

\* The file after one that is not the last is one of them.
LEMMA NextFile ==
  ASSUME NEW n \in Nat, NEW of \in Nat, NEW frames \in Nat, NEW max \in Nat,
         n < of, frames <= n, of <= max
  PROVE  n + 1 \in 1..of /\ frames + 1 <= n + 1 /\ n + 1 \in 0..max
OBVIOUS

LEMMA DownloadsStep ==
  ASSUME DownloadsInv, [DownloadsNext]_downloadVars
  PROVE  DownloadsInv'
<1>1. /\ downloads \in Seq(Download) /\ batches \in Seq(Batch) /\ selected \in 0..MaxSelected
      /\ Len(downloads) \in Nat /\ Len(batches) \in Nat /\ Len(downloads) <= MaxDownloads
      /\ Len(batches) <= MaxBatches
      /\ MaxDownloads \in Nat /\ MaxBatches \in Nat /\ MaxSelected \in Nat
      /\ batch \in [active: BOOLEAN, total: 0..MaxSelected, current: 0..MaxSelected]
  BY DownloadsAssumption DEF DownloadsInv
<1>2. CASE UNCHANGED downloadVars
  BY <1>2 DEF downloadVars, DownloadsInv
<1>3. CASE StartDownload
  <2> DEFINE d == [asked |-> TRUE, polls |-> TRUE, timer |-> TRUE]
  <2>1. /\ downloads' = Append(downloads, d) /\ Len(downloads) < MaxDownloads
        /\ UNCHANGED <<batches, batch, selected>>
    BY <1>3 DEF StartDownload
  <2>2. d \in Download
    BY DEF Download
  <2> HIDE DEF d
  <2>3. downloads' \in Seq(Download) /\ Len(downloads') <= MaxDownloads
    BY <1>1, <2>1, <2>2
  <2> QED
    BY <1>1, <2>1, <2>3 DEF DownloadsInv
<1>4. CASE \E i \in DOMAIN downloads : Timeout(i) \/ CookieSeen(i) \/ \E ok \in BOOLEAN : DownloadAnswered(i, ok)
  <2>1. PICK i \in DOMAIN downloads : Timeout(i) \/ CookieSeen(i) \/ \E ok \in BOOLEAN : DownloadAnswered(i, ok)
    BY <1>4
  <2>2. downloads[i] \in Download /\ i \in 1..Len(downloads)
    BY <1>1
  <2>3. PICK d \in Download : downloads' = [downloads EXCEPT ![i] = d]
    <3>1. [asked |-> FALSE, polls |-> FALSE, timer |-> FALSE] \in Download
      BY DEF Download
    <3>2. /\ [downloads[i] EXCEPT !.timer = FALSE] \in Download
          /\ [downloads[i] EXCEPT !.asked = FALSE] \in Download
          /\ [downloads[i] EXCEPT !.polls = FALSE] \in Download
      BY <2>2 DEF Download
    <3>3. CASE Timeout(i)
      BY <1>1, <3>1, <3>2, <3>3 DEF Timeout
    <3>4. CASE CookieSeen(i)
      BY <1>1, <3>2, <3>4 DEF CookieSeen
    <3>5. CASE \E ok \in BOOLEAN : DownloadAnswered(i, ok)
      BY <1>1, <3>2, <3>5 DEF DownloadAnswered
    <3> QED
      BY <2>1, <3>3, <3>4, <3>5
  <2>4. downloads' \in Seq(Download) /\ Len(downloads') = Len(downloads)
    BY <1>1, <2>2, <2>3, ExceptSeq
  <2>5. UNCHANGED <<batches, batch, selected>>
    BY <2>1 DEF Timeout, CookieSeen, DownloadAnswered
  <2> QED
    BY <1>1, <2>4, <2>5 DEF DownloadsInv
<1>5. CASE CookieExpires \/ \E n \in 1..MaxSelected : SelectFiles(n)
  <2>1. UNCHANGED <<downloads, batches, batch>> /\ selected' \in 0..MaxSelected
    BY <1>1, <1>5 DEF CookieExpires, SelectFiles
  <2> QED
    BY <1>1, <2>1 DEF DownloadsInv
<1>6. CASE DownloadSelectedBatch
  <2> DEFINE b == [at |-> 1, of |-> selected, frames |-> 1, ended |-> FALSE]
  <2>1. /\ batches' = Append(batches, b) /\ selected > 0 /\ Len(batches) < MaxBatches
        /\ batch' = [active |-> TRUE, total |-> selected, current |-> 1]
        /\ selected' \in {0, selected} /\ downloads' = downloads
    BY <1>6 DEF DownloadSelectedBatch
  <2>2. b \in Batch
    BY <1>1, <2>1 DEF Batch
  <2> HIDE DEF b
  <2>3. batches' \in Seq(Batch) /\ Len(batches') <= MaxBatches
    BY <1>1, <2>1, <2>2
  <2>4. batch' \in [active: BOOLEAN, total: 0..MaxSelected, current: 0..MaxSelected]
    BY <1>1, <2>1
  <2> QED
    BY <1>1, <2>1, <2>3, <2>4 DEF DownloadsInv
<1>7. CASE \E i \in DOMAIN batches : BatchStep(i) \/ BatchEnds(i) \/ \E ok \in BOOLEAN : FrameAnswered(i, ok)
  <2>1. PICK i \in DOMAIN batches : BatchStep(i) \/ BatchEnds(i) \/ \E ok \in BOOLEAN : FrameAnswered(i, ok)
    BY <1>7
  <2>2. batches[i] \in Batch /\ i \in 1..Len(batches)
    BY <1>1
  <2>3. /\ downloads' = downloads /\ selected' \in {0, selected}
        /\ batch' \in [active: BOOLEAN, total: 0..MaxSelected, current: 0..MaxSelected]
        /\ \E b \in Batch : batches' = [batches EXCEPT ![i] = b]
    <3>1. CASE BatchStep(i)
      <4> DEFINE b == [batches[i] EXCEPT !.at = @ + 1, !.frames = @ + 1]
      <4>1. /\ batches[i].at < batches[i].of /\ batches' = [batches EXCEPT ![i] = b]
            /\ batch' = [batch EXCEPT !.current = b.at] /\ selected' \in {0, selected}
            /\ downloads' = downloads
        BY <3>1 DEF BatchStep
      <4>2. b \in [at: Nat, of: Nat, frames: Nat, ended: BOOLEAN]
        <5>1. batches[i] \in [at: Nat, of: Nat, frames: Nat, ended: BOOLEAN]
          BY <2>2 DEF Batch
        <5>2. batches[i].at + 1 \in Nat /\ batches[i].frames + 1 \in Nat
          BY <5>1
        <5> QED
          BY <5>1, <5>2
      <4>3. b.at = batches[i].at + 1 /\ b.frames = batches[i].frames + 1 /\ b.of = batches[i].of
        BY <2>2 DEF Batch
      <4>4. /\ batches[i].at \in Nat /\ batches[i].of \in Nat /\ batches[i].frames \in Nat
            /\ batches[i].frames <= batches[i].at /\ batches[i].of <= MaxSelected
        BY <2>2 DEF Batch
      <4> HIDE DEF b
      <4>5. b.at \in 1..b.of /\ b.of <= MaxSelected /\ b.frames <= b.at /\ b.at \in 0..MaxSelected
        <5>1. batches[i].at < batches[i].of /\ MaxSelected \in Nat
          BY <4>1, DownloadsAssumption
        <5> QED
          BY <4>3, <4>4, <5>1, NextFile
      <4>6. b \in Batch
        BY <4>2, <4>5 DEF Batch
      <4> QED
        BY <1>1, <4>1, <4>5, <4>6
    <3>2. CASE BatchEnds(i)
      <4>1. [batches[i] EXCEPT !.ended = TRUE] \in Batch
        BY <2>2 DEF Batch
      <4> QED
        BY <1>1, <3>2, <4>1 DEF BatchEnds
    <3>3. CASE \E ok \in BOOLEAN : FrameAnswered(i, ok)
      <4>1. batches[i].frames > 0
        BY <3>3 DEF FrameAnswered
      <4>2. [batches[i] EXCEPT !.frames = @ - 1] \in Batch
        BY <2>2, <4>1 DEF Batch
      <4> QED
        BY <1>1, <3>3, <4>2 DEF FrameAnswered
    <3> QED
      BY <2>1, <3>1, <3>2, <3>3
  <2>4. batches' \in Seq(Batch) /\ Len(batches') = Len(batches)
    BY <1>1, <2>2, <2>3, ExceptSeq
  <2> QED
    BY <1>1, <2>3, <2>4 DEF DownloadsInv
<1> QED
  BY <1>2, <1>3, <1>4, <1>5, <1>6, <1>7 DEF DownloadsNext

LEMMA DownloadsInvSays == DownloadsInv => DownloadsTypeOK
<1> SUFFICES ASSUME DownloadsInv PROVE DownloadsTypeOK
  OBVIOUS
<1>1. \A i \in DOMAIN batches : batches[i] \in Batch
  BY DEF DownloadsInv
<1>2. \A i \in DOMAIN batches : batches[i].at \in 1..batches[i].of /\ batches[i].frames <= batches[i].at
  BY <1>1 DEF Batch
<1> QED
  BY <1>2 DEF DownloadsInv, DownloadsTypeOK

-----------------------------------------------------------------------------
(* The page *)

\* All viewers and panels keep theirs.
PageInv ==
  /\ PlayerInv /\ BoxInv /\ ComicInv /\ EpubInv /\ PdfInv
  /\ AsksInv /\ AnswersInv /\ SettingsInv /\ DownloadsInv

\* From every start, through every step of every viewer and panel.
THEOREM PageInvariant == Spec => []PageInv
<1>1. Init => PageInv
  BY PlayerInvInit, BoxInvInit, ComicInvInit, EpubInvInit, PdfInvInit, AsksInvInit, AnswersInvInit,
     SettingsInvInit, DownloadsInvInit DEF Init, PageInv
<1>2. PageInv /\ [Next]_vars => PageInv'
  <2> SUFFICES ASSUME PageInv, [Next]_vars PROVE PageInv'
    OBVIOUS
  <2>1. PlayerInv' /\ BoxInv' /\ ComicInv' /\ EpubInv' /\ PdfInv'
    BY ViewerSteps, PlayerStep, BoxStep, ComicStep, EpubStep, PdfStep DEF PageInv
  <2>2. AsksInv' /\ AnswersInv' /\ SettingsInv' /\ DownloadsInv'
    BY PanelSteps, AsksStep, AnswersStep, SettingsStep, DownloadsStep DEF PageInv
  <2> QED
    BY <2>1, <2>2 DEF PageInv
<1> QED
  BY <1>1, <1>2, PTL DEF Spec

\* The states of the viewers, the panels, the settings and the downloads have their types.
THEOREM PageTypeCorrect == Spec => []TypeOK
<1>1. PageInv => TypeOK
  <2>1. BoxInv => BoxTypeOK
    <3> SUFFICES ASSUME BoxInv PROVE BoxTypeOK
      OBVIOUS
    <3>1. box.list \in Shows /\ DOMAIN box.list = 1..Len(box.list)
      BY LightboxAssumption DEF BoxInv, Box
    <3> QED
      BY <3>1 DEF BoxInv, Box, BoxTypeOK
  <2> QED
    BY <2>1, PlayerInvSays, ComicInvSays, EpubInvSays, PdfInvSays, DialogsInvSays, SettingsInvSays,
       DownloadsInvSays DEF PageInv, TypeOK
<1> QED
  BY <1>1, PageInvariant, PTL

\* What a shown player, comic, book or PDF reader has loaded is of the file it shows, whatever
\* of another one comes late, and it is empty only while it loads; but for a book or PDF reader
\* that was opened again before the reset of its closing (openMediaPlayer, openComicViewer,
\* openEpubViewer, openPdfViewer, closeEpubViewer, closePdfViewer).
THEOREM ViewersShowTheirs == Spec => []ShowsItsOwn
<1>1. PageInv => ShowsItsOwn
  BY PlayerInvSays, ComicInvSays, EpubInvSays, PdfInvSays DEF PageInv, ShowsItsOwn
<1> QED
  BY <1>1, PageInvariant, PTL

\* No timer of a slide show runs that the viewer could not stop (startSlideshow,
\* stopSlideshow, onLightboxImageLoad).
THEOREM SlideShowHasOneTimer == Spec => []OneTimer
<1>1. PageInv => OneTimer
  BY DEF PageInv, BoxInv, OneTimer, TimerIds, Null
<1> QED
  BY <1>1, PageInvariant, PTL

\* A password is shown with the user it was issued for, of whom it is the password unless the
\* user was deleted before the reset was served, when it is nobody's; and a token is closed to
\* the user only when the server has verified it (createUser, resetUserPassword, saveBotPool).
THEOREM AnswersAreOwn == Spec => []AnswersOwn
<1>1. PageInv => AnswersOwn
  BY DialogsInvSays, SettingsInvSays DEF PageInv, AnswersOwn
<1> QED
  BY <1>1, PageInvariant, PTL

\* A book is closed by the user or its own failure, and its place is one of its chapters
\* (openEpubViewer, _loadEpubChapter).
THEOREM BookIsKept == Spec => EpubKeepsBook
<1>1. PageInv /\ [Next]_vars =>
        [/\ ev.show /\ ~ev'.show => eops' # eops \/ metas'[ev.file] < metas[ev.file]
         /\ \A b \in Books : places'[b].chapter # places[b].chapter => places'[b].chapter < Spine[b]]_epubVars
  BY ViewerSteps, EpubStep DEF PageInv, EpubKept, PlacesAreChapters
<1> QED
  BY <1>1, PageInvariant, PTL DEF Spec, EpubKeepsBook

\* An operation goes on only when the user confirmed the dialog that asked for it, though
\* others took its place (showUIModal, closeUIModal).
THEOREM OnlyConfirmedGoOn == Spec => ConfirmedOnly
<1>1. PageInv /\ [Next]_vars =>
        [\A a \in asks : (a.step = "asked" /\ \E b \in asks' : b.id = a.id /\ b.step # "asked")
           => dialog.show /\ dialog.what = a.what /\ ~dialog'.show]_dialogVars
  BY PanelSteps, AsksStep DEF PageInv, Confirmed
<1> QED
  BY <1>1, PageInvariant, PTL DEF Spec, ConfirmedOnly
=============================================================================
