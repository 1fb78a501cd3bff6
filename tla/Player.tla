------------------------------- MODULE Player -------------------------------
(***************************************************************************)
(* The media player of a page and the dialog with a file's details.  A     *)
(* track is opened in two halves: the modal at once, the player after 50   *)
(* ms and the loading of the player scripts, for the file it was asked     *)
(* for then.  The dialog and the modal reset themselves 300 ms after they  *)
(* are closed, and closing the dialog destroys the one player there is.    *)
(***************************************************************************)
EXTENDS Naturals, Sequences

CONSTANTS
  Tracks,       \* media files
  Lists,        \* what the list of the page may be: sequences of tracks
  MaxOpening,   \* bound on players being opened at once
  MaxPlayerOps  \* bound on what the user does

NoTrack == "no track"

ASSUME PlayerAssumption ==
  /\ NoTrack \notin Tracks
  /\ <<>> \in Lists /\ Lists \subseteq Seq(Tracks)
  /\ {MaxOpening, MaxPlayerOps} \subseteq Nat

VARIABLES
  tracks,    \* media of filteredFiles
  modal,     \* mediaPlayerModal
  opening,   \* second halves of openMediaPlayer to come, in order
  player,    \* playerInstance or plyrInstance: the file it plays
  closing,   \* reset timers of the modal and of the dialog
  info,      \* fileInfoModal
  preview,   \* files whose text is being loaded for it
  pops       \* what the user has done so far

playerVars == <<tracks, modal, opening, player, closing, info, preview, pops>>

NoModal == [show |-> FALSE, file |-> NoTrack, playing |-> FALSE, min |-> FALSE,
            placed |-> FALSE, bubble |-> FALSE, list |-> <<>>, index |-> 0]
NoInfo == [show |-> FALSE, file |-> NoTrack, html |-> NoTrack, loading |-> FALSE]

PlayerInit ==
  /\ tracks = <<>>
  /\ modal = NoModal /\ opening = <<>>
  /\ player = NoTrack
  /\ closing = [modal |-> FALSE, info |-> FALSE]
  /\ info = NoInfo /\ preview = {} /\ pops = 0

PlayerDoes == pops < MaxPlayerOps /\ pops' = pops + 1

\* findIndex in the playlist, 0 for a file that is not in it.
IndexIn(list, f) == IF \E i \in DOMAIN list : list[i] = f
                      THEN CHOOSE i \in DOMAIN list : list[i] = f ELSE 0

-----------------------------------------------------------------------------
(* Opening and closing *)

\* closeFileInfoModal, which openMediaPlayer calls first.
InfoClosed == [info EXCEPT !.show = FALSE]

\* The first half of openMediaPlayer, and initPlaylist.
OpenedModal(f) == [NoModal EXCEPT !.show = TRUE, !.file = f, !.list = tracks,
                             !.index = IndexIn(tracks, f)]
OpensTrack(f, m) ==
  /\ Len(opening) < MaxOpening
  /\ modal' = m
  /\ opening' = Append(opening, f)
  /\ info' = InfoClosed
  /\ player' = NoTrack
  /\ closing' = [closing EXCEPT !.info = TRUE]
  /\ UNCHANGED <<tracks, preview>>
OpenMediaPlayer(f) == PlayerDoes /\ OpensTrack(f, OpenedModal(f))

\* The second half destroys the player there is and makes the new one, whether the modal
\* is still open or not.
PlayerMade ==
  /\ opening # <<>>
  /\ player' = Head(opening)
  /\ opening' = Tail(opening)
  /\ UNCHANGED <<tracks, modal, closing, info, preview, pops>>
ScriptsMissing ==
  /\ opening # <<>> /\ player = NoTrack
  /\ opening' = Tail(opening)
  /\ UNCHANGED <<tracks, modal, player, closing, info, preview, pops>>

CloseMediaPlayer ==
  /\ PlayerDoes /\ modal.show
  /\ modal' = [modal EXCEPT !.show = FALSE, !.playing = FALSE]
  /\ player' = NoTrack
  /\ closing' = [closing EXCEPT !.modal = TRUE]
  /\ UNCHANGED <<tracks, opening, info, preview>>

\* After 300 ms: a modal that was opened again is left alone.
ResetModal(m) == [m EXCEPT !.min = FALSE, !.placed = FALSE, !.file = NoTrack]
ResetAnyModal == ResetModal(modal)                                    \* a mutant
ResetClosedModal == IF modal.show THEN modal ELSE ResetModal(modal)
ModalResets ==
  /\ closing.modal
  /\ closing' = [closing EXCEPT !.modal = FALSE]
  /\ modal' = ResetClosedModal
  /\ UNCHANGED <<tracks, opening, player, info, preview, pops>>

\* Events of the player.
PlayState(on) ==
  /\ player # NoTrack /\ modal.playing # on
  /\ modal' = [modal EXCEPT !.playing = on]
  /\ UNCHANGED <<tracks, opening, player, closing, info, preview, pops>>

-----------------------------------------------------------------------------
(* The playlist *)

\* playTrackByIndex: the modal is made anew, with the playlist and the place it had.
Relisted(f, i) == [OpenedModal(f) EXCEPT !.min = modal.min, !.placed = modal.placed,
                                    !.list = modal.list, !.index = i]
PlayTrack(i) ==
  /\ i \in DOMAIN modal.list
  /\ OpensTrack(modal.list[i], Relisted(modal.list[i], i))
NextIndex == IF modal.index + 1 > Len(modal.list) THEN 1 ELSE modal.index + 1
PrevIndex == IF modal.index - 1 < 1 THEN Len(modal.list) ELSE modal.index - 1
PlayListed(i) == PlayerDoes /\ modal.show /\ PlayTrack(i)
PlayNextTrack == PlayerDoes /\ modal.show /\ modal.list # <<>> /\ PlayTrack(NextIndex)
PlayPrevTrack == PlayerDoes /\ modal.show /\ modal.list # <<>> /\ PlayTrack(PrevIndex)
\* A track ends, even one of a player that is out of sight.
TrackEnds == PlayerDoes /\ player # NoTrack /\ modal.list # <<>> /\ PlayTrack(NextIndex)

\* A refresh of the page: what is played goes on.
ListChanges ==
  /\ tracks' \in Lists \ {tracks}
  /\ UNCHANGED <<modal, opening, player, closing, info, preview, pops>>

-----------------------------------------------------------------------------
(* The small player: its place is forgotten when it is no longer small *)

ToggleMinimized ==
  /\ PlayerDoes /\ modal.show
  /\ modal' = [modal EXCEPT !.min = ~@, !.placed = @ /\ ~modal.min]
  /\ UNCHANGED <<tracks, opening, player, closing, info, preview>>
ToggleBubble ==
  /\ PlayerDoes /\ modal.show /\ modal.min
  /\ modal' = [modal EXCEPT !.bubble = ~@]
  /\ UNCHANGED <<tracks, opening, player, closing, info, preview>>
StartDrag ==
  /\ PlayerDoes /\ modal.show /\ modal.min /\ ~modal.placed
  /\ modal' = [modal EXCEPT !.placed = TRUE]
  /\ UNCHANGED <<tracks, opening, player, closing, info, preview>>

-----------------------------------------------------------------------------
(* The dialog *)

ShowFileInfo(f) ==
  /\ PlayerDoes /\ ~info.show
  /\ info' = [NoInfo EXCEPT !.show = TRUE, !.file = f]
  /\ UNCHANGED <<tracks, modal, opening, player, closing, preview>>

LoadFilePreview ==
  /\ PlayerDoes /\ info.show /\ info.html = NoTrack /\ ~info.loading
  /\ info' = [info EXCEPT !.loading = TRUE]
  /\ preview' = preview \cup {info.file}
  /\ UNCHANGED <<tracks, modal, opening, player, closing>>

\* The text, or the error, goes to the dialog there is by then.
PreviewLoaded(f) ==
  /\ f \in preview
  /\ preview' = preview \ {f}
  /\ info' = [info EXCEPT !.html = f, !.loading = FALSE]
  /\ UNCHANGED <<tracks, modal, opening, player, closing, pops>>

\* It takes the player with it, also a small one that is playing.
CloseFileInfo ==
  /\ PlayerDoes /\ info.show
  /\ info' = InfoClosed
  /\ player' = NoTrack
  /\ closing' = [closing EXCEPT !.info = TRUE]
  /\ UNCHANGED <<tracks, modal, opening, preview>>
InfoResets ==
  /\ closing.info
  /\ closing' = [closing EXCEPT !.info = FALSE]
  /\ info' = IF info.show THEN info ELSE [info EXCEPT !.html = NoTrack, !.loading = FALSE]
  /\ UNCHANGED <<tracks, modal, opening, player, preview, pops>>

-----------------------------------------------------------------------------
PlayerNext ==
  \/ \E f \in Tracks : OpenMediaPlayer(f) \/ ShowFileInfo(f) \/ PreviewLoaded(f)
  \/ PlayerMade \/ ScriptsMissing \/ CloseMediaPlayer \/ ModalResets
  \/ \E on \in BOOLEAN : PlayState(on)
  \/ \E i \in DOMAIN modal.list : PlayListed(i)
  \/ PlayNextTrack \/ PlayPrevTrack \/ TrackEnds \/ ListChanges
  \/ ToggleMinimized \/ ToggleBubble \/ StartDrag
  \/ LoadFilePreview \/ CloseFileInfo \/ InfoResets

PlayerTypeOK ==
  /\ tracks \in Lists
  /\ modal.file \in Tracks \cup {NoTrack} /\ modal.index \in 0..Len(modal.list)
  /\ opening \in Seq(Tracks) /\ Len(opening) <= MaxOpening
  /\ player \in Tracks \cup {NoTrack}
  /\ modal.placed => modal.min
  /\ preview \subseteq Tracks

\* The modal names what is played: its playlist entry, and the player once it is made,
\* however fast the tracks were changed.
PlaysWhatItShows ==
  modal.show => /\ modal.file # NoTrack
                /\ modal.index # 0 => modal.list[modal.index] = modal.file
                /\ opening = <<>> /\ player # NoTrack => player = modal.file
=============================================================================
