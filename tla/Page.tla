-------------------------------- MODULE Page --------------------------------
(***************************************************************************)
(* The viewers and panels of the page together.  They share no state, nor  *)
(* do the settings among each other, so a behaviour of all of them is a    *)
(* behaviour of each: the one that is used is chosen at the start, and     *)
(* their states add up.  What the others had at the start is left out.     *)
(***************************************************************************)
EXTENDS Player, Lightbox, Comic, Epub, Pdf, Dialogs, Settings, Downloads

VARIABLE front   \* the viewer or panel that is used

viewerVars == <<playerVars, boxVars, comicVars, epubVars, pdfVars>>
panelVars == <<dialogVars, settingsVars, downloadVars>>
vars == <<front, viewerVars, panelVars>>

Fronts == {"player", "lightbox", "comic", "epub", "pdf",
           "dialogs", "switches", "bots", "logo", "video", "downloads"}

Init ==
  /\ front \in Fronts
  /\ PlayerInit /\ BoxInit /\ ComicInit /\ EpubInit /\ PdfInit
  /\ DialogsInit /\ SettingsInit /\ DownloadsInit
  /\ front # "comic" => \A c \in Comics : cprogress[c] = 0
  /\ front # "epub" => \A b \in Books : places[b].chapter = 0
  /\ front # "pdf" => \A p \in Pdfs : pkept[p].page = 1
  /\ front # "dialogs" => userList = {} /\ keys = {}
  /\ front # "bots" => rows = <<>>
  /\ front # "switches" => \A s \in Switches : ~truth[s]

UsePlayer == front = "player" /\ PlayerNext /\ UNCHANGED <<boxVars, comicVars, epubVars, pdfVars>>
UseBox == front = "lightbox" /\ BoxNext /\ UNCHANGED <<playerVars, comicVars, epubVars, pdfVars>>
UseComic == front = "comic" /\ ComicNext /\ UNCHANGED <<playerVars, boxVars, epubVars, pdfVars>>
UseEpub == front = "epub" /\ EpubNext /\ UNCHANGED <<playerVars, boxVars, comicVars, pdfVars>>
UsePdf == front = "pdf" /\ PdfNext /\ UNCHANGED <<playerVars, boxVars, comicVars, epubVars>>
UseViewer == (UsePlayer \/ UseBox \/ UseComic \/ UseEpub \/ UsePdf) /\ UNCHANGED panelVars

UseDialogs == front = "dialogs" /\ DialogsNext /\ UNCHANGED <<settingsVars, downloadVars>>
UseSettings ==
  /\ \/ front = "switches" /\ SwitchNext
     \/ front = "bots" /\ BotNext
     \/ front = "logo" /\ LogoNext
     \/ front = "video" /\ VideoNext
  /\ UNCHANGED <<dialogVars, downloadVars>>
UsesDownloads(A) == front = "downloads" /\ A /\ UNCHANGED <<dialogVars, settingsVars>>
UsePanel == (UseDialogs \/ UseSettings \/ UsesDownloads(DownloadsNext)) /\ UNCHANGED viewerVars

Next == (UseViewer \/ UsePanel) /\ UNCHANGED front

\* Timers fire: the timeout of a download, the pause between the files of a selection and the
\* one after the last.  Nothing is asked of the user or of the server.
Fires(A) == UsesDownloads(A) /\ UNCHANGED <<front, viewerVars>>
TimersFire ==
  /\ \A i \in 1..MaxDownloads : WF_vars(Fires(i \in DOMAIN downloads /\ Timeout(i)))
  /\ \A i \in 1..MaxBatches : WF_vars(Fires(i \in DOMAIN batches /\ (BatchStep(i) \/ BatchEnds(i))))

Spec == Init /\ [][Next]_vars /\ TimersFire

\* The types of the states of all of them.
TypeOK ==
  /\ PlayerTypeOK /\ BoxTypeOK /\ ComicTypeOK /\ EpubTypeOK /\ PdfTypeOK
  /\ DialogsTypeOK /\ SettingsTypeOK /\ DownloadsTypeOK

\* What a shown viewer has loaded is of the file it shows: no player, list of pages, chapter
\* or document of another file that came late, and none missing but while it loads.  The
\* player and the comic reader are never emptied by the reset of an earlier closing; the book
\* reader and the PDF reader are, when they are opened again within its 400 ms, for which
\* nothing is claimed (EpubBlanked, PdfBlanked).
ShowsItsOwn == PlaysWhatItShows /\ ComicOwnPages /\ EpubOwnPages /\ PdfOwnPages

\* An answer is shown with what was asked: a password with the user it was issued for (nobody's,
\* if the user was gone by then), a saved token with the one that was verified.
AnswersOwn == PasswordOfItsUser /\ SavedIsVerified
=============================================================================
