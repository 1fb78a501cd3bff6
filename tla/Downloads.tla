------------------------------ MODULE Downloads -----------------------------
(***************************************************************************)
(* Downloads through hidden frames.  A file or a folder puts a layer over  *)
(* the page until the server's answer has set a cookie, which an interval  *)
(* looks for, or a timeout has passed; every download has its interval and *)
(* its timeout, and all share the layer and the cookie.  A selection is    *)
(* downloaded file by file, two seconds apart, without looking.            *)
(***************************************************************************)
EXTENDS Naturals, Sequences

CONSTANTS
  MaxDownloads,  \* bound on downloads of a file or a folder
  MaxBatches,    \* bound on downloads of a selection
  MaxSelected    \* bound on the size of a selection

ASSUME DownloadsAssumption == {MaxDownloads, MaxBatches, MaxSelected} \subseteq Nat

VARIABLES
  preparing,   \* isPreparingDownload, the layer
  cookie,      \* dl_started
  downloads,   \* for each download begun: its frame, its interval and its timeout
  batches,     \* for each selection downloaded: the file it is at, of how many, and its frames
  batch,       \* batchDownload
  selected     \* how many files are selected

downloadVars == <<preparing, cookie, downloads, batches, batch, selected>>

DownloadsInit ==
  /\ preparing = FALSE /\ cookie = FALSE
  /\ downloads = <<>> /\ batches = <<>>
  /\ batch = [active |-> FALSE, total |-> 0, current |-> 0]
  /\ selected = 0

-----------------------------------------------------------------------------
(* One file or folder *)

\* startDownload and startDownloadFolder, which differ in the length of the timeout.
StartDownload ==
  /\ ~preparing /\ Len(downloads) < MaxDownloads
  /\ preparing' = TRUE /\ cookie' = FALSE
  /\ downloads' = Append(downloads, [asked |-> TRUE, polls |-> TRUE, timer |-> TRUE])
  /\ UNCHANGED <<batches, batch, selected>>

\* The server answers with the file and the cookie, or with an error and none.
DownloadAnswered(i, ok) ==
  /\ downloads[i].asked /\ downloads' = [downloads EXCEPT ![i].asked = FALSE]
  /\ cookie' = (cookie \/ ok)
  /\ UNCHANGED <<preparing, batches, batch, selected>>
\* The cookie lives for fifteen seconds.
CookieExpires ==
  /\ cookie /\ cookie' = FALSE
  /\ UNCHANGED <<preparing, downloads, batches, batch, selected>>

\* checkCookie: any cookie will do, the first interval to see it takes it.
CookieSeen(i) ==
  /\ downloads[i].polls /\ cookie /\ cookie' = FALSE
  /\ downloads' = [downloads EXCEPT ![i].polls = FALSE]
  /\ preparing' = FALSE
  /\ UNCHANGED <<batches, batch, selected>>

\* The timeout of a download that has started ends the layer of another one, and when it
\* comes after the layer has ended it leaves the interval running.
TimeoutLeavesLayer(i) ==                                                    \* a mutant
  /\ downloads[i].timer
  /\ downloads' = [downloads EXCEPT ![i] = [asked |-> FALSE, polls |-> FALSE, timer |-> FALSE]]
  /\ UNCHANGED <<preparing, cookie, batches, batch, selected>>
Timeout(i) ==
  /\ downloads[i].timer
  /\ downloads' = [downloads EXCEPT ![i] =
       IF preparing THEN [asked |-> FALSE, polls |-> FALSE, timer |-> FALSE] ELSE [@ EXCEPT !.timer = FALSE]]
  /\ preparing' = FALSE
  /\ UNCHANGED <<cookie, batches, batch, selected>>

-----------------------------------------------------------------------------
(* A selection *)

\* The loop's first file; after the last one, whatever is selected then is not any more.
DownloadSelectedBatch ==
  /\ ~preparing /\ selected > 0 /\ Len(batches) < MaxBatches
  /\ batches' = Append(batches, [at |-> 1, of |-> selected, frames |-> 1, ended |-> FALSE])
  /\ batch' = [active |-> TRUE, total |-> selected, current |-> 1]
  /\ selected' = IF selected = 1 THEN 0 ELSE selected
  /\ UNCHANGED <<preparing, cookie, downloads>>
BatchStep(i) ==
  LET b == [batches[i] EXCEPT !.at = @ + 1, !.frames = @ + 1] IN
  /\ batches[i].at < batches[i].of
  /\ batches' = [batches EXCEPT ![i] = b]
  /\ batch' = [batch EXCEPT !.current = b.at]
  /\ selected' = IF b.at = b.of THEN 0 ELSE selected
  /\ UNCHANGED <<preparing, cookie, downloads>>
\* Two seconds after the last file.
BatchEnds(i) ==
  /\ batches[i].at = batches[i].of /\ ~batches[i].ended
  /\ batches' = [batches EXCEPT ![i].ended = TRUE]
  /\ batch' = [batch EXCEPT !.active = FALSE]
  /\ UNCHANGED <<preparing, cookie, downloads, selected>>
FrameAnswered(i, ok) ==
  /\ batches[i].frames > 0 /\ batches' = [batches EXCEPT ![i].frames = @ - 1]
  /\ cookie' = (cookie \/ ok)
  /\ UNCHANGED <<preparing, downloads, batch, selected>>
SelectFiles(n) ==
  /\ ~preparing /\ n # selected /\ selected' = n
  /\ UNCHANGED <<preparing, cookie, downloads, batches, batch>>

-----------------------------------------------------------------------------
DownloadsNext ==
  \/ StartDownload \/ CookieExpires \/ DownloadSelectedBatch
  \/ \E i \in DOMAIN downloads :
       Timeout(i) \/ CookieSeen(i) \/ \E ok \in BOOLEAN : DownloadAnswered(i, ok)
  \/ \E i \in DOMAIN batches :
       BatchStep(i) \/ BatchEnds(i) \/ \E ok \in BOOLEAN : FrameAnswered(i, ok)
  \/ \E n \in 1..MaxSelected : SelectFiles(n)

DownloadsTypeOK ==
  /\ Len(downloads) <= MaxDownloads /\ Len(batches) <= MaxBatches
  /\ batch.total \in 0..MaxSelected /\ batch.current \in 0..MaxSelected
  /\ selected \in 0..MaxSelected
  /\ \A i \in DOMAIN batches : batches[i].at \in 1..batches[i].of /\ batches[i].frames <= batches[i].at

\* The layer over the page and the notice of a selection go away again, whatever the server
\* answers and however the downloads' cookies and timeouts meet.
OverlayEnds == (preparing ~> ~preparing) /\ (batch.active ~> ~batch.active)
=============================================================================
