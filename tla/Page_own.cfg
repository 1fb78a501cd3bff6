SPECIFICATION Spec
CONSTANTS
  t1 = t1
  t2 = t2
  i1 = i1
  i2 = i2
  c1 = c1
  c2 = c2
  b1 = b1
  b2 = b2
  p1 = p1
  p2 = p2
  Tracks = {t1, t2}
  Lists <- MCLists
  MaxOpening = 2
  MaxPlayerOps = 4
  Images = {i1, i2}
  Shows <- MCShows
  MaxBoxOps = 4
  Comics = {c1, c2}
  ComicPages <- MCComicPages
  MaxComicOps = 4
  Books = {b1, b2}
  Spine <- MCSpine
  MaxEpubOps = 4
  Pdfs = {p1, p2}
  PdfPages <- MCPdfPages
  MaxPdfOps = 4
  Users = {u1, u2}
  Keys = {k1}
  MaxDialogOps = 3
  Switches = {webdav, s3}
  Tokens = {a, b}
  MaxRows = 3
  Logos = {l1, l2}
  Urls = {v1, v2}
  MaxSettingsOps = 6
  MaxDownloads = 2
  MaxBatches = 2
  MaxSelected = 2
INVARIANT TypeOK
 
INVARIANT OneTimer
INVARIANT AnswersOwn
PROPERTY EpubKeepsBook
PROPERTY ConfirmedOnly
PROPERTY OverlayEnds
\* the user has done all he does
CHECK_DEADLOCK FALSE
