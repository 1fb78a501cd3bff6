# TeleCloud / MernorCloud in TLA+

The program (Go server, browser client) keeps files as messages of a Telegram
group and their names, folders and message ids in SQL tables.  The bytes and
the tables live in two places that no transaction spans; uploads run as chains
of goroutines; the browser resumes an upload after it, the network or the
server was interrupted.  The page that shows all this is a program of its own:
one object whose dialogs, lists and viewers are changed by the user, by timers and
by answers that come late.  These modules model that core and that page, TLC checks
them on small instances, and TLAPS proves the safety of it for every instance.

## The system

| Part | State | Operations | Talks to |
|---|---|---|---|
| File store (`database/db.go`, `api/handlers_files.go`) | `files`, `file_parts`, insert mutexes | paste, rename, trash, restore, empty trash, delete for good, start-up deduplication | Telegram (`DeleteMessages`), uploads |
| Complete upload (`tgclient/uploader.go`) | a placeholder row, parts sent | pick a name under the lock, insert, send parts, finalize or clean up | file store, registry, Telegram |
| Task registry (`tgclient/uploader.go`) | `UploadTasks`, `TaskCancels`, two semaphores, one-hour timers | report, register, cancel, expire | handlers, every worker, web socket |
| Chunked upload (`handlePostUpload`, `script.js`) | tracker, temp file, `upload_tasks`, `upload_chunks`, the page's queue and poll | chunk, check, cancel, poll, hourly clean-up | registry, complete upload |
| Download and streaming (`tgclient/downloader.go`) | block cache (LRU), prefetch window per reader, global semaphore, the reader of the next part | read, seek, prefetch, open a part, close, refresh a file reference | bot pool |
| Transfers of the page (`script.js`) | `uploadQueue`, poller, countdowns, upload sessions | add, cancel, retry, socket message, poll, restore the list | registry, chunked upload |
| File browser of the page | rows, selection, clipboard, picker, dialogs, debounce timer | load, navigate, rename, delete, paste, share, trash | file store |
| Viewers and panels of the page | player, image viewer, comic, book and PDF readers; dialogs, users, settings, downloads | open, close, turn, zoom; ask, answer, save | streaming, settings handlers |
| Bot pool (`tgclient/client.go`) | bots, cooldowns, debounced confirmations | pick, cool down, update, forwarded file | Telegram, file store |
| Folder tree (`api/handlers_files.go`) | path prefixes of rows | paste, rename, delete, restore of folders | file store |
| S3 and WebDAV gateways (`s3/`, `webdav/`) | temp files of open writers | put, copy, delete, rename | complete upload, file store |
| Sessions, passkeys, shares (`api/`, `database/sessions.go`) | session rows, rate limits, tokens | login, logout, share | file store |
| Web-socket hub (`ws/hub.go`) | clients, channels | register, broadcast | registry |
| Torrent, yt-dlp (`tgclient/torrent.go`, `ytdlp.go`) | external processes | download, then complete upload while holding the download slot | registry |
| Backup, restore (`tgclient/backup.go`, `restore.go`) | snapshots | rotate, replace the database | bot pool |
| Archive readers, thumbnails, settings, setup, crypto, configuration | caches and rows | pure functions and I/O | file store |

`PROJECT.json` lists every part with its status, and the hazards of each at the
line where they bite.  What makes these parts correct:

* *File store*: a file is whole or an empty placeholder; a message is deleted
  only when no file needs it; names of active files are unique; done means
  stored; no message is left without an owner.
* *Registry*: a status says what happened; a cancel request stops the worker;
  slots come back; the maps do not keep dead workers.
* *Chunked upload*: what is stored is the file that was sent, through any
  interruption; the page is told the truth, and does not wait for an upload nobody works on.
* *Download*: bytes in order after any seek; slots and readers given back; the
  prefetch buffer within its window.
* *Page*: it shows what is, or was, true on the server: rows of the folder it names,
  done for what is stored, cancelled for what was cancelled, in a viewer nothing of
  another file; it does what was confirmed and nothing else; it never waits for ever
  behind its own layer.
* *Folders*: children follow their folder.  *Gateways*: the promises of their
  protocols over the file store.  (Not yet modelled.)

The hard behaviours are interleavings: handlers read, compute and write in
separate statements, two maps are updated by goroutines that outlive a retry
under the same id, chunk rows are written by goroutines nothing orders, and
the server may restart between any two of these steps.  In the page every `await` and
every timer is such a gap: what runs after it finds another folder, another file in
the viewer or another entry under the same id.

## Modules

| Module | Models | Actions |
|---|---|---|
| `FileStore` | rows, part messages, uploads, user operations, purges, restarts | one per statement or transaction of the code |
| `UploadTasks` | task map, cancel map, semaphores, timers, three kinds of worker | one per critical section or wait |
| `ChunkUpload` | one task id: client, requests, tracker, temp file, rows, the upload's view of the file | one per handler step between two shared accesses |
| `Library` | what the file store promises a reader; `FileStore` implements it, three cases apart | four |
| `TaskPromise` | what the registry promises a client that looks at a task; `UploadTasks` implements it | five |
| `TransferList` | the list of transfers of a page, with an abstract server | one per callback or stretch between awaits |
| `Browser` | the file browser of a page, with the handlers it calls | the same |
| `Player`, `Lightbox`, `Comic`, `Epub`, `Pdf` | the viewers of a page | the same |
| `Dialogs`, `Settings`, `Downloads` | its dialogs and users, its settings, its downloads, with the handlers they call | the same |
| `Page` | the eight modules above together | their actions |
| `Prefetch`, `PartReader` | the readers of one message and of several | one per step between locks, channels and requests |
| `Reader` | the two together, as `GetTelegramFileReader` chooses | their actions |
| `FileStoreProofs`, `FileStoreSafety` | theorems about `FileStore`: its invariant, and what follows | |
| `UploadTasksProofs`, `ChunkUploadProofs`, `TransferListProofs`, `BrowserProofs` | theorems about the module each extends | |
| `ReaderProofs` | theorems about `Reader`, and so about `Prefetch` and `PartReader` | |
| `PageProofs` | theorems about `Page`, and so about the viewers and panels | |
| `MC...` | constants, symmetry and small instances for TLC | |

**FileStore.**  `file` maps ids to rows; `head` is `message_id` (empty when
NULL), `parts` the rows of `file_parts`.  A message is named by the upload and
part that sent it.  A name is a base name and the counter of `"base (k)"`.
`pc[u]` follows `ProcessCompleteUpload`: `idle` → `Begin` (look up the file to
overwrite) → `LockAndPick` → `InsertPlaceholder`, or `InsertRefused` by the
unique index → `SendPart` → `Finalize`, one of its failures, or the deferred
`Cleanup`.  A purge is select, compute orphans, delete rows and messages, in the
order of its handler (`MessagesFirst` for emptying the trash, rows first
elsewhere).  `DeleteMessages` runs in goroutines: `pendingDel` holds what was
handed to it, and it may fail.  `Crash` ends every goroutine and runs the
start-up deduplication.  Transactions are atomic: the read-write pool of SQLite
has one connection.  A `RODB` read sees the committed state.  `Library` is what a reader
may rely on: a file appears with all bytes of one upload, alone or in place of another, in
one step; it keeps them and they can be read; it is taken away in one step.  The refinement
maps the shelf to the rows with a `message_id` that no purge has begun to delete (of a trash
being emptied the messages go first, so its rows count as gone from then on), and the media
to the messages nobody is deleting; a placeholder is not on the shelf.  `KeepsLibrary` says
that every step is one of the library's, until one of the three cases of `Exempt` has
happened.

**UploadTasks.**  A worker of kind `complete` runs `ProcessCompleteUpload`,
`remote` streams a URL (holding its download slot while it waits for an upload
slot, as torrent and yt-dlp downloads do), `buffered` downloads to disk and
hands over to another goroutine.  `Report` is `UpdateTaskWithFile` with its guard
on terminal statuses, `Record` the unguarded `UpdateTaskWithFileID`.  A retry
starts a worker under the same task id.  `TaskPromise` is what a client may rely on:
a task runs, then shows its end; done is shown for stored files only; what is done or
cancelled does not run again without being forgotten first, while a failed task may, when it
is retried.  (The code never lets it: `UploadTasks_retry`.)  The refinement maps what a client
sees to the status of the task map, and stored files to the files that were stored;
every step of the registry is then a step of the promise or changes nothing a client
sees (`KeepsPromise`).

**ChunkUpload.**  A request names the `chunkState` and the inode it creates, so
that a state or a file that was replaced is told apart from the one that is
current.  `Mark` is the critical section of `handlePostUpload`; the goroutines
that insert and delete rows are separate actions in any order.  The page
(`client`, `todo`) retries lost chunks and polls the task; `PollShows` is
`registerTaskPoll`, which takes a missing task for a finished one.  After ten minutes the poller
gives up (`GivesUp`) and the page goes on showing the task as running; an hour after each
terminal report the entry is removed (`Forget`), whatever it says by then.  `MinutesPass`
tells when such times can pass: no handler and no goroutine takes minutes for a step, while
a chunk on its way and an upload to Telegram may.  A set of `Mixes` names the kinds of
events that may happen together in one behaviour: a lost answer, a failing upload, sending
the file again, leaving, expiry, an entry forgotten, a cancellation, an orderly restart, a
crash.

**TransferList.**  `entry[t]` is the entry of `uploadQueue` with id `t`: its status and
flags as the code keeps them, its progress in three levels, `origin` for what a retry
starts again.  Everything that writes entries is here: `onmessage`, `fetchActiveTasks`,
the poller with its count of missed polls and its limit of ten minutes (a task it has
dropped then is `Overdue`), the countdowns (which go on for an entry that
is gone, `stray`), the sessions of `uploadSingleFile` with their workers, and the user.
The server is its status map, the chunks it has and a run of each task; `wire` holds the
messages of the socket, sent by one goroutine each, so that they arrive in any order, and
lost when the socket closes.

**Browser.**  `disk` is the server; `files` are the rows of the page.  Operations are sent
(after their dialog), served or refused, and answered or lost; the page changes its rows
before or after, as each function does, and refreshes them through `fetchFiles(true)` with
its debounce timer and the guard of `_doFetchFiles`.  `Serve` gives what the handlers of
delete, rename, paste, folders, trash and share links do to one user's items.  A folder
has one level.

**Page.**  `Player` opens a track in two halves, the modal at once and the player 50 ms and a
script later, and resets 300 ms after closing.  `Lightbox` has the slide show, whose
interval is null, a timer or `"waiting"`.  `Comic`, `Epub` and `Pdf` load a list, a table of
contents or a document, keep the place in local storage, and reset 400 ms after closing; the resets of
the last two do not look at what is shown, so `hasty` marks a reader that was opened while one
was due.
`Dialogs` has the one dialog with its resolver, the operations that await it, users,
passkeys, API key, restart and restore; users may have been deleted on another page since
the list was read, and the reset of such a user's password succeeds in vain (`InVain`).  `Settings` has switches, bot tokens, branding and
the video look-up; `Downloads` the hidden frames, the cookie and the waiting layer.  Pixels,
gestures and formats are left out, what they change is kept.  They share no variable, so
`Page` lets each behaviour use one of them (`front`): a property that holds for each holds
for all, and their state spaces add up instead of being multiplied.

**Prefetch, PartReader, Reader.**  `Prefetch` is `tgFileReader`: `at` and `held` are the
chunks of `offset` and `chunkData`, `job` the goroutines of `triggerPrefetch` with the
generation they began in, `own` and `budget` the slots of the two semaphores.  `PartReader`
is `multiPartReader`: `current` says which part the reader reads and how far it is, `next`
the reader opened ahead, `ahead` the goroutines that open one.  A fetch or an opening
succeeds or fails at any time.

## Runs

All runs disable the deadlock check: uploads, requests, streams and bounded user
operations come to an end, so a last state is legitimate.

| Run | Checks | Instance |
|---|---|---|
| `FileStore_sqlite` | `IInv` (with `TypeOK`), `RowsWhole`, `DoneStored`, `NoLeak`, `NoDangling`, `RefsWriteOnce`, `OverwriteKeepsOne`, `KeepsLibrary` (refinement) | unique index; two uploads (1 or 2 parts, or overwriting with 2), one purge, three rows, three user operations, one failure of any kind |
| `FileStore_mysql` | `UniqueActive`, `PlaceholderResolves` (fair) | no index; two uploads, two directories, two base names, three operations, a failing commit |
| `UploadTasks_registry` | `TypeOK`, `NoStaleCancel`, `KeepsPromise` (refinement), `CancelReaches`, `EveryWorkerEnds` (fair) | two workers of any kind and a retry, two cancel requests, one slot of each kind |
| `ChunkUpload_resume` | `TypeOK`, `FirstWhole`, `CheckTruthful`, `OncePerState`, `DoneIsStored`, `WaitsForSomebody` | two chunks, three requests, two sessions; one kind of event, repeated at will, or a pair: a failure or the file sent again with entries forgotten, a cancellation with expiry |
| `TransferList_list` | `TypeOK`, `ShownDoneStored`, `CancelHolds`, `PollSettles` (fair) | one task, a file of two chunks or a download, two sessions, three operations, two messages on the socket |
| `Browser_rows` | `TypeOK`, `ShowsItsFolder`, `QuietIsCurrent`, `SelectionShown` | a folder, a file and an item to be made, one row on a page, three operations |
| `Page_own` | `TypeOK`, `ShowsItsOwn`, `OneTimer`, `AnswersOwn`, `EpubKeepsBook`, `ConfirmedOnly`, `OverlayEnds` (timers) | two files of each kind, two users and a key, two switches, two tokens; four operations in a viewer, three in the dialogs, six in the settings, two downloads |
| `Reader_streams` | `TypeOK`, `BufferInWindow`, `GivesBack`, `ReadsOwnPart` | one message of three chunks, two ahead, two seeks; three parts of sizes 2, 2 and 1, two seeks |

The bounds: two uploads and one purge are the fewest actors among which every
read-then-write gap of the file store can be entered by somebody else, two
parts the fewest for which a file can be partly sent, three operations the
fewest for trash, select, restore.  One slot makes every wait of a semaphore
happen with two workers.  Two chunks are the fewest with a first and a last;
three requests allow one chunk to be sent twice.  Two messages are the fewest that
overtake each other; three operations allow adding, cancelling and starting again, or
changing, leaving and coming back.  Two files are the fewest for one that was closed and
one that is open; four operations open, close, and do it again.  Two tokens in three rows
allow a row to be edited while another is being saved.  Three parts are the fewest for a
part that is opened late and one it is mistaken for; the last is no longer than the
threshold.  `MaxRows`, `MaxSuffix`,
`MaxTries`, `MaxOps`, `MaxFaults`, `MaxCancels`, `MaxSessions` and `Mixes`
bound what the code does not; a user leaves the page only before the last
session and cancels once.  Symmetry is used where only safety is checked.

Four runs show the code disagree with what it or its documentation says; each checks
one property and is expected to violate it:

| Run | What happens |
|---|---|
| `FileStore_dedup` | a restart deletes an active file whose name an older row in the trash has |
| `UploadTasks_retry` | the progress of a retry is refused by the guard whose comment says that it is let through |
| `ChunkUpload_expire` | the clean-up removes the temp file but neither tracker nor rows: the resumed file has a hole |
| `Reader_parts` | a part that was opened ahead too late is served in place of the next one |

These properties are stated in the modules, no run checks them, and the code does not have
them.  The passing properties set their cases apart:

| Property | What happens |
|---|---|
| `FileStore`: `SharedMessagesKept` | a copy made between the orphan query and the deletion loses its messages |
| `FileStore`: `DoneMeansStored` | of two overwriting uploads one is reported done with nothing stored: the refused UPDATE is ignored |
| `UploadTasks`: `CancelStops` | a cancellation between the download and the upload of one task is lost |
| `ChunkUpload`: `DoneMeansStored` | after a restart the page shows an upload as done that was never stored; so it does without one, when an upload failed, late rows say that its chunks are there, and the file is sent again after its entry was removed |
| `TransferList`: `RemovesOnlyDone` | the countdown of an entry that was replaced takes the new upload off the list |
| `Browser`: `RefreshMade` | a silent refresh that falls into a running load is dropped |

The passing properties name the gaps they leave, in their first lines: copies
where somebody deletes as well, emptying the trash across a restart and a failing commit of
an overwrite (`NoDangling`, `KeepsLibrary`); failures and deletions during an upload
(`NoLeak`); overwrites, whose UPDATE may be refused (`RowsWhole`,
`DoneStored`); renaming, which takes no lock (`UniqueActive`); a temp file that
cannot be opened (`PlaceholderResolves`); a retry whose cancel function the
first worker deletes (`CancelReaches`); an expired temp file and a second
upload of the same task, where a row inserted late lies (`FirstWhole`); restarts,
cancellations, and uploads that failed and were forgotten (`DoneIsStored`); a crash
between answering a chunk and inserting its row, after which client and server
wait for each other, and rows deleted by a cancellation or late purge after the next session
was told of them (`WaitsForSomebody`); files sent twice and restarts (`ShownDoneStored`); an
error that a late message clears, and a transfer that outlasts the poller's ten minutes
(`PollSettles`); a book or PDF reader opened within 400 ms of closing (`ShowsItsOwn`); the
password issued for a user that is gone (`AnswersOwn`); loads and requests that were lost or
dropped (`ShowsItsFolder`, `QuietIsCurrent`, `SelectionShown`); a part opened ahead after
`Read` had begun to open it (`ReadsOwnPart`).  The code does reach a bad state in each.  No
property speaks of the late failure of an earlier comic or PDF, which closes the one that is
shown, nor of what the painter of an overtaken page leaves on the canvas; both are
modelled.

**Fairness.**  `FairSpec` gives weak fairness to the steps of goroutines that
hold no lock others can keep for ever: the Go scheduler runs what is runnable,
mutexes and semaphores are handed on, and every call to Telegram is bounded by
attempts and time limits.  In `TransferList` the page's requests are answered or fail in
finite time and its timers fire, and the server's runs go on; the socket owes nothing.  In
`Page` the timers of downloads fire.  `ChunkUpload` claims no liveness: its poller may give
up, so that what it has instead is an invariant, `WaitsForSomebody`.  Users, failures,
cancellations, retries and the server's timers have none.  A semaphore needs weak fairness only, since in these instances
nobody takes slots for ever.

## Proofs

Every invariant and every action property that a passing run checks is a theorem
(`WaitsForSomebody` excepted), and so are the refinements of `TaskPromise` and of `Library`: they hold for every value of the
constants, where the runs show them for one.  The bounds on what users and failures do (`MaxOps`,
`MaxFaults`, ...) are arbitrary naturals in the theorems.

| Module | Theorems (and the property, where a run checks it) |
|---|---|
| `FileStoreProofs` | `TypeCorrect`, `Invariant` (`IInv`), `PurgeListsSound`, `MessagesSettledOnce` (`RefsWriteOnce`) |
| `FileStoreSafety` | `RowsAreWhole` (`RowsWhole`), `DoneIsStored` (`DoneStored`), `NothingLeaks` (`NoLeak`), `NothingDangles` (`NoDangling`), `NamesAreUnique` (`UniqueActive`), `OverwritesKeepOne` (`OverwriteKeepsOne`), `FilesAreWhole`, `StoreKeepsLibrary` (`KeepsLibrary`), `StoreIsLibrary` |
| `UploadTasksProofs` | `TasksTypeCorrect`, `TasksInvariant`, `SlotsComeBack`, `CancelsAreFresh` (`NoStaleCancel`), `CancelIsHeard` (`CancelReaches`), `RegistryKeepsPromise` (`KeepsPromise`) |
| `ChunkUploadProofs` | `ChunkTypeCorrect`, `ChunkInvariant`, `OneUploadPerState` (`OncePerState`), `FirstUploadIsWhole` (`FirstWhole`), `CheckTellsTheTruth` (`CheckTruthful`), `DoneMeansIsStored` (`DoneIsStored`) |
| `ReaderProofs` | `ReaderTypeCorrect`, `BufferFollowsSeeks` (`BufferInWindow`), `AllIsGivenBack` (`GivesBack`), `PartsAreReadInOrder` (`ReadsOwnPart`) |
| `TransferListProofs` | `ListTypeCorrect`, `ListInvariant`, `CancelIsKept` (`CancelHolds`), `DoneShownIsStored` (`ShownDoneStored`) |
| `BrowserProofs` | `BrowserTypeCorrect`, `RowsOfThePath` (`ShowsItsFolder`), `QuietListIsCurrent` (`QuietIsCurrent`), `SelectionIsShown` (`SelectionShown`) |
| `PageProofs` | `PageTypeCorrect`, `PageInvariant`, `ViewersShowTheirs` (`ShowsItsOwn`), `SlideShowHasOneTimer` (`OneTimer`), `AnswersAreOwn` (`AnswersOwn`), `BookIsKept` (`EpubKeepsBook`), `OnlyConfirmedGoOn` (`ConfirmedOnly`) |

**Assumptions.**  Each module names one assumption on its constants, which TLC evaluates in
every run.  Beyond types they say what the code sees to: a file has at least one chunk
(`totalChunks`, `script.js:3496`), at least one part, and the parts are numbered from 0; the
id a folder has while it is being created is no item's (`script.js:2723`); what stands for
"nothing" is nothing; the sets whose members are counted or listed (tasks, chunks of a
transfer, items, users, passkeys, tokens) are finite; the rows of the bot form have room for
the tokens that are there when it opens.  Uploads, names, workers, requests, tracks, books
and the like may be any sets.

**The arguments.**  None of the properties is inductive.  What has to be added in each case:

* *File store.*  `PurgeListSound`, that a purge's list of messages names none that a row
  outside the purge refers to, fails by itself: an upload could finish with a message that
  is already on a list.  `IInv` adds why it cannot: a placeholder belongs to one upload
  (`OwnPlaceholder`) and refers to nothing while the upload sends (`PlaceholderEmpty`), and
  no row and no list knows a message of an upload that has not ended (`FreshMessages`).
  Most actions give no row new messages and change no list: `QuietStep` disposes of them
  together.  That `UniqueSuffix` picks a free number is `LeastNumber`, from the
  well-foundedness of the naturals.
* *No file loses its messages.*  `DInv` adds to `IInv` what a purge may hold at each of its
  steps (`PurgeHonest`), that only messages of uploads that ended are deleted
  (`DeletesEnded`), that those of an upload under way are in Telegram (`SentThere`), and that
  the lists are exact for rows inserted since too (`ListsExact`), which copies would break.
  *No message is leaked*: `ShelteredInv`, every message in Telegram is one its upload
  remembers.  *Names*: `NameHeld`, a name picked under the lock stays free until it is
  inserted.  *Overwriting*: `SwapInv`, the file to be replaced keeps the name with no number,
  and the placeholder has another one.
* *The library.*  A row that has messages has all of one upload (`FilesAreWhole`, overwrites
  included, where `RowsWhole` leaves them out: only a `message_id` makes a file).  Then each
  kind of step is one of the library's: a copy or a finalization puts one file on the shelf
  (`InsertShelf`, `FinalizeShelf`), all others at most take some away (`ShelfShrinks`), since
  a row being purged stays so until it is gone (`DoomedStay`); and `DInv` lets what is there
  be read.  `StoreIsLibrary` turns the three cases into conditions on the constants (`Spared`:
  no copies where somebody deletes for good, no restart where the trash is emptied, no
  failing commit where uploads overwrite), under which the store implements `Library` outright.
* *Registry.*  Slots belong to the places where they are held; `done` is reported after the
  commit; the cancel function of a worker that alone serves its task is registered or has
  been called (`LoneRegistered`).  The refinement takes `Init`, then each action in turn:
  a progress report that comes late is refused by the guard on ended tasks, `done` is
  reported for a stored file (`StoredFirst`), a timer forgets the entry, and what does not
  change a status or store a file stutters.
* *Chunked upload.*  Before the first upload, whatever counts as received, in memory, in a
  row or in a goroutine about to insert one, is in the temp file (`BeforeStart`), and an
  upload that is the only one reads a whole file (`OnlyOne`).  A state that has started an
  upload is out of the tracker, and every request that still shares it sees that
  (`StatesUsed`).  The page takes a missing task for a finished one; it is right because a
  task the server does not show has received nothing (`Untouched`), as nothing is removed
  before something was stored: without a failure no entry is terminal by then (`Unfailed`).
* *Readers.*  `inflight` and the goroutines name each other (`Entries`), a fetch of the
  current generation lies in the window and is not in the buffer (`Fetches`), `Read` does not
  touch a chunk that is on its way (`WhereRead`), and slots are counted by cardinalities.
  `InOrder` ties `offset` to the part and the position in it, and says what a reader opened
  ahead means in each step of a call.  The offsets of parts of any number and sizes
  (`StartOf`) are ordered by well-founded induction over sets.
* *Transfers.*  Whoever says done is right (`DoneSaid`), what the page hears of has a status
  on the server (`HeardOf`), and the poller asks about a file that was sent once only when
  the server has heard of it, or the next tick drops it (`PollInv`).
* *Browser.*  `RowsInv`: while no load is due and no request will ask for one, the rows, and
  the answer on its way, have the ids and names of the server.  `SharesInv` follows the links
  apart, as they change the rows without a load.
* *Page.*  Each viewer and panel has an invariant over its own variables; `ViewerSteps` and
  `PanelSteps` show that a step of the page is one of theirs that leaves the others alone.
  `AsksInv` counts: operations have ids of their own, and since the user does one thing for
  each, one is left for the next.

**What the proofs changed in the model.**  Two definitions of `Comic` had a CASE with
overlapping guards, of which TLA+ leaves the value open; they are nested conditions now, in
the order of the code.  The gap `NoDangling` leaves for copies is smaller: it needs a purge as well.

**Only model-checked.**  Liveness (`PlaceholderResolves`, `EveryWorkerEnds`,
`PollSettles`, `OverlayEnds`), since the prover has neither fairness nor ENABLED at its
disposal; `WaitsForSomebody`, whose induction has to follow every chunk through the sessions
that were told of it; and that the four violations happen, which one behaviour shows.

## Not modelled, and the plan

Left out for good: request parsing, encryption, image and archive formats, request
signing, the terminal pages.  What the present modules abstract: sizes, thumbnails,
progress values, the choice of bot and the retries inside `uploadFilePart`, several
owners, folders below folders.  `InitUploader` runs once.  Of the page: gestures, pixels
and wording; the dialog for name collisions in `uploadFiles`; the list of shared links; the
login page.  `shareApp` and `shareFileApp` (the second
half of `script.js`) hold copies of the viewers and of the player for visitors of a share
link; the modules are written from the copies in `cloudApp`, and only those lines are mapped.

In this order:

1. `FolderTree`: rows with paths, several owners; paste, rename, delete, restore of
   folders; children follow, nothing active below a trashed folder, orphans of a
   prefix.
2. `BotPool`: cooldowns, fallback, updates of the pool, the debounced confirmation
   and the retries of a part.
3. `Gateways`: S3 and WebDAV operations as clients of the file store.
4. `Sessions`, `Hub`: sessions and shares, registration and slow clients.
5. An abstract `Mailbox` of once-only delivery for the chunk upload.
6. Proofs of the safety of what 1 to 5 add.
