---------------------------- MODULE ChunkUpload ----------------------------
(***************************************************************************)
(* Chunked, resumable uploads to the server: handlePostUpload,             *)
(* handleGetUploadCheck and handleCancelUpload for ONE task id, the client *)
(* that drives them, the temp file, and the tables upload_tasks and        *)
(* upload_chunks that let an upload survive a restart.                     *)
(*                                                                         *)
(* The client derives the task id from the name, size and time of the file *)
(* (script.js), so sending the same file again uses the same id, the same  *)
(* temp path and the same rows.  A request names the chunkState and the    *)
(* inode it creates; several requests run at once.                         *)
(***************************************************************************)
EXTENDS Naturals, FiniteSets

CONSTANTS
  Chunks,       \* chunk indices of the file
  Requests,     \* POST /api/upload requests, each used once
  Mixes,        \* bound: the kinds of events that may happen together in one behaviour
  MaxSessions,  \* bound on uploadSingleFile runs
  Concurrency,  \* chunks in flight at once (3 in the client)
  Nothing       \* no state, no file

AllEvents ==
  {"lost", "fail", "again", "leave", "forget", "expire", "cancel", "restart", "crash"}

ASSUME ConstantsOK ==
  /\ Nothing \notin Requests
  /\ Chunks # {}                    \* totalChunks is at least 1 (script.js)
  /\ Mixes \subseteq SUBSET AllEvents
  /\ MaxSessions \in Nat
  /\ Concurrency \in Nat \ {0}

VARIABLES
  client,     \* what the page shows of the task
  todo,       \* chunks the client still has to send
  session,    \* runs of uploadSingleFile so far
  req,        \* the requests
  tracker,    \* chunkTrackerSync: the current chunkState of the task
  received,   \* chunkState.received
  started,    \* chunkState.uploadStarted
  created,    \* chunkState.dbCreated
  temp,       \* inode at the temp path
  bytes,      \* chunks whose bytes an inode has
  taskRow,    \* upload_tasks has the task
  chunkRows,  \* upload_chunks of the task
  up,         \* the ProcessCompleteUpload goroutine a request started
  reads,      \* the inode it reads
  task,       \* status of the task in memory, as GET /api/tasks shows it
  timers,     \* one-hour timers of scheduleTaskCleanup that have not fired
  stored,     \* files committed: [by, content]
  starts,     \* uploads started: [by, state, session]
  cancelPc,   \* the next step of handleCancelUpload
  seen        \* kinds of events that have happened

trackerVars == <<tracker, received, started, created>>
disk == <<temp, bytes>>
rows == <<taskRow, chunkRows>>
uploads == <<up, reads, task, timers, stored, starts>>
clientVars == <<client, todo, session>>
env == <<cancelPc, seen>>
vars == <<clientVars, req, trackerVars, disk, rows, uploads, env>>

FreeRequest == [pc |-> "free", chunk |-> Nothing, state |-> Nothing, ino |-> Nothing,
                session |-> 0, lost |-> FALSE,
                insertTask |-> FALSE, insertChunk |-> FALSE, purge |-> "none"]

Init ==
  /\ client = "new" /\ todo = {} /\ session = 0
  /\ req = [r \in Requests |-> FreeRequest]
  /\ tracker = Nothing
  /\ received = [r \in Requests |-> {}]
  /\ started = [r \in Requests |-> FALSE]
  /\ created = [r \in Requests |-> FALSE]
  /\ temp = Nothing
  /\ bytes = [r \in Requests |-> {}]
  /\ taskRow = FALSE /\ chunkRows = {}
  /\ up = [r \in Requests |-> "none"]
  /\ reads = [r \in Requests |-> Nothing]
  /\ task = "absent" /\ timers = 0
  /\ stored = {} /\ starts = {}
  /\ cancelPc = "idle"
  /\ seen = {}

Happens(e) ==
  /\ seen' = seen \cup {e}
  /\ \E m \in Mixes : seen' \subseteq m

Move(r, to) == req' = [req EXCEPT ![r].pc = to]

-----------------------------------------------------------------------------
(* The client *)

\* handleGetUploadCheck: the tracker's chunks, else those of the tables.
CheckAnswer == IF tracker # Nothing THEN received[tracker]
               ELSE IF taskRow THEN chunkRows ELSE {}

Busy == {r \in Requests : req[r].pc \notin {"free", "over"}}
InFlight == {r \in Busy : req[r].session = session /\ ~req[r].lost}
Shown == {"sending", "polling", "unsettled"}   \* the page shows the task as running

\* uploadSingleFile asks what the server has and queues the rest.
StartSession ==
  /\ session < MaxSessions /\ "cancel" \notin seen   \* bounds
  /\ \/ client \in {"new", "failed"} /\ UNCHANGED seen
     \/ client = "done" /\ Happens("again")
  /\ session' = session + 1
  /\ todo' = Chunks \ CheckAnswer
  /\ client' = "sending"
  /\ UNCHANGED <<req, trackerVars, disk, rows, uploads, cancelPc>>

\* Every chunk is answered for: registerTaskPoll.
AllSent ==
  /\ client = "sending"
  /\ todo = {} /\ InFlight = {}
  /\ client' = "polling"
  /\ UNCHANGED <<todo, session, req, trackerVars, disk, rows, uploads, env>>

\* The poller: a task that the server does not have (in two polls) counts as done.
PollShowsTerminal(s) == IF s = "running" THEN "polling" ELSE "done"   \* a mutant
PollShows(s) == IF s \in {"done", "absent"} THEN "done"
                ELSE IF s \in {"error", "cancelled"} THEN "failed" ELSE "polling"
Poll ==
  /\ client = "polling"
  /\ client' = PollShows(task)
  /\ UNCHANGED <<todo, session, req, trackerVars, disk, rows, uploads, env>>

Pending(r) == req[r].insertTask \/ req[r].insertChunk \/ req[r].purge # "none"
Running(r) == up[r] \in {"queued", "open", "removing"}

\* No step of a request or of a goroutine takes minutes; a chunk on its way and an upload may.
MinutesPass ==
  /\ cancelPc = "idle"
  /\ \A r \in Requests :
       req[r].pc \in {"free", "sent", "over"} /\ ~Pending(r) /\ up[r] # "removing"

\* POLL_TIMEOUT: after ten minutes the poller drops the task, whatever has become of it.
\* The page goes on showing it as running.
GivesUp ==
  /\ client = "polling"
  /\ MinutesPass
  /\ client' = "unsettled"
  /\ UNCHANGED <<todo, session, req, trackerVars, disk, rows, uploads, env>>

Send(r, c) ==
  /\ client = "sending"
  /\ req[r].pc = "free"
  /\ c \in todo
  /\ Cardinality(InFlight) < Concurrency
  /\ todo' = todo \ {c}
  /\ req' = [req EXCEPT ![r].pc = "sent", ![r].chunk = c, ![r].session = session]
  /\ UNCHANGED <<client, session, trackerVars, disk, rows, uploads, env>>

\* The connection breaks while the server works on: the client sends the chunk again.
LoseAnswer(r) ==
  /\ Happens("lost")
  /\ client = "sending"
  /\ r \in InFlight
  /\ Cardinality({x \in Requests : req[x].pc = "free"}) > Cardinality(todo) \* a bound
  /\ req' = [req EXCEPT ![r].lost = TRUE]
  /\ todo' = todo \cup {req[r].chunk}
  /\ UNCHANGED <<client, session, trackerVars, disk, rows, uploads, cancelPc>>

\* The page is closed; the user comes back later.
Leave ==
  /\ session < MaxSessions                           \* a bound
  /\ Happens("leave")
  /\ client \in Shown
  /\ client' = "failed"
  /\ todo' = {}
  /\ UNCHANGED <<session, req, trackerVars, disk, rows, uploads, cancelPc>>

-----------------------------------------------------------------------------
(* handlePostUpload *)

\* LoadOrStore publishes an empty state if there is none.
Enter(r) ==
  /\ req[r].pc = "sent"
  /\ IF tracker = Nothing
       THEN /\ tracker' = r
            /\ req' = [req EXCEPT ![r].pc = "load", ![r].state = r]
       ELSE /\ req' = [req EXCEPT ![r].pc = "open", ![r].state = tracker]
            /\ UNCHANGED tracker
  /\ UNCHANGED <<clientVars, received, started, created, disk, rows, uploads, env>>

\* Who published it fills it from upload_chunks; others may use it meanwhile.
LoadRowsReplaces(r) == received' = [received EXCEPT ![req[r].state] = chunkRows] \* a mutant
LoadRows(r) == received' = [received EXCEPT ![req[r].state] = @ \cup chunkRows]
Load(r) ==
  /\ req[r].pc = "load"
  /\ LoadRows(r)
  /\ Move(r, "open")
  /\ UNCHANGED <<clientVars, tracker, started, created, disk, rows, uploads, env>>

\* O_CREATE without O_TRUNC.
OnlyExisting(r) == temp                                               \* a mutant
Created(r) == IF temp = Nothing THEN r ELSE temp
Truncates(i) == bytes' = [bytes EXCEPT ![i] = {}]                     \* a mutant
Keeps(i) == UNCHANGED bytes
Open(r) ==
  /\ req[r].pc = "open"
  /\ temp' = Created(r)
  /\ Keeps(temp')
  /\ req' = [req EXCEPT ![r].pc = "write", ![r].ino = temp']
  /\ UNCHANGED <<clientVars, trackerVars, rows, uploads, env>>

Write(r) ==
  /\ req[r].pc = "write"
  /\ bytes' = [bytes EXCEPT ![req[r].ino] = @ \cup {req[r].chunk}]
  /\ Move(r, "mark")
  /\ UNCHANGED <<clientVars, trackerVars, temp, rows, uploads, env>>

Marked(r) == received[req[r].state] \cup {req[r].chunk}
CompletesAgain(r) == Marked(r) = Chunks                               \* a mutant
Completes(r) == Marked(r) = Chunks /\ ~started[req[r].state]

\* UpdateTaskWithFile: a terminal status is only replaced by another one.
Progress ==
  /\ task' = IF task \in {"done", "error", "cancelled"} THEN task ELSE "running"
  /\ UNCHANGED timers
\* A terminal report schedules the removal of the task.
Reports(s) == task' = s /\ timers' = timers + 1

\* Under the lock of the state: the chunk counts as received, its rows are inserted
\* by goroutines, and the request that finds all chunks received starts the upload,
\* forgets the task and has its rows deleted, by a goroutine too.
Mark(r) ==
  LET s == req[r].state IN
  /\ req[r].pc = "mark"
  /\ received' = [received EXCEPT ![s] = Marked(r)]
  /\ created' = [created EXCEPT ![s] = TRUE]
  /\ Progress
  /\ req' = [req EXCEPT ![r] =
       [FreeRequest EXCEPT !.pc = "over", !.chunk = req[r].chunk,
                           !.insertTask = ~created[s], !.insertChunk = TRUE,
                           !.purge = IF Completes(r) THEN "chunks" ELSE "none"]]
  /\ IF Completes(r)
       THEN /\ started' = [started EXCEPT ![s] = TRUE]
            /\ tracker' = Nothing
            /\ up' = [up EXCEPT ![r] = "queued"]
            /\ starts' = starts \cup {[by |-> r, state |-> s, session |-> req[r].session]}
       ELSE UNCHANGED <<started, tracker, up, starts>>
  /\ UNCHANGED <<clientVars, disk, rows, reads, stored, env>>

\* The goroutines of a request, in any order but for the two deletions.
RunsInsertTask(r) ==
  /\ req[r].insertTask
  /\ req' = [req EXCEPT ![r].insertTask = FALSE]
  /\ taskRow' = TRUE
  /\ UNCHANGED <<clientVars, trackerVars, disk, chunkRows, uploads, env>>

RunsInsertChunk(r) ==
  /\ req[r].insertChunk
  /\ req' = [req EXCEPT ![r].insertChunk = FALSE, ![r].chunk = Nothing]
  /\ chunkRows' = chunkRows \cup {req[r].chunk}
  /\ UNCHANGED <<clientVars, trackerVars, disk, taskRow, uploads, env>>

RunsPurgeChunks(r) ==
  /\ req[r].purge = "chunks"
  /\ req' = [req EXCEPT ![r].purge = "task"]
  /\ chunkRows' = {}
  /\ UNCHANGED <<clientVars, trackerVars, disk, taskRow, uploads, env>>

RunsPurgeTask(r) ==
  /\ req[r].purge = "task"
  /\ req' = [req EXCEPT ![r].purge = "none"]
  /\ taskRow' = FALSE
  /\ UNCHANGED <<clientVars, trackerVars, disk, chunkRows, uploads, env>>

-----------------------------------------------------------------------------
(* The upload to Telegram (UploadTasks, FileStore), as far as the file goes *)

UploadOpens(r) ==
  /\ up[r] = "queued"
  /\ temp # Nothing
  /\ up' = [up EXCEPT ![r] = "open"]
  /\ reads' = [reads EXCEPT ![r] = temp]
  /\ Progress
  /\ UNCHANGED <<clientVars, req, trackerVars, disk, rows, stored, starts, env>>

UploadStores(r) ==
  /\ up[r] = "open"
  /\ stored' = stored \cup {[by |-> r, content |-> bytes[reads[r]]]}
  /\ up' = [up EXCEPT ![r] = "removing"]
  /\ Reports("done")
  /\ UNCHANGED <<clientVars, req, trackerVars, disk, rows, reads, starts, env>>

Ends(r) ==
  /\ up' = [up EXCEPT ![r] = "removing"]
  /\ Reports("error")
  /\ UNCHANGED <<clientVars, req, trackerVars, disk, rows, reads, stored, starts, cancelPc>>

\* There is no file: the upload fails.
UploadMissesFile(r) == up[r] = "queued" /\ temp = Nothing /\ Ends(r) /\ UNCHANGED seen

\* Telegram refuses, or the user cancelled.
UploadFails(r) ==
  /\ \/ Happens("fail")
     \/ "cancel" \in seen /\ UNCHANGED seen
  /\ up[r] \in {"queued", "open"}
  /\ Ends(r)

\* defer os.Remove(tempFilePath): whatever is at the path by then.
UploadRemoves(r) ==
  /\ up[r] = "removing"
  /\ temp' = Nothing
  /\ up' = [up EXCEPT ![r] = "ended"]
  /\ reads' = [reads EXCEPT ![r] = Nothing]
  /\ UNCHANGED <<clientVars, req, trackerVars, bytes, rows, task, timers, stored, starts,
                 env>>

-----------------------------------------------------------------------------
(* Forgetting, cancelling, expiry, crashes *)

\* scheduleTaskCleanup: an hour after a terminal report the task is deleted, whatever it
\* says by then.  A page that polls has had its answer or has given up by then.
Forget ==
  /\ Happens("forget")
  /\ timers > 0 /\ MinutesPass
  /\ client = "polling" => PollShows(task) = "polling"
  /\ timers' = timers - 1
  /\ task' = "absent"
  /\ UNCHANGED <<clientVars, req, trackerVars, disk, rows, up, reads, stored, starts, cancelPc>>

\* The page shows the task as cancelled at once and sends /api/cancel_upload.
Cancel ==
  /\ "cancel" \notin seen                          \* a bound
  /\ Happens("cancel")
  /\ client \in Shown
  /\ cancelPc = "idle"
  /\ client' = "failed"
  /\ todo' = {}
  /\ cancelPc' = "files"
  /\ UNCHANGED <<session, req, trackerVars, disk, rows, uploads>>

\* handleCancelUpload: the status (CancelTask), files, tracker, rows.
CancelStep ==
  \/ /\ cancelPc = "files"
     /\ Reports("cancelled")
     /\ temp' = Nothing
     /\ cancelPc' = "tracker"
     /\ UNCHANGED <<seen, clientVars, req, trackerVars, bytes, rows, up, reads, stored, starts>>
  \/ /\ cancelPc = "tracker"
     /\ tracker' = Nothing
     /\ cancelPc' = "chunks"
     /\ UNCHANGED <<seen, clientVars, req, received, started, created, disk, rows, uploads>>
  \/ /\ cancelPc = "chunks"
     /\ chunkRows' = {}
     /\ cancelPc' = "task"
     /\ UNCHANGED <<seen, clientVars, req, trackerVars, disk, taskRow, uploads>>
  \/ /\ cancelPc = "task"
     /\ taskRow' = FALSE
     /\ cancelPc' = "idle"
     /\ UNCHANGED <<seen, clientVars, req, trackerVars, disk, chunkRows, uploads>>

\* The hourly clean-up, 24 hours after the last write.  It takes the task id from the
\* file name up to the first "_", and the ids of the client contain one: the rows of
\* this task stay, and so does its tracker.
Expire ==
  /\ Happens("expire")
  /\ temp # Nothing
  /\ client = "failed"
  /\ Busy = {} /\ \A r \in Requests : ~Pending(r) /\ ~Running(r)
  /\ temp' = Nothing
  /\ UNCHANGED <<clientVars, req, trackerVars, bytes, rows, uploads, cancelPc>>

\* The server restarts: at any moment, or in order, when HTTP requests are answered and
\* their goroutines done.  Files and rows stay, everything else is gone.  The page gives
\* up or goes on, sending the chunks in flight again.
Crash ==
  /\ \/ Happens("crash")
     \/ Happens("restart") /\ Busy = {} /\ \A r \in Requests : ~Pending(r)
  /\ client \in Shown
  /\ client' \in {client, "failed"}
  /\ todo' = IF client' = "sending" THEN todo \cup {req[r].chunk : r \in InFlight} ELSE {}
  /\ tracker' = Nothing
  /\ req' = [r \in Requests |-> IF req[r].pc = "free" THEN req[r]
                                ELSE [FreeRequest EXCEPT !.pc = "over"]]
  /\ received' = [r \in Requests |-> {}]
  /\ started' = [r \in Requests |-> FALSE]
  /\ created' = [r \in Requests |-> FALSE]
  /\ up' = [r \in Requests |-> IF up[r] = "none" THEN "none" ELSE "ended"]
  /\ reads' = [r \in Requests |-> Nothing]
  /\ task' = "absent" /\ timers' = 0
  /\ cancelPc' = "idle"
  /\ UNCHANGED <<session, disk, rows, stored, starts>>

RequestStep(r) ==
  \/ Enter(r) \/ Load(r) \/ Open(r) \/ Write(r) \/ Mark(r)
  \/ RunsInsertTask(r) \/ RunsInsertChunk(r) \/ RunsPurgeChunks(r) \/ RunsPurgeTask(r)
UploadStep(r) ==
  UploadOpens(r) \/ UploadStores(r) \/ UploadMissesFile(r) \/ UploadRemoves(r)
SendAny == \E r \in Requests, c \in Chunks : Send(r, c)

Next ==
  \/ StartSession \/ SendAny \/ AllSent \/ Poll \/ GivesUp \/ Leave
  \/ Forget \/ Cancel \/ CancelStep \/ Expire \/ Crash
  \/ \E r \in Requests :
       LoseAnswer(r) \/ RequestStep(r) \/ UploadStep(r) \/ UploadFails(r)

Spec == Init /\ [][Next]_vars

-----------------------------------------------------------------------------
(* Properties *)

Request == [pc: {"free", "sent", "load", "open", "write", "mark", "over"},
            chunk: Chunks \cup {Nothing}, state: Requests \cup {Nothing},
            ino: Requests \cup {Nothing}, session: 0 .. MaxSessions, lost: BOOLEAN,
            insertTask: BOOLEAN, insertChunk: BOOLEAN,
            purge: {"none", "chunks", "task"}]

\* Every variable keeps its type; a request writes to a file it opened.
TypeOK ==
  /\ client \in {"new", "sending", "polling", "unsettled", "failed", "done"}
  /\ todo \subseteq Chunks
  /\ session \in 0 .. MaxSessions
  /\ req \in [Requests -> Request]
  /\ \A r \in Requests : req[r].pc \in {"write", "mark"} => req[r].ino # Nothing
  /\ tracker \in Requests \cup {Nothing}
  /\ received \in [Requests -> SUBSET Chunks]
  /\ started \in [Requests -> BOOLEAN]
  /\ created \in [Requests -> BOOLEAN]
  /\ temp \in Requests \cup {Nothing}
  /\ bytes \in [Requests -> SUBSET Chunks]
  /\ taskRow \in BOOLEAN /\ chunkRows \subseteq Chunks
  /\ up \in [Requests -> {"none", "queued", "open", "removing", "ended"}]
  /\ reads \in [Requests -> Requests \cup {Nothing}]
  /\ task \in {"absent", "running", "done", "error", "cancelled"} /\ timers \in Nat
  /\ stored \subseteq [by: Requests, content: SUBSET Chunks]
  /\ starts \subseteq [by: Requests, state: Requests, session: 0 .. MaxSessions]
  /\ cancelPc \in {"idle", "files", "tracker", "chunks", "task"}
  /\ seen \subseteq AllEvents

\* No file is stored with a chunk missing: the tracker and the rows speak of the chunks
\* of the very file that an upload reads.
StoredWhole == \A f \in stored : f.content = Chunks

\* The first upload of the task stores the whole file, however often the page was
\* closed or the server interrupted before.  (A temp file that expires breaks it.)
FirstWhole ==
  seen \subseteq {"leave", "crash", "lost", "fail", "forget"} /\ Cardinality(starts) = 1 =>
    StoredWhole

\* Before that, a chunk the server tells the client to skip is in the temp file.
CheckTruthful ==
  seen \subseteq {"leave", "crash", "lost", "fail", "forget"} /\ client = "failed" /\ starts = {} =>
    \A c \in CheckAnswer : temp # Nothing /\ c \in bytes[temp]

\* One chunkState starts one upload, whatever requests share it.  (A chunk sent again
\* after that creates a new chunkState, which may start another.)
OncePerState == \A x, y \in starts : x.state = y.state => x = y

\* What the comment in the poller takes for granted ("may have been cleaned up after done"):
\* what the page calls done has been stored at least once.
DoneMeansStored == client = "done" => stored # {}
\* It holds as long as the server runs, nobody cancels, and no upload fails whose entry is
\* forgotten an hour later.  (That case is set apart: late rows say that the chunks are there,
\* the page sends none, and takes the absence of the task for its success.)
DoneIsStored ==
  seen \cap {"crash", "restart", "cancel"} = {} /\ ~({"fail", "forget"} \subseteq seen) =>
    DoneMeansStored

\* A page does not wait for an upload nobody works on: when every chunk is answered and
\* nothing settles the task, a request or an upload still runs on the server, through lost
\* answers, failures, sessions and orderly restarts.  (A crash loses rows of chunks that were
\* answered; a cancellation, or the purge of a failed and forgotten upload, may delete rows
\* that the next session was told of.)
WaitsForSomebody ==
  /\ seen \cap {"crash", "cancel", "forget"} = {}
  /\ client \in {"polling", "unsettled"}
  /\ PollShows(task) = "polling"
  => \E r \in Requests : r \in Busy \/ Running(r)

=============================================================================
