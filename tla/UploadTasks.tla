----------------------------- MODULE UploadTasks -----------------------------
(***************************************************************************)
(* The task registry of the uploader and the goroutines that report to it: *)
(* the maps UploadTasks (what a client sees of a task) and TaskCancels     *)
(* (how it stops one), both under taskMutex, and the two channels that     *)
(* limit concurrent downloads and uploads.  What an upload writes to the   *)
(* database is in FileStore.                                               *)
(*                                                                         *)
(* A worker is one goroutine started by a handler.  Its kind says which:   *)
(*   complete  ProcessCompleteUpload, of a file already on the server      *)
(*   remote    ProcessRemoteUpload, streaming from a URL to Telegram       *)
(*   buffered  ProcessRemoteUpload of a large file without Range support,  *)
(*             or ProcessTelegramLinkUpload: downloads to disk, then hands *)
(*             over to a goroutine running ProcessCompleteUpload           *)
(* A client that retries a task sends the same task id again.              *)
(***************************************************************************)
EXTENDS Naturals, FiniteSets

CONSTANTS
  Workers,      \* goroutines
  Tasks,        \* task ids
  Kinds,        \* which kinds of worker the clients start
  Retries,      \* TRUE: clients retry a failed or cancelled task
  DownSlots,    \* capacity of globalDownloadSemaphore (2 in the code)
  UpSlots,      \* capacity of uploadSemaphore (bots + 1)
  MaxCancels,   \* bound on cancel requests per task
  Nobody        \* no worker

ASSUME ConstantsOK ==
  /\ Nobody \notin Workers
  /\ Kinds \subseteq {"complete", "remote", "buffered"}
  /\ Retries \in BOOLEAN
  /\ DownSlots \in Nat \ {0}
  /\ UpSlots \in Nat \ {0}
  /\ MaxCancels \in Nat

VARIABLES
  task,        \* the task id each worker was started with
  kind,        \* its kind
  pc,          \* where it is
  cancelled,   \* the context the worker listens to has been cancelled
  down, up,    \* workers that hold a download slot, an upload slot
  stored,      \* workers whose file is committed
  status,      \* UploadTasks: status per task, "none" if there is no entry
  cancels,     \* TaskCancels: whose cancel function is registered
  timers,      \* one-hour timers of scheduleTaskCleanup that have not fired
  pendingCancel, \* goroutines of CancelTask about to report "cancelled"
  asked,       \* cancel requests so far
  uiCancelled  \* the client shows the task as cancelled

workerVars == <<task, kind, pc, cancelled, down, up, stored>>
registry == <<status, timers>>
vars == <<workerVars, registry, cancels, pendingCancel, asked, uiCancelled>>

Terminal == {"done", "error", "cancelled"}
Statuses == {"none", "waiting_slot", "downloading", "telegram"} \cup Terminal
\* The worker looks at its context again before it can store anything:
Listening == {"registered", "waitDown", "download", "waitUp", "upload"}

Init ==
  /\ task \in [Workers -> Tasks]
  /\ kind \in [Workers -> Kinds]
  /\ pc = [w \in Workers |-> "idle"]
  /\ cancelled = [w \in Workers |-> FALSE]
  /\ down = {} /\ up = {} /\ stored = {}
  /\ status = [t \in Tasks |-> "none"]
  /\ cancels = [t \in Tasks |-> Nobody]
  /\ timers = [t \in Tasks |-> 0]
  /\ pendingCancel = [t \in Tasks |-> 0]
  /\ asked = [t \in Tasks |-> 0]
  /\ uiCancelled = [t \in Tasks |-> FALSE]

-----------------------------------------------------------------------------
(* Reporting *)

\* A terminal report schedules the removal of the entry.
Record(t, s) ==
  /\ status' = [status EXCEPT ![t] = s]
  /\ timers' = [timers EXCEPT ![t] = @ + (IF s \in Terminal THEN 1 ELSE 0)]

RefusesNothing(t, s) == FALSE                                       \* a mutant
Refuses(t, s) == status[t] \in Terminal /\ s \notin Terminal

\* UpdateTaskWithFile, by way of UpdateTask too.
Report(t, s) == IF Refuses(t, s) THEN UNCHANGED registry ELSE Record(t, s)

Go(w, to) == pc' = [pc EXCEPT ![w] = to]

-----------------------------------------------------------------------------
(* Workers *)

\* A handler starts the goroutine: a new task, or the retry of one that the client
\* shows as failed or cancelled.
Spawn(w) ==
  LET t == task[w] IN
  /\ pc[w] = "idle"
  /\ \/ \A v \in Workers : task[v] = t => pc[v] = "idle"
     \/ Retries /\ (status[t] = "error" \/ uiCancelled[t])
  /\ Go(w, "spawned")
  /\ uiCancelled' = [uiCancelled EXCEPT ![t] = FALSE]
  /\ UNCHANGED <<task, kind, cancelled, down, up, stored, registry, cancels,
                 pendingCancel, asked>>

\* context.WithCancel, TaskCancels[taskID] = cancel.
Register(w) ==
  /\ pc[w] \in {"spawned", "handed"}
  /\ cancels' = [cancels EXCEPT ![task[w]] = w]
  /\ cancelled' = [cancelled EXCEPT ![w] = FALSE]
  /\ Go(w, "registered")
  /\ UNCHANGED <<task, kind, down, up, stored, registry, pendingCancel, asked,
                 uiCancelled>>

QueueDown(w) ==
  /\ pc[w] = "registered"
  /\ kind[w] # "complete"
  /\ Go(w, "waitDown")
  /\ Report(task[w], "waiting_slot")
  /\ UNCHANGED <<task, kind, cancelled, down, up, stored, cancels, pendingCancel,
                 asked, uiCancelled>>

StartDownload(w) ==
  /\ pc[w] = "waitDown"
  /\ Cardinality(down) < DownSlots
  /\ down' = down \cup {w}
  /\ Go(w, "download")
  /\ Report(task[w], "downloading")
  /\ UNCHANGED <<task, kind, cancelled, up, stored, cancels, pendingCancel, asked,
                 uiCancelled>>

\* A streaming worker that has its response keeps the download slot it holds.
QueueUp(w) ==
  /\ \/ pc[w] = "registered" /\ kind[w] = "complete"
     \/ pc[w] = "download" /\ kind[w] = "remote"
  /\ Go(w, "waitUp")
  /\ Report(task[w], "telegram")
  /\ UNCHANGED <<task, kind, cancelled, down, up, stored, cancels, pendingCancel,
                 asked, uiCancelled>>

\* The file is on disk: another goroutine goes on as ProcessCompleteUpload, with a
\* context of its own.  The cancel function of the old one stays registered meanwhile.
HandOver(w) ==
  /\ pc[w] = "download"
  /\ kind[w] = "buffered"
  /\ down' = down \ {w}
  /\ kind' = [kind EXCEPT ![w] = "complete"]
  /\ Go(w, "handed")
  /\ UNCHANGED <<task, cancelled, up, stored, registry, cancels, pendingCancel,
                 asked, uiCancelled>>

\* A progress callback, of the download to disk or of a part.
Progress(w) ==
  /\ \/ pc[w] = "download" /\ kind[w] = "buffered" /\ Report(task[w], "downloading")
     \/ pc[w] = "upload" /\ Report(task[w], "telegram")
  /\ UNCHANGED <<workerVars, cancels, pendingCancel, asked, uiCancelled>>

UpSlotFreeOffByOne == Cardinality(up) <= UpSlots                    \* a mutant
UpSlotFree == Cardinality(up) < UpSlots

\* select prefers neither case: a cancelled worker may still take the slot.
StartUpload(w) ==
  /\ pc[w] = "waitUp"
  /\ UpSlotFree
  /\ up' = up \cup {w}
  /\ Go(w, "upload")
  /\ Report(task[w], "telegram")
  /\ UNCHANGED <<task, kind, cancelled, down, stored, cancels, pendingCancel, asked,
                 uiCancelled>>

Waiting(w) == pc[w] \in {"waitDown", "waitUp"}
LeavesQueue(w) ==
  /\ Waiting(w)
  /\ cancelled[w]
  /\ Go(w, "ending")
  /\ Report(task[w], "error")
  /\ UNCHANGED <<task, kind, cancelled, down, up, stored, cancels, pendingCancel,
                 asked, uiCancelled>>

\* The download or a part fails, for good or because of the cancellation; then some
\* paths return without a report.
Fails(w) ==
  /\ pc[w] \in {"download", "upload"}
  /\ Go(w, "ending")
  /\ \/ (~cancelled[w] \/ kind[w] # "complete") /\ Report(task[w], "error")
     \/ cancelled[w] /\ UNCHANGED registry
  /\ UNCHANGED <<task, kind, cancelled, down, up, stored, cancels, pendingCancel,
                 asked, uiCancelled>>

\* Every part is sent; from here on the context is not looked at again.
PartsSent(w) ==
  /\ pc[w] = "upload"
  /\ ~cancelled[w]
  /\ Go(w, "sent")
  /\ UNCHANGED <<task, kind, cancelled, down, up, stored, registry, cancels,
                 pendingCancel, asked, uiCancelled>>

Commit(w) ==
  /\ pc[w] = "sent"
  /\ stored' = stored \cup {w}
  /\ Go(w, "stored")
  /\ UNCHANGED <<task, kind, cancelled, down, up, registry, cancels, pendingCancel,
                 asked, uiCancelled>>

CommitFails(w) ==
  /\ pc[w] = "sent"
  /\ Go(w, "ending")
  /\ Report(task[w], "error")
  /\ UNCHANGED <<task, kind, cancelled, down, up, stored, cancels, pendingCancel,
                 asked, uiCancelled>>

\* UpdateTaskWithFileID has no guard.
ReportDone(w) ==
  /\ pc[w] = "stored"
  /\ Go(w, "ending")
  /\ Record(task[w], "done")
  /\ UNCHANGED <<task, kind, cancelled, down, up, stored, cancels, pendingCancel,
                 asked, uiCancelled>>

\* The deferred calls, last to first: the slots, then the entry of TaskCancels under
\* this task id, whoever registered it.
KeepsDownload(w) == up' = up \ {w} /\ UNCHANGED down                \* a mutant
GivesBack(w) == up' = up \ {w} /\ down' = down \ {w}
ReleaseSlots(w) ==
  /\ pc[w] = "ending"
  /\ GivesBack(w)
  /\ Go(w, "leaving")
  /\ UNCHANGED <<task, kind, cancelled, stored, registry, cancels, pendingCancel,
                 asked, uiCancelled>>

ForgetsUnlessStored(w) ==                                           \* a mutant
  cancels' = IF w \in stored THEN [cancels EXCEPT ![task[w]] = Nobody] ELSE cancels
Forgets(w) == cancels' = [cancels EXCEPT ![task[w]] = Nobody]
Unregister(w) ==
  /\ pc[w] = "leaving"
  /\ Forgets(w)
  /\ Go(w, "gone")
  /\ UNCHANGED <<task, kind, cancelled, down, up, stored, registry, pendingCancel,
                 asked, uiCancelled>>

-----------------------------------------------------------------------------
(* Cancelling, and the clean-up of the registry *)

\* The registered function stops its own context only: not one that a hand-over has
\* already left behind.
CancelsQueued(t) ==                                                 \* a mutant
  [w \in Workers |-> cancelled[w] \/ (cancels[t] = w /\ pc[w] \in {"waitDown", "waitUp"})]
Cancelled(t) ==
  [w \in Workers |-> cancelled[w] \/ (cancels[t] = w /\ pc[w] # "handed")]

\* CancelTask by the task's owner.  It reports from a goroutine of its own.
CancelTask(t) ==
  /\ asked[t] < MaxCancels
  /\ \E w \in Workers : task[w] = t /\ pc[w] # "idle"
  /\ asked' = [asked EXCEPT ![t] = @ + 1]
  /\ cancelled' = Cancelled(t)
  /\ cancels' = [cancels EXCEPT ![t] = Nobody]
  /\ pendingCancel' = [pendingCancel EXCEPT ![t] = @ + 1]
  /\ uiCancelled' = [uiCancelled EXCEPT ![t] = TRUE]
  /\ UNCHANGED <<task, kind, pc, down, up, stored, registry>>

ReportCancelled(t) ==
  /\ pendingCancel[t] > 0
  /\ pendingCancel' = [pendingCancel EXCEPT ![t] = @ - 1]
  /\ Report(t, "cancelled")
  /\ UNCHANGED <<workerVars, cancels, asked, uiCancelled>>

\* The timer deletes the entry, whatever it says by now.  An hour is long: nobody
\* stays that long in the steps between two waits.
Brief == {"spawned", "registered", "handed", "sent", "stored", "ending", "leaving"}
TimerFires(t) ==
  /\ timers[t] > 0
  /\ \A w \in Workers : pc[w] \notin Brief
  /\ pendingCancel[t] = 0
  /\ timers' = [timers EXCEPT ![t] = @ - 1]
  /\ status' = [status EXCEPT ![t] = "none"]
  /\ UNCHANGED <<workerVars, cancels, pendingCancel, asked, uiCancelled>>

WorkerStep(w) ==
  \/ Register(w) \/ QueueDown(w) \/ StartDownload(w) \/ QueueUp(w) \/ HandOver(w)
  \/ StartUpload(w) \/ LeavesQueue(w) \/ Fails(w) \/ PartsSent(w)
  \/ Commit(w) \/ CommitFails(w) \/ ReportDone(w) \/ ReleaseSlots(w) \/ Unregister(w)

Next ==
  \/ \E w \in Workers : Spawn(w) \/ WorkerStep(w) \/ Progress(w)
  \/ \E t \in Tasks : CancelTask(t) \/ ReportCancelled(t) \/ TimerFires(t)

Spec == Init /\ [][Next]_vars

\* A goroutine that can take a step takes one; sending a part, like a download, ends
\* (each attempt and the number of attempts are bounded).
FairSpec ==
  /\ Spec
  /\ \A w \in Workers : WF_vars(WorkerStep(w))
  /\ \A t \in Tasks : WF_vars(ReportCancelled(t))

-----------------------------------------------------------------------------
(* Properties *)

Places == {"idle", "spawned", "registered", "waitDown", "download", "handed", "waitUp",
           "upload", "sent", "stored", "ending", "leaving", "gone"}

\* Every variable keeps its type, and the slots their capacity.
TypeOK ==
  /\ task \in [Workers -> Tasks]
  /\ kind \in [Workers -> Kinds \cup {"complete"}]
  /\ pc \in [Workers -> Places]
  /\ cancelled \in [Workers -> BOOLEAN]
  /\ down \in SUBSET Workers /\ up \in SUBSET Workers /\ stored \in SUBSET Workers
  /\ Cardinality(down) <= DownSlots /\ Cardinality(up) <= UpSlots
  /\ status \in [Tasks -> Statuses]
  /\ cancels \in [Tasks -> Workers \cup {Nobody}]
  /\ timers \in [Tasks -> Nat]
  /\ pendingCancel \in [Tasks -> Nat]
  /\ asked \in [Tasks -> Nat]
  /\ uiCancelled \in [Tasks -> BOOLEAN]

\* A registered cancel function belongs to a worker of that task that has not ended:
\* the map does not grow with the uploads ever made.
NoStaleCancel ==
  \A t \in Tasks : cancels[t] # Nobody =>
    task[cancels[t]] = t /\ pc[cancels[t]] \notin {"idle", "spawned", "gone"}

\* The registry implements what a client is promised: through late progress reports, retries
\* and expired entries, a task shown as done or cancelled runs again only after it was
\* forgotten, and done is shown for a stored file only (UpdateTaskWithFile,
\* UpdateTaskWithFileID, CancelTask).
Shown == [t \in Tasks |->
  IF status[t] \in {"waiting_slot", "downloading", "telegram"} THEN "running" ELSE status[t]]
Kept == {t \in Tasks : \E w \in stored : task[w] = t}
Promise == INSTANCE TaskPromise WITH shown <- Shown, kept <- Kept
KeepsPromise == Promise!Spec

CancelStep(t) == asked'[t] # asked[t]
\* A cancel request stops the worker of the task that is registered and has not sent
\* its parts yet, at every step and for every kind of worker, as long as the task has
\* not been started again (then the first worker's deferred delete may have removed the
\* function of the second).
CancelReaches ==
  [][\A t \in Tasks : CancelStep(t) =>
       \A w \in Workers :
         /\ task[w] = t /\ pc[w] \in Listening
         /\ \A v \in Workers \ {w} : task[v] = t => pc[v] = "idle"
         => cancelled'[w]]_vars

\* A worker gives its slots back and ends, however many share the slots, and though
\* some wait for an upload slot while they hold a download slot.
EveryWorkerEnds == \A w \in Workers : pc[w] = "spawned" ~> pc[w] = "gone"

\* What the API documents ("Cancel a running task"), for a task between the download
\* and the upload of a hand-over too.
CancelStops ==
  [][\A t \in Tasks : CancelStep(t) =>
       \A w \in Workers :
         task[w] = t /\ pc[w] \in Listening \cup {"handed"} => cancelled'[w]]_vars

\* What the comment on the guard of UpdateTaskWithFile says of errors ("We allow 'error'
\* to be overwritten so that manual retries ... can still show progress"): when the retry
\* of a failed task gets its slot, the task shows it.  The guard refuses the report.
RetryShown ==
  [][\A w \in Workers :
       /\ pc[w] = "waitUp" /\ pc'[w] = "upload"
       /\ status[task[w]] = "error"
       => status'[task[w]] = "telegram"]_vars

=============================================================================
