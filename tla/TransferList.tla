---------------------------- MODULE TransferList ----------------------------
(***************************************************************************)
(* The list of transfers a browser page shows (uploadQueue of cloudApp):   *)
(* web-socket messages, the shared poller, the removal countdowns, the     *)
(* upload sessions of the page and the user write the same entries, and    *)
(* every one of them finds its entry by task id again after each await.    *)
(*                                                                         *)
(* The server is abstract: the status map with the guard of                *)
(* UpdateTaskWithFile, the chunks received and one run per task            *)
(* (ChunkUpload and UploadTasks have the detail).  BroadcastTaskUpdate     *)
(* sends each message from a goroutine of its own, so messages arrive in   *)
(* any order, and those under way when the socket closes are lost.         *)
(***************************************************************************)
EXTENDS Naturals, FiniteSets

CONSTANTS
  Tasks,        \* task ids
  Chunks,       \* chunks of a file
  Slots,        \* CONCURRENCY of uploadFiles
  Workers,      \* CHUNK_CONCURRENCY of uploadSingleFile
  MaxSessions,  \* bound on runs of uploadSingleFile
  MaxOps,       \* bound on what the user does
  MaxWire       \* bound on messages under way at once

Sessions == 1..MaxSessions
Terminal == {"done", "error", "cancelled"}
Statuses == {"waiting", "uploading", "downloading", "telegram"} \cup Terminal
None == [shown |-> FALSE]

ASSUME ConstantsOK ==
  /\ IsFiniteSet(Tasks) /\ None \notin Tasks
  /\ IsFiniteSet(Chunks) /\ Chunks \subseteq Nat /\ Chunks # {}
  /\ Slots \in Nat \ {0} /\ Workers \in Nat \ {0}
  /\ MaxSessions \in Nat /\ MaxOps \in Nat /\ MaxWire \in Nat

VARIABLES
  kind,       \* a file this page uploads, or a download by URL that the server runs
  entry,      \* the entry of uploadQueue with an id, or None
  stray,      \* a countdown of an entry that is no longer in the list still runs
  sess,       \* the runs of uploadSingleFile
  ops,        \* what the user has done so far: calls of uploadFiles and the others
  polled,     \* _pollTasks: id to the count of polls that missed it
  poll,       \* the poller: off, sleeping, waiting for an answer, or the answer
  restore,    \* fetchActiveTasks: asked, the answer, or over
  post,       \* POSTs that start a download on the server, until they are answered
  cancels,    \* /api/cancel_upload requests under way
  srv,        \* the server's status map
  got,        \* chunks the server has of a task
  run,        \* what the server does for a task
  stored,     \* tasks whose file was committed
  wire        \* messages under way on the socket

page == <<entry, stray, sess, ops, polled, poll, restore>>
requests == <<post, cancels>>
server == <<kind, srv, got, run, stored>>
vars == <<page, requests, server, wire>>

Entry == [shown: {TRUE}, status: Statuses, err: BOOLEAN, canc: BOOLEAN,
          prog: {"low", "high", "full"}, counting: BOOLEAN,
          origin: {"file", "url", "server"}]
\* origin: what a retry starts again, the file, the URL or nothing.
NewEntry(origin) == [shown |-> TRUE, status |-> "waiting", err |-> FALSE, canc |-> FALSE,
                     prog |-> "low", counting |-> FALSE, origin |-> origin]
FreeSession == [id |-> None, pc |-> "free", todo |-> {}, flight |-> {}, acked |-> {},
                workers |-> 0, failed |-> FALSE, batch |-> 0]
NoPost == [by |-> "none", accepted |-> FALSE]
Post(by) == [by |-> by, accepted |-> FALSE]
NoPoll == 9      \* not registered: no count of misses
Overdue == 8     \* dropped after ten minutes; the code keeps nothing of it
PollIdle(pc) == [pc |-> pc, snap |-> [t \in Tasks |-> "absent"]]

Locals == {t \in Tasks : kind[t] = "file"}

Init ==
  /\ kind \in [Tasks -> {"file", "url"}]
  /\ entry = [t \in Tasks |-> None]
  /\ stray = [t \in Tasks |-> FALSE]
  /\ sess = [s \in Sessions |-> FreeSession]
  /\ ops = 0
  /\ polled = [t \in Tasks |-> NoPoll]
  /\ poll = PollIdle("off")
  /\ post = [t \in Tasks |-> NoPost] /\ cancels = {}
  /\ srv \in [Tasks -> {"absent", "downloading"}]
  /\ \A t \in Locals : srv[t] = "absent"
  \* An empty answer changes nothing.
  /\ restore = [pc |-> IF \E t \in Tasks : srv[t] # "absent" THEN "asked" ELSE "over", ids |-> {}]
  /\ got = [t \in Tasks |-> {}]
  /\ run = [t \in Tasks |-> IF srv[t] = "downloading" THEN "download" ELSE "none"]
  /\ stored = {}
  /\ wire = {}

Shown(t) == entry[t].shown
ErrorIn(e) == IF e.shown THEN [e EXCEPT !.err = TRUE] ELSE e
Set(t, e) == entry' = [entry EXCEPT ![t] = e]
\* An entry leaves the list, maybe for a new one: its countdown goes on and will remove
\* by id, and a file of a batch that waits for a slot is skipped if it was cancelled.
Detached(T) == [s \in Sessions |->
  IF sess[s].pc = "queued" /\ sess[s].id \in T /\ Shown(sess[s].id) /\ entry[sess[s].id].canc
    THEN [sess[s] EXCEPT !.pc = "skipped"] ELSE sess[s]]
StrayAfter(T) == [t \in Tasks |-> stray[t] \/ (t \in T /\ Shown(t) /\ entry[t].counting)]

-----------------------------------------------------------------------------
(* The server *)

\* UpdateTaskWithFile: a terminal status gives way to terminal ones only; the other
\* messages are throttled.
Accepts(t, st) == srv[t] \in Terminal => st \in Terminal
Message(t, st) == [id |-> t, status |-> st]
Report(t, st) ==
  IF Accepts(t, st)
    THEN /\ srv' = [srv EXCEPT ![t] = st]
         /\ \/ Cardinality(wire) < MaxWire /\ wire' = wire \cup {Message(t, st)}
            \/ (st \in Terminal => Cardinality(wire) >= MaxWire) /\ UNCHANGED wire
    ELSE UNCHANGED <<srv, wire>>

\* A chunk reaches handlePostUpload; the last one starts the upload.
ChunkArrives(s, c) ==
  LET t == sess[s].id
      have == got[t] \cup {c}
  IN
  /\ c \in sess[s].flight
  /\ sess' = [sess EXCEPT ![s].flight = @ \ {c}, ![s].acked = @ \cup {c}]
  /\ got' = [got EXCEPT ![t] = IF have = Chunks THEN {} ELSE have]
  /\ run' = [run EXCEPT ![t] = IF have = Chunks THEN "upload" ELSE @]
  /\ Report(t, "uploading")
  /\ UNCHANGED <<kind, entry, stray, ops, polled, poll, restore, requests, stored>>

\* The run of a task: a download becomes an upload, an upload is stored or fails.
RunStep(t) ==
  /\ \/ /\ run[t] = "download"
        /\ run' = [run EXCEPT ![t] = "upload"]
        /\ Report(t, "downloading")
        /\ UNCHANGED stored
     \/ /\ run[t] = "upload"
        /\ run' = [run EXCEPT ![t] = "commit"]
        /\ Report(t, "telegram")
        /\ UNCHANGED stored
     \/ /\ run[t] = "commit"
        /\ run' = [run EXCEPT ![t] = "none"]
        /\ \/ Report(t, "done") /\ stored' = stored \cup {t}
           \/ Report(t, "error") /\ UNCHANGED stored
  /\ UNCHANGED <<kind, page, requests, got>>

\* handleCancelUpload and CancelTask, which leaves a status where there was none.
CancelArrives(t) ==
  /\ t \in cancels
  /\ cancels' = cancels \ {t}
  /\ got' = [got EXCEPT ![t] = {}]
  /\ run' = [run EXCEPT ![t] = "none"]
  /\ Report(t, "cancelled")
  /\ UNCHANGED <<kind, page, post, stored>>

\* A POST that starts a download arrives; then the page learns of it.  A link from the
\* URL list or dropped has an entry before, a media download gets one with the answer,
\* and a torrent is looked for with fetchActiveTasks.
PostArrives(t) ==
  /\ post[t].by # "none" /\ ~post[t].accepted
  /\ post' = [post EXCEPT ![t].accepted = TRUE]
  /\ run' = [run EXCEPT ![t] = "download"]
  /\ Report(t, "downloading")
  /\ UNCHANGED <<kind, page, cancels, got, stored>>

PostAnswered(t) ==
  /\ post[t].accepted
  /\ post' = [post EXCEPT ![t] = NoPost]
  /\ Set(t, IF post[t].by = "media" /\ ~Shown(t) THEN NewEntry("server") ELSE entry[t])
  /\ restore' = IF post[t].by = "torrent" THEN [pc |-> "asked", ids |-> {}] ELSE restore
  /\ UNCHANGED <<stray, sess, ops, polled, poll, cancels, server, wire>>

PostRefused(t) ==
  /\ post[t].by # "none" /\ ~post[t].accepted
  /\ post' = [post EXCEPT ![t] = NoPost]
  /\ \/ post[t].by = "link" /\ Set(t, None) /\ stray' = StrayAfter({t})
     \/ post[t].by \in {"social", "retry"} /\ Set(t, ErrorIn(entry[t])) /\ UNCHANGED stray
     \/ post[t].by \in {"media", "torrent"} /\ UNCHANGED <<entry, stray>>
  /\ UNCHANGED <<sess, ops, polled, poll, restore, cancels, server, wire>>

\* The connection breaks: a link keeps its entry as it is.
PostLost(t) ==
  /\ post[t].by # "none"
  /\ post' = [post EXCEPT ![t] = NoPost]
  /\ Set(t, IF post[t].by \in {"social", "retry"} THEN ErrorIn(entry[t]) ELSE entry[t])
  /\ UNCHANGED <<stray, sess, ops, polled, poll, restore, cancels, server, wire>>

-----------------------------------------------------------------------------
(* The socket *)

\* The first half of onmessage: a task the page does not know gets an entry.
Created(m) == [NewEntry("server") EXCEPT !.status = m.status]

\* The second half: status, flags and progress by status.
Applied(e, st) ==
  CASE st = "uploading" -> [e EXCEPT !.status = st, !.prog = IF e.err THEN @ ELSE "low"]
    [] st = "downloading" -> [e EXCEPT !.status = st, !.err = FALSE, !.prog = "low"]
    [] st = "telegram" -> [e EXCEPT !.status = st, !.err = FALSE, !.prog = "high"]
    [] st = "done" -> [e EXCEPT !.status = st, !.err = FALSE, !.prog = "full",
                                !.counting = TRUE]
    [] st = "error" -> [e EXCEPT !.status = st, !.err = TRUE]
    [] st = "cancelled" -> [e EXCEPT !.status = st, !.err = FALSE, !.canc = TRUE]

OnMessage(m) ==
  LET t == m.id IN
  /\ m \in wire
  /\ wire' = wire \ {m}
  /\ IF ~Shown(t)
       THEN IF m.status \in Terminal THEN UNCHANGED entry
            ELSE Set(t, Applied(Created(m), m.status))
       ELSE IF entry[t].canc /\ m.status # "cancelled" THEN UNCHANGED entry
            ELSE Set(t, Applied(entry[t], m.status))
  /\ UNCHANGED <<stray, sess, ops, polled, poll, restore, requests, server>>

\* The socket closes; it is opened again after five seconds.
OnClose ==
  /\ wire # {} /\ wire' = {}
  /\ UNCHANGED <<page, requests, server>>

\* fetchActiveTasks when the page is opened: the answer, and its use.
RestoreAnswer ==
  /\ restore.pc = "asked"
  /\ restore' = [pc |-> "answer",
                 ids |-> {t \in Tasks : srv[t] # "absent" /\ srv[t] \notin Terminal}]
  /\ UNCHANGED <<entry, stray, sess, ops, polled, poll, requests, server, wire>>

RestoredAlways(t) == t \in restore.ids                                \* a mutant
Restored(t) == t \in restore.ids /\ ~Shown(t)
RestoreApply ==
  /\ restore.pc = "answer"
  /\ restore' = [pc |-> "over", ids |-> {}]
  /\ entry' = [t \in Tasks |-> IF Restored(t) THEN NewEntry("server") ELSE entry[t]]
  /\ UNCHANGED <<stray, sess, ops, polled, poll, requests, server, wire>>

-----------------------------------------------------------------------------
(* The countdowns of five seconds *)

CountdownEnds(t) ==
  /\ Shown(t) /\ entry[t].counting
  /\ Set(t, None)
  /\ sess' = Detached({t})
  /\ UNCHANGED <<stray, ops, polled, poll, restore, requests, server, wire>>

StrayEnds(t) ==
  /\ stray[t]
  /\ Set(t, None)
  /\ stray' = [stray EXCEPT ![t] = Shown(t) /\ entry[t].counting]
  /\ sess' = Detached({t})
  /\ UNCHANGED <<ops, polled, poll, restore, requests, server, wire>>

-----------------------------------------------------------------------------
(* The poller *)

Polled(t) == polled[t] \in {0, 1}

\* registerTaskPoll: an id that is registered stays as it is.
RegisterOnly(t) == polled' = [polled EXCEPT ![t] = 0] /\ UNCHANGED poll  \* a mutant
Register(t) ==
  /\ polled' = [polled EXCEPT ![t] = IF Polled(t) THEN @ ELSE 0]
  /\ poll' = IF poll.pc = "off" THEN [poll EXCEPT !.pc = "sleep"] ELSE poll

SettledButCancelled(t) ==                                             \* a mutant
  ~Shown(t) \/ entry[t].status = "done" \/ entry[t].err
Settled(t) == ~Shown(t) \/ entry[t].status = "done" \/ entry[t].canc \/ entry[t].err

\* Every three seconds: drop what is settled and what has been polled for longer than
\* POLL_TIMEOUT, ask the server for the rest.
Dropping(t, late) ==
  IF ~Polled(t) THEN polled[t] ELSE IF Settled(t) THEN NoPoll
  ELSE IF t \in late THEN Overdue ELSE polled[t]
PollTick ==
  /\ poll.pc = "sleep"
  /\ \E late \in SUBSET Tasks : polled' = [t \in Tasks |-> Dropping(t, late)]
  /\ poll' = [poll EXCEPT !.pc = IF \A t \in Tasks : polled'[t] \notin {0, 1} THEN "off" ELSE "asked"]
  /\ UNCHANGED <<entry, stray, sess, ops, restore, requests, server, wire>>

\* A request that fails is one whose answer takes longer.
PollAnswer ==
  /\ poll.pc = "asked"
  /\ poll' = [pc |-> "answer", snap |-> srv]
  /\ UNCHANGED <<entry, stray, sess, ops, polled, restore, requests, server, wire>>

\* finishTaskDone
Finished(e) == [e EXCEPT !.status = "done", !.err = FALSE, !.prog = "full", !.counting = TRUE]

\* What a poll makes of an entry: a task that two polls missed counts as done.
Missed(n) == n + 1 >= 2
ShownAfterDone(t, st) == IF st = "done" THEN Finished(entry[t]) ELSE entry[t]  \* a mutant
ShownAfter(t, st) ==
  LET e == entry[t] IN
  CASE st = "done" -> Finished(e)
    [] st = "absent" -> IF Missed(polled[t]) /\ e.status # "done" /\ ~e.err
                          THEN Finished(e) ELSE e
    [] st = "error" -> [e EXCEPT !.status = "error", !.err = TRUE]
    [] st = "cancelled" -> [e EXCEPT !.status = "cancelled", !.canc = TRUE]
    [] st = "telegram" -> [e EXCEPT !.prog = "high"]
    [] OTHER -> e

PollApply ==
  /\ poll.pc = "answer"
  /\ entry' = [t \in Tasks |-> IF Polled(t) /\ Shown(t) THEN ShownAfter(t, poll.snap[t])
                                                    ELSE entry[t]]
  /\ polled' = [t \in Tasks |->
       IF ~Polled(t) THEN polled[t]
       ELSE IF ~Shown(t) \/ poll.snap[t] \in Terminal THEN NoPoll
       ELSE IF poll.snap[t] # "absent" THEN 0
       ELSE IF Missed(polled[t]) THEN NoPoll ELSE polled[t] + 1]
  /\ poll' = PollIdle(IF \A t \in Tasks : polled'[t] \notin {0, 1} THEN "off" ELSE "sleep")
  /\ UNCHANGED <<stray, sess, ops, restore, requests, server, wire>>

-----------------------------------------------------------------------------
(* The sessions of the page: uploadFiles and uploadSingleFile *)

\* Bounds: the user acts MaxOps times, after the server has seen the page's first request.
Does == ops < MaxOps /\ ops' = ops + 1 /\ restore.pc # "asked"
FreeSlots == {s \in Sessions : sess[s].pc = "free"}
Occupied(t) == Shown(t) /\ entry[t].prog # "full" /\ ~entry[t].canc /\ ~entry[t].err

\* uploadFiles: what is under way already is skipped, what is settled is replaced.
AddFiles(ids) ==
  LET new == {t \in ids : ~Occupied(t)}
      slot == CHOOSE f \in [new -> FreeSlots] : \A t, u \in new : f[t] = f[u] => t = u
      old == Detached(new)
  IN
  /\ new # {} /\ Cardinality(new) <= Cardinality(FreeSlots)        \* bounds
  /\ Does
  /\ entry' = [t \in Tasks |-> IF t \in new THEN NewEntry("file") ELSE entry[t]]
  /\ stray' = StrayAfter(new)
  /\ sess' = [s \in Sessions |->
       IF \E t \in new : slot[t] = s
         THEN [FreeSession EXCEPT !.id = CHOOSE t \in new : slot[t] = s, !.pc = "queued",
                                  !.batch = ops']
         ELSE old[s]]
  /\ UNCHANGED <<polled, poll, restore, requests, server, wire>>

Active(s) == sess[s].pc \in {"check", "work"}

\* processQueue takes the next file of its batch.
TakeFile(s) ==
  LET t == sess[s].id IN
  /\ sess[s].pc = "queued"
  /\ Cardinality({x \in Sessions : sess[x].batch = sess[s].batch /\ Active(x)}) < Slots
  /\ sess' = [sess EXCEPT ![s].pc = IF Shown(t) /\ entry[t].canc THEN "skipped" ELSE "check"]
  /\ UNCHANGED <<entry, stray, ops, polled, poll, restore, requests, server, wire>>

\* /api/upload/check says which chunks the server has, or fails.
CheckAnswered(s) ==
  LET t == sess[s].id IN
  /\ sess[s].pc = "check"
  /\ \E have \in {got[t], {}} :
       /\ sess' = [sess EXCEPT ![s].pc = "work", ![s].todo = Chunks \ have,
                   ![s].workers = IF Workers < Cardinality(Chunks) THEN Workers
                                  ELSE Cardinality(Chunks)]
       /\ Set(t, IF Shown(t) /\ have # {} THEN [entry[t] EXCEPT !.prog = "low"] ELSE entry[t])
  /\ UNCHANGED <<stray, ops, polled, poll, restore, requests, server, wire>>

\* A worker shifts the first chunk; without an entry, or with a cancelled one, it gives up.
Gone(t) == ~Shown(t) \/ entry[t].canc
TakeChunk(s, c) ==
  /\ sess[s].pc = "work" /\ ~sess[s].failed
  /\ c \in sess[s].todo /\ \A d \in sess[s].todo : c <= d
  /\ Cardinality(sess[s].flight \cup sess[s].acked) < sess[s].workers
  /\ sess' = IF Gone(sess[s].id)
                THEN [sess EXCEPT ![s].todo = @ \ {c}, ![s].workers = @ - 1]
                ELSE [sess EXCEPT ![s].todo = @ \ {c}, ![s].flight = @ \cup {c}]
  /\ UNCHANGED <<entry, stray, ops, polled, poll, restore, requests, server, wire>>

\* xhr.onload of a chunk.
ChunkAnswered(s, c) ==
  LET t == sess[s].id IN
  /\ c \in sess[s].acked
  /\ sess' = [sess EXCEPT ![s].acked = @ \ {c}]
  /\ Set(t, IF Shown(t) THEN [entry[t] EXCEPT !.prog = "low"] ELSE None)
  /\ UNCHANGED <<stray, ops, polled, poll, restore, requests, server, wire>>

\* The third attempt fails too.
ChunkFails(s, c) ==
  LET t == sess[s].id IN
  /\ c \in sess[s].flight \cup sess[s].acked
  /\ sess' = [sess EXCEPT ![s].flight = @ \ {c}, ![s].acked = @ \ {c}, ![s].failed = TRUE]
  /\ Set(t, IF Gone(t) THEN entry[t] ELSE [entry[t] EXCEPT !.err = TRUE])
  /\ UNCHANGED <<stray, ops, polled, poll, restore, requests, server, wire>>

\* An aborted attempt is followed by a look at the entry: the worker returns.
ChunkAbandoned(s, c) ==
  LET t == sess[s].id IN
  /\ c \in sess[s].flight \cup sess[s].acked
  /\ Shown(t) /\ entry[t].canc
  /\ sess' = [sess EXCEPT ![s].flight = @ \ {c}, ![s].acked = @ \ {c}, ![s].workers = @ - 1]
  /\ UNCHANGED <<entry, stray, ops, polled, poll, restore, requests, server, wire>>

\* All workers have returned; unless one failed, the poller takes over.
SessionEnds(s) ==
  /\ sess[s].pc = "work" /\ sess[s].flight \cup sess[s].acked = {}
  /\ sess[s].todo = {} \/ sess[s].failed \/ sess[s].workers = 0
  /\ sess' = [sess EXCEPT ![s].pc = "over", ![s].todo = {}, ![s].workers = 0]
  /\ IF sess[s].failed THEN UNCHANGED <<polled, poll>> ELSE Register(sess[s].id)
  /\ UNCHANGED <<entry, stray, ops, restore, requests, server, wire>>

-----------------------------------------------------------------------------
(* The user *)

\* cancelUpload, for an entry that is not done: cancels it, or dismisses it.
CancelUpload(t) ==
  /\ Does
  /\ Shown(t) /\ entry[t].status # "done"
  /\ IF entry[t].canc \/ entry[t].err
       THEN /\ Set(t, None) /\ stray' = StrayAfter({t}) /\ sess' = Detached({t})
            /\ UNCHANGED cancels
       ELSE /\ Set(t, [entry[t] EXCEPT !.canc = TRUE])
            /\ cancels' = cancels \cup {t}
            /\ UNCHANGED <<stray, sess>>
  /\ UNCHANGED <<polled, poll, restore, post, server, wire>>

\* retryUpload: the flags are cleared, the status stays.
RetryUpload(t) ==
  /\ Does
  /\ Shown(t) /\ (entry[t].err \/ entry[t].canc) /\ entry[t].prog # "full"
  /\ Set(t, [entry[t] EXCEPT !.err = FALSE, !.canc = FALSE, !.prog = "low"])
  /\ \/ /\ entry[t].origin = "file"
        /\ \E s \in FreeSlots :
             /\ \A x \in FreeSlots : s <= x
             /\ sess' = [sess EXCEPT ![s] = [FreeSession EXCEPT !.id = t, !.pc = "check"]]
        /\ UNCHANGED post
     \/ entry[t].origin = "url" /\ post' = [post EXCEPT ![t] = Post("retry")] /\ UNCHANGED sess
     \/ entry[t].origin = "server" /\ UNCHANGED <<post, sess>>
  /\ UNCHANGED <<stray, polled, poll, restore, cancels, server, wire>>

\* A download under a new id: its entry comes before the POST (the URL list, or a dropped
\* link), or after.
Fresh(t) == t \notin Locals /\ ~Shown(t) /\ srv[t] = "absent" /\ run[t] = "none"
            /\ post[t] = NoPost
Submit(t, by) ==
  /\ Does
  /\ Fresh(t)
  /\ post' = [post EXCEPT ![t] = Post(by)]
  /\ UNCHANGED <<stray, sess, polled, poll, restore, cancels, server, wire>>

SubmitLink(t) == Submit(t, "link") /\ Set(t, NewEntry("url"))
SubmitSocial(t) == Submit(t, "social") /\ Set(t, NewEntry("url"))
DropLink(t) == Submit(t, "link") /\ Set(t, NewEntry("url"))
SubmitMedia(t) == Submit(t, "media") /\ UNCHANGED entry
SubmitTorrent(t) == Submit(t, "torrent") /\ UNCHANGED entry

-----------------------------------------------------------------------------
Chunking(s) ==
  \/ \E c \in Chunks : TakeChunk(s, c) \/ ChunkArrives(s, c) \/ ChunkAnswered(s, c)
  \/ TakeFile(s) \/ CheckAnswered(s) \/ SessionEnds(s)
Polling == PollTick \/ PollAnswer \/ PollApply
Next ==
  \/ \E s \in Sessions : Chunking(s) \/ \E c \in Chunks : ChunkFails(s, c) \/ ChunkAbandoned(s, c)
  \/ Polling
  \/ \E t \in Tasks :
       RunStep(t) \/ CancelArrives(t) \/ CountdownEnds(t) \/ StrayEnds(t)
       \/ PostArrives(t) \/ PostAnswered(t) \/ PostRefused(t) \/ PostLost(t)
       \/ CancelUpload(t) \/ RetryUpload(t)
       \/ SubmitLink(t) \/ SubmitSocial(t) \/ DropLink(t) \/ SubmitMedia(t) \/ SubmitTorrent(t)
  \/ \E m \in wire : OnMessage(m)
  \/ OnClose \/ RestoreAnswer \/ RestoreApply
  \/ \E ids \in SUBSET Locals : AddFiles(ids)

Spec == Init /\ [][Next]_vars

\* Requests are answered, or fail, in finite time and timers fire.
FairSpec ==
  /\ Spec
  /\ \A s \in Sessions : WF_vars(Chunking(s))
  /\ WF_vars(Polling)
  /\ \A t \in Tasks : WF_vars(RunStep(t)) /\ WF_vars(CancelArrives(t))

-----------------------------------------------------------------------------
(* Properties *)

\* The entries, sessions, registrations and messages have the shape the code gives them.
TypeOK ==
  /\ entry \in [Tasks -> Entry \cup {None}]
  /\ stray \in [Tasks -> BOOLEAN]
  /\ \A s \in Sessions :
       /\ sess[s].pc \in {"free", "queued", "check", "work", "over", "skipped"}
       /\ Cardinality(sess[s].flight \cup sess[s].acked) <= sess[s].workers
       /\ sess[s].todo \cap (sess[s].flight \cup sess[s].acked) = {}
  /\ polled \in [Tasks -> {0, 1, NoPoll, Overdue}]
  /\ poll.pc = "off" => \A t \in Tasks : ~Polled(t)
  /\ srv \in [Tasks -> Statuses \cup {"absent"}]
  /\ wire \subseteq [id: Tasks, status: Statuses]

\* What the page shows as done was stored, whoever said so, the socket or the poller that
\* takes two missed polls for success: for a file this page sent once and a server that
\* was not restarted.  (A file cancelled before its first chunk arrived and added again
\* within one poll is shown as done while it is being sent.)
RunsOf(t) == {s \in Sessions : sess[s].id = t}
ShownDoneStored ==
  \A t \in Locals : Shown(t) /\ entry[t].status = "done" /\ Cardinality(RunsOf(t)) = 1
                     => t \in stored

\* What the user cancelled stays cancelled until he starts it again: no late message, no
\* answer to a poll and no restored list puts it back to work.
StartedAgain(t) ==
  \/ \E s \in Sessions : sess[s].pc = "free" /\ sess'[s].id = t
  \/ RetryUpload(t)
CancelHolds ==
  [][\A t \in Tasks : Shown(t) /\ entry[t].canc /\ entry'[t].shown
                       => entry'[t].canc \/ StartedAgain(t)]_vars

\* The poller settles what it was given, even if the socket loses every message: a file does
\* not stay in the list as running, unless its transfer outlasts the ten minutes of the
\* poller.  (Such a file, and one whose session failed and whose error a late "telegram"
\* message clears, may run for ever in the list.)
PollSettles ==
  \A t \in Tasks :
    Shown(t) /\ entry[t].origin = "file" /\ Polled(t) ~> Settled(t) \/ polled[t] = Overdue

\* finishTaskDone speaks of the countdown of a task that is done: what a countdown takes
\* off the list is done, not a new upload of the same file.
RemovesOnlyDone ==
  [][\A t \in Tasks : StrayEnds(t) /\ Shown(t) => entry[t].status = "done"]_vars
=============================================================================
