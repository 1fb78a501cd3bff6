------------------------------ MODULE FileStore ------------------------------
(***************************************************************************)
(* The file store of TeleCloud: rows of the SQL tables files and           *)
(* file_parts, and the messages of the Telegram log group that hold the    *)
(* bytes.  Nothing keeps the two in step but the order in which the        *)
(* handlers and the upload goroutines read and write them.                 *)
(*                                                                         *)
(* A folder tree and several owners are left to other modules: here one    *)
(* owner has a set of directories, and a name is a requested base name     *)
(* with the counter k of "base (k).ext" (k = 0: the plain name).           *)
(*                                                                         *)
(* Atomicity is that of the SQLite configuration: RWDB has one connection, *)
(* so a transaction excludes every other write, and RODB reads see what is *)
(* committed.                                                              *)
(***************************************************************************)
EXTENDS Naturals, FiniteSets

CONSTANTS
  Uploads,      \* upload goroutines, one run of ProcessCompleteUpload each
  Purges,       \* purge requests: emptying, deleting for good, expiring
  Dirs,         \* directories of the owner
  Bases,        \* requested file names
  Jobs,         \* what an upload may be asked: [dir, base, overwrite, parts]
  Ops,          \* which user operations the environment uses
  Faults,       \* which failures the environment injects
  UniqueIndex,  \* TRUE: idx_active_files exists (SQLite, Postgres)
  Dedup,        \* TRUE: start-up deletes rows of equal names (SQLite, MySQL)
  MaxRows,      \* bound on rows ever inserted
  MaxSuffix,    \* bound on the counter of a name (1000 in the code)
  MaxTries,     \* attempts at the INSERT under the lock (5 in the code)
  MaxOps,       \* bound on user operations
  MaxFaults,    \* bound on injected failures
  Nobody        \* no holder

OpKinds    == {"copy", "move", "rename", "trash", "restore"}
PurgeKinds == {"empty", "perm", "expire"}
FaultKinds == {"open", "db", "tg", "crash"}

ASSUME ConstantsOK ==
  /\ Nobody \notin Uploads
  /\ Jobs \subseteq [dir: Dirs, base: Bases, overwrite: BOOLEAN, parts: Nat \ {0}]
  /\ Ops \subseteq OpKinds \cup PurgeKinds
  /\ Faults \subseteq FaultKinds
  /\ UniqueIndex \in BOOLEAN
  /\ Dedup \in BOOLEAN
  /\ MaxRows \in Nat
  /\ MaxSuffix \in Nat
  /\ MaxTries \in Nat \ {0}
  /\ MaxOps \in Nat
  /\ MaxFaults \in Nat

VARIABLES
  file,        \* row id -> row, for the rows that exist
  nextId,      \* AUTOINCREMENT: ids are never reused
  tg,          \* messages present in the log group
  pendingDel,  \* messages handed to DeleteMessages and not yet deleted
  insertLock,  \* AcquireFileInsertLock, one mutex per directory
  job,         \* what each upload was asked
  pc,          \* where each upload is
  old,         \* existingID: the row an overwrite replaces, 0 if none
  pick,        \* counter of the name picked under the lock
  tries,       \* INSERT attempts made under the lock
  row,         \* fileID of the upload's placeholder row, 0 before the INSERT
  sent,        \* parts of the upload that Telegram has acknowledged
  purge,       \* state of each purge request
  ops, used,   \* how many user operations so far, and of which kinds
  faults       \* which failures so far, each at most once

vars == <<file, nextId, tg, pendingDel, insertLock, job, pc, old, pick, tries,
          row, sent, purge, ops, used, faults>>
tables == <<file, nextId>>
uploadVars == <<job, pc, old, pick, tries, row, sent, insertLock>>
bounds == <<ops, used, faults>>

Msg == Uploads \X (Nat \ {0})      \* <<u, i>>: the message that holds part i of u
RowId == Nat \ {0}
Row == [dir: Dirs, base: Bases, k: Nat, trashed: BOOLEAN,
        head: SUBSET Msg, parts: SUBSET Msg]  \* message_id (NULL: {}), file_parts
Purge == [pc: {"idle", "selected", "computed", "issued", "deleted"},
          kind: PurgeKinds, ids: SUBSET RowId, orphans: SUBSET Msg, seen: RowId]
IdlePurge == [pc |-> "idle", kind |-> "empty", ids |-> {}, orphans |-> {}, seen |-> 1]

-----------------------------------------------------------------------------
(* Queries on the tables *)

Rows == DOMAIN file
Refs(r) == file[r].head \cup file[r].parts
Without(f, ids) == [r \in DOMAIN f \ ids |-> f[r]]

At(r, d, b, k) == file[r].dir = d /\ file[r].base = b /\ file[r].k = k
Occupied(d, b, k, except) ==
  \E r \in Rows \ {except} : At(r, d, b, k) /\ ~file[r].trashed
FreeSuffixes(d, b, except) == {k \in 0 .. MaxSuffix : ~Occupied(d, b, k, except)}

\* GetUniqueFilename: the first of "b", "b (1)", ... that no other active row has.
\* (After 1000 taken names the code returns the last one; the bound MaxSuffix is
\* never reached, each caller requires a free suffix.)
UniqueSuffix(d, b, except) ==
  CHOOSE k \in FreeSuffixes(d, b, except) :
    \A j \in FreeSuffixes(d, b, except) : k <= j

\* GetOrphanedMessages: messages of the given rows that no other row references.
OrphansNoCopyCheck(ids) == UNION {Refs(r) : r \in ids \cap Rows}    \* a mutant
Orphans(ids) ==
  {m \in UNION {Refs(r) : r \in ids \cap Rows} :
     \A r \in Rows \ ids : m \notin Refs(r)}

\* idx_active_files would refuse an active row at this place.
Refused(d, b, k, except) == UniqueIndex /\ Occupied(d, b, k, except)

-----------------------------------------------------------------------------
Init ==
  /\ file = [r \in {} |-> {}]
  /\ nextId = 1
  /\ tg = {}
  /\ pendingDel = {}
  /\ insertLock = [d \in Dirs |-> Nobody]
  /\ job \in [Uploads -> Jobs]
  /\ pc = [u \in Uploads |-> "idle"]
  /\ old = [u \in Uploads |-> 0]
  /\ pick = [u \in Uploads |-> 0]
  /\ tries = [u \in Uploads |-> 0]
  /\ row = [u \in Uploads |-> 0]
  /\ sent = [u \in Uploads |-> {}]
  /\ purge = [p \in Purges |-> IdlePurge]
  /\ ops = 0
  /\ used = {}
  /\ faults = {}

Fault(kind) ==
  /\ kind \in Faults \ faults
  /\ Cardinality(faults) < MaxFaults
  /\ faults' = faults \cup {kind}

-----------------------------------------------------------------------------
(* ProcessCompleteUpload, from the moment it owns an upload slot *)

Dir(u) == job[u].dir
Base(u) == job[u].base
Parts(u) == 1 .. job[u].parts
Messages(u) == {<<u, i>> : i \in sent[u]}
Go(u, to) == pc' = [pc EXCEPT ![u] = to]

\* The row an overwrite will replace is looked up before the lock is taken, by
\* name only: a trashed row or the placeholder of another upload qualifies too.
Begin(u) ==
  /\ pc[u] = "idle"
  /\ LET found == {r \in Rows : At(r, Dir(u), Base(u), 0)}
     IN  IF job[u].overwrite /\ found # {}
           THEN \E r \in found : old' = [old EXCEPT ![u] = r]
           ELSE UNCHANGED old
  /\ Go(u, "ready")
  /\ UNCHANGED <<tables, tg, pendingDel, insertLock, job, pick, tries, row, sent,
                 purge, bounds>>

LockIgnored(d) == TRUE                    \* a mutant: the mutex is not taken
LockFree(d) == insertLock[d] = Nobody

LockAndPick(u) ==
  /\ pc[u] = "ready"
  /\ LockFree(Dir(u))
  /\ FreeSuffixes(Dir(u), Base(u), 0) # {}
  /\ insertLock' = [insertLock EXCEPT ![Dir(u)] = u]
  /\ pick' = [pick EXCEPT ![u] = UniqueSuffix(Dir(u), Base(u), 0)]
  /\ Go(u, "named")
  /\ UNCHANGED <<tables, tg, pendingDel, job, old, tries, row, sent, purge, bounds>>

NewRow(d, b, k, head, parts) ==
  [dir |-> d, base |-> b, k |-> k, trashed |-> FALSE, head |-> head, parts |-> parts]

InsertReusesId(new) ==                         \* a mutant: an id is given out twice
  /\ nextId <= MaxRows
  /\ file' = [r \in Rows \cup {nextId} |-> IF r = nextId THEN new ELSE file[r]]
  /\ UNCHANGED nextId
Insert(new) ==
  /\ nextId <= MaxRows
  /\ file' = [r \in Rows \cup {nextId} |-> IF r = nextId THEN new ELSE file[r]]
  /\ nextId' = nextId + 1

InsertPlaceholder(u) ==
  /\ pc[u] = "named"
  /\ ~Refused(Dir(u), Base(u), pick[u], 0)
  /\ Insert(NewRow(Dir(u), Base(u), pick[u], {}, {}))
  /\ row' = [row EXCEPT ![u] = nextId]
  /\ insertLock' = [insertLock EXCEPT ![Dir(u)] = Nobody]
  /\ Go(u, "upload")
  /\ UNCHANGED <<tg, pendingDel, job, old, pick, tries, sent, purge, bounds>>

\* The index refuses the row (a writer that does not take the lock came first): a
\* new name is picked, and after the last attempt the upload ends with err_db_error.
InsertRefused(u) ==
  /\ pc[u] = "named"
  /\ Refused(Dir(u), Base(u), pick[u], 0)
  /\ FreeSuffixes(Dir(u), Base(u), 0) # {}
  /\ tries' = [tries EXCEPT ![u] = @ + 1]
  /\ IF tries[u] + 1 < MaxTries
       THEN /\ pick' = [pick EXCEPT ![u] = UniqueSuffix(Dir(u), Base(u), 0)]
            /\ UNCHANGED <<pc, insertLock>>
       ELSE /\ insertLock' = [insertLock EXCEPT ![Dir(u)] = Nobody]
            /\ Go(u, "error")
            /\ UNCHANGED pick
  /\ UNCHANGED <<tables, tg, pendingDel, job, old, row, sent, purge, bounds>>

\* os.Open of the temp file fails before the cleanup is deferred: the placeholder stays.
OpenFails(u) ==
  /\ pc[u] = "upload"
  /\ sent[u] = {}
  /\ Fault("open")
  /\ Go(u, "error")
  /\ UNCHANGED <<tables, tg, pendingDel, insertLock, job, old, pick, tries, row,
                 sent, purge, ops, used>>

SendPart(u, i) ==
  /\ pc[u] = "upload"
  /\ i \in Parts(u) \ sent[u]
  /\ tg' = tg \cup {<<u, i>>}
  /\ sent' = [sent EXCEPT ![u] = @ \cup {i}]
  /\ UNCHANGED <<tables, pendingDel, insertLock, job, pc, old, pick, tries, row,
                 purge, bounds>>

\* The deferred cleanup: delete what was sent, drop the placeholder.
CleanupKeepsMessages(u) ==                     \* a mutant
  /\ UNCHANGED pendingDel
  /\ file' = Without(file, {row[u]})
  /\ Go(u, "error")
CleanupKeepsRow(u) ==                          \* a mutant
  /\ pendingDel' = pendingDel \cup Messages(u)
  /\ UNCHANGED file
  /\ Go(u, "error")
Cleanup(u) ==
  /\ pendingDel' = pendingDel \cup Messages(u)
  /\ file' = Without(file, {row[u]})
  /\ Go(u, "error")

AnySent(u) == sent[u] # {}                     \* a mutant: a part may be missing
AllSent(u) == sent[u] = Parts(u)

\* A part ran out of attempts, or the task was cancelled.
UploadFails(u) ==
  /\ pc[u] = "upload"
  /\ ~AllSent(u)
  /\ Cleanup(u)
  /\ UNCHANGED <<nextId, tg, insertLock, job, old, pick, tries, row, sent, purge,
                 bounds>>

Overwrites(u) == job[u].overwrite /\ old[u] # 0

SetHeadByName(f, u) ==                         \* a mutant: WHERE filename = ?
  [r \in DOMAIN f |-> IF f[r].dir = Dir(u) /\ f[r].base = Base(u)
                        THEN [f[r] EXCEPT !.head = {<<u, 1>>}] ELSE f[r]]
SetHead(f, u) ==
  IF row[u] \in DOMAIN f
    THEN [f EXCEPT ![row[u]] = [@ EXCEPT !.head = {<<u, 1>>}]]
    ELSE f                                     \* UPDATE of no row is no error
SetPartsSkipped(f, u) == f                     \* a mutant
SetParts(f, u) ==
  IF job[u].parts > 1
    THEN [f EXCEPT ![row[u]] = [@ EXCEPT !.parts = Messages(u)]]
    ELSE f

\* UPDATE message_id, filename: its error is ignored, so the index may leave the
\* row as it was.  Another active row than the replaced one holds the plain name:
NameTaken(f, u) ==
  /\ UniqueIndex
  /\ ~f[row[u]].trashed
  /\ \E r \in DOMAIN f \ {row[u]} :
       /\ f[r].dir = f[row[u]].dir /\ f[r].base = Base(u) /\ f[r].k = 0
       /\ ~f[r].trashed
TakeOver(f, u) ==
  IF row[u] \notin DOMAIN f \/ NameTaken(f, u)
    THEN f
    ELSE [f EXCEPT ![row[u]] =
            [@ EXCEPT !.head = {<<u, 1>>}, !.base = Base(u), !.k = 0]]

SwapTakesFirst(f, u) == Without(TakeOver(f, u), {old[u]})   \* a mutant: wrong order
Swap(f, u) == TakeOver(Without(f, {old[u]}), u)

Finalized(u) ==
  IF Overwrites(u) THEN Swap(SetParts(file, u), u)
                   ELSE SetHead(SetParts(file, u), u)

Replaced(u) == IF Overwrites(u) THEN Orphans({old[u]}) ELSE {}

ReadyToFinalize(u) == pc[u] = "upload" /\ AllSent(u)

\* The foreign key of file_parts refuses parts of a row that is gone.
PartsRefused(u) == job[u].parts > 1 /\ row[u] \notin Rows

Finalize(u) ==
  /\ ReadyToFinalize(u)
  /\ ~PartsRefused(u)
  /\ file' = Finalized(u)
  /\ pendingDel' = pendingDel \cup Replaced(u)
  /\ Go(u, "done")
  /\ UNCHANGED <<nextId, tg, insertLock, job, old, pick, tries, row, sent, purge,
                 bounds>>

FinalizeRefused(u) ==
  /\ ReadyToFinalize(u)
  /\ PartsRefused(u)
  /\ Cleanup(u)
  /\ UNCHANGED <<nextId, tg, insertLock, job, old, pick, tries, row, sent, purge,
                 bounds>>

\* The UPDATE or the commit fails.  In an overwrite the messages of the replaced
\* row were handed to DeleteMessages before the commit.
FinalizeFails(u) ==
  /\ ReadyToFinalize(u)
  /\ ~PartsRefused(u)
  /\ Fault("db")
  /\ pendingDel' = pendingDel \cup Messages(u) \cup Replaced(u)
  /\ file' = Without(file, {row[u]})
  /\ Go(u, "error")
  /\ UNCHANGED <<nextId, tg, insertLock, job, old, pick, tries, row, sent, purge, ops, used>>

-----------------------------------------------------------------------------
(* DeleteMessages: errors are ignored by every caller *)

TelegramDeletes(m) ==
  /\ m \in pendingDel
  /\ tg' = tg \ {m}
  /\ pendingDel' = pendingDel \ {m}
  /\ UNCHANGED <<tables, uploadVars, purge, bounds>>

TelegramRefuses(m) ==
  /\ m \in pendingDel
  /\ Fault("tg")
  /\ pendingDel' = pendingDel \ {m}
  /\ UNCHANGED <<tables, tg, uploadVars, purge, ops, used>>

-----------------------------------------------------------------------------
(* User operations, each one transaction or one statement *)

Op(kind) ==
  /\ kind \in Ops
  /\ ops < MaxOps
  /\ ops' = ops + 1
  /\ used' = used \cup {kind}
  /\ UNCHANGED <<tg, pendingDel, uploadVars, purge, faults>>

\* handlePostPaste, copy of a file: skipped while message_id is NULL.  The item is
\* looked up by id alone, so a trashed file can be copied.
PasteCopy(r, d) ==
  /\ Op("copy")
  /\ r \in Rows
  /\ LockFree(d)
  /\ file[r].head # {}
  /\ FreeSuffixes(d, file[r].base, 0) # {}
  /\ Insert(NewRow(d, file[r].base, UniqueSuffix(d, file[r].base, 0),
                   file[r].head, file[r].parts))

PasteMove(r, d) ==
  /\ Op("move")
  /\ r \in Rows
  /\ LockFree(d)
  /\ d # file[r].dir
  /\ FreeSuffixes(d, file[r].base, r) # {}
  /\ file' = [file EXCEPT ![r] =
                [@ EXCEPT !.dir = d, !.k = UniqueSuffix(d, file[r].base, r)]]
  /\ UNCHANGED nextId

\* handleRenameFile takes no insert lock.
Rename(r, b) ==
  /\ Op("rename")
  /\ r \in Rows
  /\ FreeSuffixes(file[r].dir, b, r) # {}
  /\ file' = [file EXCEPT ![r] =
                [@ EXCEPT !.base = b, !.k = UniqueSuffix(file[r].dir, b, r)]]
  /\ UNCHANGED nextId

Trash(r) ==
  /\ Op("trash")
  /\ r \in Rows
  /\ file' = [file EXCEPT ![r] = [@ EXCEPT !.trashed = TRUE]]
  /\ UNCHANGED nextId

RestoreSuffix(r) == UniqueSuffix(file[r].dir, file[r].base, r)
Restore(r) ==
  /\ Op("restore")
  /\ r \in Rows
  /\ file[r].trashed
  /\ FreeSuffixes(file[r].dir, file[r].base, r) # {}
  /\ file' = [file EXCEPT ![r] = [@ EXCEPT !.trashed = FALSE, !.k = RestoreSuffix(r)]]
  /\ UNCHANGED nextId

-----------------------------------------------------------------------------
(* Purges: handleEmptyTrash, handlePermanentDeleteFile, startTrashCleanupTask. *)
(* Each is a chain of statements with no transaction around it.                *)

Step(p, to) == purge' = [purge EXCEPT ![p] = [@ EXCEPT !.pc = to]]

Selectable(kind) ==
  LET trash == {r \in Rows : file[r].trashed}
  IN  CASE kind = "empty"  -> {trash}
        [] kind = "expire" -> {{r} : r \in trash}
        [] kind = "perm"   -> {{r} : r \in Rows}

PurgeSelect(p, kind) ==
  /\ purge[p].pc = "idle"
  /\ kind \in Ops
  /\ ops < MaxOps
  /\ ops' = ops + 1
  /\ used' = used \cup {kind}
  /\ \E ids \in Selectable(kind) \ {{}} :
       purge' = [purge EXCEPT ![p] =
                   [@ EXCEPT !.pc = "selected", !.kind = kind, !.ids = ids]]
  /\ UNCHANGED <<tables, tg, pendingDel, uploadVars, faults>>

\* The expiry task looks again whether the row exists, not whether it is in the trash.
PurgeCompute(p) ==
  /\ purge[p].pc = "selected"
  /\ IF purge[p].kind = "expire" /\ purge[p].ids \cap Rows = {}
       THEN purge' = [purge EXCEPT ![p] = IdlePurge]
       ELSE purge' = [purge EXCEPT ![p] =
                      [@ EXCEPT !.pc = "computed",
                                !.orphans = Orphans(purge[p].ids),
                                !.seen = nextId]]
  /\ UNCHANGED <<tables, tg, pendingDel, uploadVars, bounds>>

AlwaysMessagesFirst(p) == TRUE                 \* a mutant
MessagesFirst(p) == purge[p].kind = "empty"

\* Emptying the trash starts DeleteMessages before it deletes the rows ...
PurgeIssue(p) ==
  /\ purge[p].pc = "computed"
  /\ MessagesFirst(p)
  /\ pendingDel' = pendingDel \cup purge[p].orphans
  /\ Step(p, "issued")
  /\ UNCHANGED <<tables, tg, uploadVars, bounds>>

RowsFirst(p) == purge[p].pc = "computed" /\ ~MessagesFirst(p)
StillTrashed(p) == {r \in purge[p].ids \cap Rows : file[r].trashed}  \* a mutant
RowsToDelete(p) == purge[p].ids

\* ... the two others after it.
PurgeRows(p) ==
  /\ purge[p].pc = "issued" \/ RowsFirst(p)
  /\ file' = Without(file, RowsToDelete(p))
  /\ purge' = [purge EXCEPT ![p] =
                 IF RowsFirst(p) THEN [@ EXCEPT !.pc = "deleted"] ELSE IdlePurge]
  /\ UNCHANGED <<nextId, tg, pendingDel, uploadVars, bounds>>

PurgeTelegram(p) ==
  /\ purge[p].pc = "deleted"
  /\ pendingDel' = pendingDel \cup purge[p].orphans
  /\ purge' = [purge EXCEPT ![p] = IdlePurge]
  /\ UNCHANGED <<tables, tg, uploadVars, bounds>>

-----------------------------------------------------------------------------
\* InitDB keeps the oldest row of every name, whatever is in the trash.
Duplicates ==
  {r \in Rows : \E s \in Rows : s < r /\ At(r, file[s].dir, file[s].base, file[s].k)}

\* The process ends and starts again: goroutines, locks and pending deletions are
\* gone, nothing of them is on disk, and start-up does not look for what they left.
Crash ==
  /\ Fault("crash")
  /\ file' = Without(file, IF Dedup THEN Duplicates ELSE {})
  /\ pc' = [u \in Uploads |->
              IF pc[u] \in {"ready", "named", "upload"} THEN "lost" ELSE pc[u]]
  /\ insertLock' = [d \in Dirs |-> Nobody]
  /\ pendingDel' = {}
  /\ purge' = [p \in Purges |-> IdlePurge]
  /\ UNCHANGED <<nextId, tg, job, old, pick, tries, row, sent, ops, used>>

UploadStep(u) ==
  \/ LockAndPick(u)
  \/ InsertPlaceholder(u)
  \/ InsertRefused(u)
  \/ \E i \in Parts(u) : SendPart(u, i)
  \/ UploadFails(u)
  \/ Finalize(u)
  \/ FinalizeRefused(u)
PurgeStep(p) ==
  \/ PurgeCompute(p)
  \/ PurgeIssue(p)
  \/ PurgeRows(p)
  \/ PurgeTelegram(p)
UserOp ==
  \E r \in Rows :
    \/ \E d \in Dirs : PasteCopy(r, d) \/ PasteMove(r, d)
    \/ \E b \in Bases : Rename(r, b)
    \/ Trash(r)
    \/ Restore(r)

Next ==
  \/ \E u \in Uploads : Begin(u) \/ UploadStep(u) \/ OpenFails(u) \/ FinalizeFails(u)
  \/ \E m \in pendingDel : TelegramDeletes(m) \/ TelegramRefuses(m)
  \/ UserOp
  \/ \E p \in Purges :
       PurgeStep(p) \/ \E kind \in PurgeKinds : PurgeSelect(p, kind)
  \/ Crash

Spec == Init /\ [][Next]_vars

\* A goroutine that runs makes progress, and DeleteMessages ends.
FairSpec ==
  /\ Spec
  /\ \A u \in Uploads : WF_vars(UploadStep(u))
  /\ \A p \in Purges : WF_vars(PurgeStep(p))
  /\ WF_vars(\E m \in pendingDel : TelegramDeletes(m))

-----------------------------------------------------------------------------
(* Properties *)

\* Every variable keeps its type; an upload that holds a lock is between picking a
\* name and inserting; row ids are below the counter.
TypeOK ==
  /\ nextId \in RowId
  /\ Rows \subseteq 1 .. (nextId - 1)
  /\ file \in [Rows -> Row]
  /\ tg \subseteq Msg
  /\ pendingDel \subseteq Msg
  /\ insertLock \in [Dirs -> Uploads \cup {Nobody}]
  /\ job \in [Uploads -> Jobs]
  /\ pc \in [Uploads -> {"idle", "ready", "named", "upload", "done", "error", "lost"}]
  /\ old \in [Uploads -> 0 .. (nextId - 1)]
  /\ pick \in [Uploads -> Nat]
  /\ tries \in [Uploads -> Nat]
  /\ row \in [Uploads -> 0 .. (nextId - 1)]
  /\ sent \in [Uploads -> SUBSET (Nat \ {0})]
  /\ purge \in [Purges -> Purge]
  /\ ops \in Nat
  /\ used \subseteq OpKinds \cup PurgeKinds
  /\ faults \subseteq FaultKinds

PlainUploads == \A u \in Uploads : ~job[u].overwrite

\* No two active files of a directory have the same name, whatever uploads, copies
\* and moves interleave: what AcquireFileInsertLock is for where no index helps.
\* (Renaming, restoring and overwriting do not take it.)
UniqueActive ==
  UniqueIndex \/ (PlainUploads /\ used \cap {"rename", "restore"} = {}) =>
    \A r, s \in Rows :
      /\ ~file[r].trashed /\ ~file[s].trashed
      /\ At(r, file[s].dir, file[s].base, file[s].k)
      => r = s

HoldsAllOf(r, u) ==
  /\ file[r].head = {<<u, 1>>}
  /\ file[r].parts = IF job[u].parts > 1 THEN {<<u, i>> : i \in Parts(u)} ELSE {}

\* A row refers to nothing (a placeholder) or to every part of one upload: a reader
\* never sees a file with some of its parts, copies of files included.  (An overwrite
\* whose UPDATE fails leaves a row with parts and no message_id.)
RowsWhole ==
  PlainUploads => \A r \in Rows : Refs(r) = {} \/ \E u \in Uploads : HoldsAllOf(r, u)

\* An upload reported done whose row was not deleted by somebody has its file.
DoneMeansStored ==
  \A u \in Uploads : pc[u] = "done" /\ row[u] \in Rows => HoldsAllOf(row[u], u)
\* It holds where no upload overwrites.
DoneStored == PlainUploads => DoneMeansStored

\* The messages of a file are settled once: no later step of any handler gives an
\* existing row other messages (the orphan query of a purge relies on it).
RefsWriteOnce ==
  [][\A r \in Rows \cap Rows' :
       file[r].head # {} => /\ file'[r].head = file[r].head
                            /\ file'[r].parts = file[r].parts]_vars

\* The messages a purge is going to delete are referenced by no row outside its
\* list that existed when GetOrphanedMessages ran.
PurgeListSound ==
  \A p \in Purges : \A r \in Rows :
    r < purge[p].seen /\ Refs(r) \cap purge[p].orphans # {} => r \in purge[p].ids

\* Rows of a trash being emptied whose messages are already being deleted.
Doomed == UNION {purge[p].ids : p \in {q \in Purges : purge[q].pc = "issued"}}

\* Three things the code leaves open: copies where somebody deletes for good (one made
\* while a purge holds the list of messages it will delete loses them), restarts where the
\* trash is emptied, and a failing commit of an overwrite.
CopiedWhilePurging == "copy" \in used /\ used \cap PurgeKinds # {}
Exempt ==
  \/ CopiedWhilePurging
  \/ "empty" \in used /\ "crash" \in faults
  \/ "db" \in faults /\ ~PlainUploads

\* The bytes of every other file are in Telegram and nobody is deleting them, those three
\* cases apart.
NoDangling ==
  Exempt \/ \A r \in Rows \ Doomed : Refs(r) \subseteq tg \ pendingDel

\* What a reader sees of the store: the files, and the messages nobody is deleting.
Content(u) == {<<u, i>> : i \in Parts(u)}
Whole == {Content(u) : u \in Uploads}
Shelf == [r \in {s \in Rows \ Doomed : file[s].head # {}} |-> Refs(r)]
Media == tg \ pendingDel
Shop == INSTANCE Library WITH shelf <- Shelf, media <- Media, whole <- Whole

\* The store is the library a reader is promised, until one of the three happens: files
\* appear whole, do not change and can be read, overwrites, purges and restarts included.
KeepsLibrary == Shop!Init /\ [][Exempt' \/ Shop!Next]_(Shop!libraryVars)

\* Every message is referenced by a row, being deleted, or owned by an upload under
\* way: no path through an upload, successful or not, leaks one, unless the server or
\* Telegram fails or somebody deletes the row of the upload.
NoLeak ==
  \/ faults \cap {"crash", "tg"} # {} \/ used \cap PurgeKinds # {} \/ ~PlainUploads
  \/ \A m \in tg :
       \/ \E r \in Rows : m \in Refs(r)
       \/ m \in pendingDel
       \/ pc[m[1]] = "upload"

\* The step that removes the file an overwrite replaces leaves the new one complete
\* under the name: there is no state without either.  (Somebody who deletes, moves or
\* renames files meanwhile can make the ignored UPDATE fail.)
OverwriteKeepsOne ==
  [][\A u \in Uploads :
       /\ used \subseteq {"copy"}
       /\ pc[u] = "upload" /\ pc'[u] = "done"
       /\ Overwrites(u) /\ old[u] \in Rows
       => /\ old[u] \notin Rows'
          /\ row[u] \in Rows'
          /\ HoldsAllOf(row[u], u)'
          /\ At(row[u], Dir(u), Base(u), 0)']_vars

\* An upload that owns a slot ends, and its placeholder does not outlive it as an
\* unreadable file.  (A restart and a temp file that cannot be opened do leave it.)
PlaceholderResolves ==
  \A u \in Uploads :
    pc[u] = "ready" ~> \/ /\ pc[u] \in {"done", "error"}
                          /\ row[u] \in Rows => file[row[u]].head # {}
                       \/ faults \cap {"open", "crash"} # {}

\* What GetOrphanedMessages promises ("if other files still reference a message
\* (e.g. via copy), that message is not deleted"), for files outside every purge.
SharedMessagesKept ==
  \A r \in Rows :
    (\A p \in Purges : r \notin purge[p].ids) => Refs(r) \subseteq tg \ pendingDel

\* What the comment on it says the deduplication of InitDB is for: a row it deletes is
\* one the unique index of active files would refuse.
DedupSparesUnique ==
  [][Crash => \A r \in Rows \ Rows' :
       /\ ~file[r].trashed
       /\ \E s \in Rows \ {r} : At(r, file[s].dir, file[s].base, file[s].k)
                               /\ ~file[s].trashed]_vars

-----------------------------------------------------------------------------
(* The inductive invariant behind PurgeListSound and RefsWriteOnce *)

Pending == {"idle", "ready", "named", "upload"}

\* A placeholder belongs to one upload, which has none before its INSERT.
OwnPlaceholder ==
  /\ \A u, v \in Uploads : row[u] # 0 /\ row[u] = row[v] => u = v
  /\ \A u \in Uploads : pc[u] \in {"idle", "ready", "named"} => row[u] = 0

\* While its parts are being sent, the placeholder refers to nothing.
PlaceholderEmpty ==
  \A u \in Uploads : pc[u] = "upload" /\ row[u] \in Rows => Refs(row[u]) = {}

\* No row and no purge knows a message of an upload that has not ended.
FreshMessages ==
  /\ \A r \in Rows : \A m \in Refs(r) : pc[m[1]] \notin Pending
  /\ \A p \in Purges : \A m \in purge[p].orphans : pc[m[1]] \notin Pending

PurgeSeen ==
  \A p \in Purges :
    /\ purge[p].seen <= nextId
    /\ purge[p].pc \in {"idle", "selected"} => purge[p].orphans = {}

\* Conjunction of the above: holds initially and is kept by every step.
IInv == /\ TypeOK
        /\ OwnPlaceholder
        /\ PlaceholderEmpty
        /\ FreshMessages
        /\ PurgeSeen
        /\ PurgeListSound

=============================================================================
