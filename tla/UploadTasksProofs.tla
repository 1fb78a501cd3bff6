--------------------------- MODULE UploadTasksProofs ---------------------------
(***************************************************************************)
(* Proofs about UploadTasks, for every number of goroutines and tasks,     *)
(* every mix of kinds, every capacity of the two semaphores, with and      *)
(* without retries: the types and the slots, the cancel functions, and     *)
(* that the registry keeps the promise of TaskPromise.                     *)
(***************************************************************************)
EXTENDS UploadTasks, FiniteSetTheorems, TLAPS

\* The slots are held by finitely many goroutines.
FiniteSlots == IsFiniteSet(down) /\ IsFiniteSet(up)

Typed == TypeOK /\ FiniteSlots

-----------------------------------------------------------------------------
(* Reports *)

\* A report writes a status and counts a timer, or leaves the registry alone.
LEMMA ReportType ==
  ASSUME TypeOK, NEW t \in Tasks, NEW s \in Statuses, Report(t, s)
  PROVE  status' \in [Tasks -> Statuses] /\ timers' \in [Tasks -> Nat]
  BY DEF TypeOK, Report, Record, registry

LEMMA RecordType ==
  ASSUME TypeOK, NEW t \in Tasks, NEW s \in Statuses, Record(t, s)
  PROVE  status' \in [Tasks -> Statuses] /\ timers' \in [Tasks -> Nat]
  BY DEF TypeOK, Record

LEMMA StatusesAre ==
  /\ "waiting_slot" \in Statuses /\ "downloading" \in Statuses /\ "telegram" \in Statuses
  /\ "done" \in Statuses /\ "error" \in Statuses /\ "cancelled" \in Statuses
  BY DEF Statuses, Terminal

-----------------------------------------------------------------------------
(* Types and slots *)

\* What a step of a worker does to its own counter.
LEMMA GoType ==
  ASSUME TypeOK, NEW w \in Workers, NEW to \in Places, Go(w, to)
  PROVE  /\ pc' \in [Workers -> Places]
         /\ pc'[w] = to
         /\ \A v \in Workers \ {w} : pc'[v] = pc[v]
  BY DEF TypeOK, Go

\* A slot is taken only while one is free.
LEMMA TakeSlot ==
  ASSUME NEW S, IsFiniteSet(S), NEW n \in Nat, Cardinality(S) < n, NEW w
  PROVE  IsFiniteSet(S \cup {w}) /\ Cardinality(S \cup {w}) <= n
<1>1. Cardinality(S) \in Nat
  BY FS_CardinalityType
<1> QED
  BY <1>1, FS_AddElement

LEMMA LeaveSlot ==
  ASSUME NEW S, IsFiniteSet(S), NEW n \in Nat, Cardinality(S) <= n, NEW w
  PROVE  IsFiniteSet(S \ {w}) /\ Cardinality(S \ {w}) <= n
<1>1. Cardinality(S) \in Nat
  BY FS_CardinalityType
<1>2. /\ IsFiniteSet(S \ {w})
      /\ Cardinality(S \ {w}) = IF w \in S THEN Cardinality(S) - 1 ELSE Cardinality(S)
  BY FS_RemoveElement
<1> QED
  BY <1>1, <1>2

LEMMA InitTyped == Init => Typed
<1> SUFFICES ASSUME Init PROVE Typed
  OBVIOUS
<1>1. Cardinality({}) = 0 /\ IsFiniteSet({})
  BY FS_EmptySet
<1> QED
  BY <1>1, ConstantsOK DEF Init, Typed, TypeOK, FiniteSlots, Places, Statuses

\* A step of a worker: its own counter, flag and slots, and the registry.
LEMMA WorkerTyped ==
  ASSUME Typed, NEW w \in Workers, Spawn(w) \/ WorkerStep(w) \/ Progress(w)
  PROVE  Typed'
<1> USE StatusesAre, ConstantsOK
<1> task[w] \in Tasks
  BY DEF Typed, TypeOK
<1>1. CASE Spawn(w)
  <2>1. pc' \in [Workers -> Places]
    BY <1>1, GoType DEF Spawn, Places, Typed
  <2> QED
    BY <1>1, <2>1 DEF Spawn, Typed, TypeOK, FiniteSlots, registry
<1>2. CASE Register(w)
  <2>1. pc' \in [Workers -> Places]
    BY <1>2, GoType DEF Register, Places, Typed
  <2> QED
    BY <1>2, <2>1 DEF Register, Typed, TypeOK, FiniteSlots, registry
<1>3. CASE QueueDown(w)
  <2>1. pc' \in [Workers -> Places]
    BY <1>3, GoType DEF QueueDown, Places, Typed
  <2>2. status' \in [Tasks -> Statuses] /\ timers' \in [Tasks -> Nat]
    BY <1>3, ReportType DEF QueueDown, Typed
  <2> QED
    BY <1>3, <2>1, <2>2 DEF QueueDown, Typed, TypeOK, FiniteSlots
<1>4. CASE StartDownload(w)
  <2>1. pc' \in [Workers -> Places]
    BY <1>4, GoType DEF StartDownload, Places, Typed
  <2>2. status' \in [Tasks -> Statuses] /\ timers' \in [Tasks -> Nat]
    BY <1>4, ReportType DEF StartDownload, Typed
  <2>3. IsFiniteSet(down') /\ Cardinality(down') <= DownSlots
    BY <1>4, TakeSlot DEF StartDownload, Typed, FiniteSlots
  <2> QED
    BY <1>4, <2>1, <2>2, <2>3 DEF StartDownload, Typed, TypeOK, FiniteSlots
<1>5. CASE QueueUp(w)
  <2>1. pc' \in [Workers -> Places]
    BY <1>5, GoType DEF QueueUp, Places, Typed
  <2>2. status' \in [Tasks -> Statuses] /\ timers' \in [Tasks -> Nat]
    BY <1>5, ReportType DEF QueueUp, Typed
  <2> QED
    BY <1>5, <2>1, <2>2 DEF QueueUp, Typed, TypeOK, FiniteSlots
<1>6. CASE HandOver(w)
  <2>1. pc' \in [Workers -> Places]
    BY <1>6, GoType DEF HandOver, Places, Typed
  <2>2. IsFiniteSet(down') /\ Cardinality(down') <= DownSlots
    BY <1>6, LeaveSlot DEF HandOver, Typed, TypeOK, FiniteSlots
  <2> QED
    BY <1>6, <2>1, <2>2 DEF HandOver, Typed, TypeOK, FiniteSlots, registry
<1>7. CASE StartUpload(w)
  <2>1. pc' \in [Workers -> Places]
    BY <1>7, GoType DEF StartUpload, Places, Typed
  <2>2. status' \in [Tasks -> Statuses] /\ timers' \in [Tasks -> Nat]
    BY <1>7, ReportType DEF StartUpload, Typed
  <2>3. IsFiniteSet(up') /\ Cardinality(up') <= UpSlots
    BY <1>7, TakeSlot DEF StartUpload, UpSlotFree, Typed, FiniteSlots
  <2> QED
    BY <1>7, <2>1, <2>2, <2>3 DEF StartUpload, Typed, TypeOK, FiniteSlots
<1>8. CASE LeavesQueue(w)
  <2>1. pc' \in [Workers -> Places]
    BY <1>8, GoType DEF LeavesQueue, Places, Typed
  <2>2. status' \in [Tasks -> Statuses] /\ timers' \in [Tasks -> Nat]
    BY <1>8, ReportType DEF LeavesQueue, Typed
  <2> QED
    BY <1>8, <2>1, <2>2 DEF LeavesQueue, Typed, TypeOK, FiniteSlots
<1>9. CASE Fails(w)
  <2>1. pc' \in [Workers -> Places]
    BY <1>9, GoType DEF Fails, Places, Typed
  <2>2. status' \in [Tasks -> Statuses] /\ timers' \in [Tasks -> Nat]
    BY <1>9, ReportType DEF Fails, Typed, TypeOK, registry
  <2> QED
    BY <1>9, <2>1, <2>2 DEF Fails, Typed, TypeOK, FiniteSlots
<1>10. CASE PartsSent(w)
  <2>1. pc' \in [Workers -> Places]
    BY <1>10, GoType DEF PartsSent, Places, Typed
  <2> QED
    BY <1>10, <2>1 DEF PartsSent, Typed, TypeOK, FiniteSlots, registry
<1>11. CASE Commit(w)
  <2>1. pc' \in [Workers -> Places]
    BY <1>11, GoType DEF Commit, Places, Typed
  <2> QED
    BY <1>11, <2>1 DEF Commit, Typed, TypeOK, FiniteSlots, registry
<1>12. CASE CommitFails(w)
  <2>1. pc' \in [Workers -> Places]
    BY <1>12, GoType DEF CommitFails, Places, Typed
  <2>2. status' \in [Tasks -> Statuses] /\ timers' \in [Tasks -> Nat]
    BY <1>12, ReportType DEF CommitFails, Typed
  <2> QED
    BY <1>12, <2>1, <2>2 DEF CommitFails, Typed, TypeOK, FiniteSlots
<1>13. CASE ReportDone(w)
  <2>1. pc' \in [Workers -> Places]
    BY <1>13, GoType DEF ReportDone, Places, Typed
  <2>2. status' \in [Tasks -> Statuses] /\ timers' \in [Tasks -> Nat]
    BY <1>13, RecordType DEF ReportDone, Typed
  <2> QED
    BY <1>13, <2>1, <2>2 DEF ReportDone, Typed, TypeOK, FiniteSlots
<1>14. CASE ReleaseSlots(w)
  <2>1. pc' \in [Workers -> Places]
    BY <1>14, GoType DEF ReleaseSlots, Places, Typed
  <2>2. IsFiniteSet(down') /\ Cardinality(down') <= DownSlots
    BY <1>14, LeaveSlot DEF ReleaseSlots, GivesBack, Typed, TypeOK, FiniteSlots
  <2>3. IsFiniteSet(up') /\ Cardinality(up') <= UpSlots
    BY <1>14, LeaveSlot DEF ReleaseSlots, GivesBack, Typed, TypeOK, FiniteSlots
  <2> QED
    BY <1>14, <2>1, <2>2, <2>3
       DEF ReleaseSlots, GivesBack, Typed, TypeOK, FiniteSlots, registry
<1>15. CASE Unregister(w)
  <2>1. pc' \in [Workers -> Places]
    BY <1>15, GoType DEF Unregister, Places, Typed
  <2> QED
    BY <1>15, <2>1 DEF Unregister, Forgets, Typed, TypeOK, FiniteSlots, registry
<1>16. CASE Progress(w)
  <2>1. status' \in [Tasks -> Statuses] /\ timers' \in [Tasks -> Nat]
    BY <1>16, ReportType DEF Progress, Typed
  <2> QED
    BY <1>16, <2>1 DEF Progress, Typed, TypeOK, FiniteSlots, workerVars
<1> QED
  BY <1>1, <1>2, <1>3, <1>4, <1>5, <1>6, <1>7, <1>8, <1>9, <1>10, <1>11, <1>12,
     <1>13, <1>14, <1>15, <1>16 DEF WorkerStep

\* A cancel request, its report, and the clean-up timer.
LEMMA TaskTyped ==
  ASSUME Typed, NEW t \in Tasks, CancelTask(t) \/ ReportCancelled(t) \/ TimerFires(t)
  PROVE  Typed'
<1> USE ConstantsOK
<1>1. CASE CancelTask(t)
  <2>1. Cancelled(t) \in [Workers -> BOOLEAN]
    BY DEF Cancelled, Typed, TypeOK
  <2> QED
    BY <1>1, <2>1 DEF CancelTask, Typed, TypeOK, FiniteSlots, registry
<1>2. CASE ReportCancelled(t)
  <2>1. status' \in [Tasks -> Statuses] /\ timers' \in [Tasks -> Nat]
    BY <1>2, ReportType, StatusesAre DEF ReportCancelled, Typed
  <2>2. pendingCancel' \in [Tasks -> Nat]
    BY <1>2 DEF ReportCancelled, Typed, TypeOK
  <2> QED
    BY <1>2, <2>1, <2>2 DEF ReportCancelled, Typed, TypeOK, FiniteSlots, workerVars
<1>3. CASE TimerFires(t)
  BY <1>3 DEF TimerFires, Typed, TypeOK, FiniteSlots, workerVars, Statuses
<1> QED
  BY <1>1, <1>2, <1>3

\* Typed is inductive.
LEMMA StepTyped == Typed /\ [Next]_vars => Typed'
<1> SUFFICES ASSUME Typed, [Next]_vars PROVE Typed'
  OBVIOUS
<1>1. CASE UNCHANGED vars
  BY <1>1 DEF vars, workerVars, registry, Typed, TypeOK, FiniteSlots
<1>2. CASE Next
  BY <1>2, WorkerTyped, TaskTyped DEF Next
<1> QED
  BY <1>1, <1>2

LEMMA AlwaysTyped == Spec => []Typed
  BY InitTyped, StepTyped, PTL DEF Spec

\* Every variable keeps its type, and no more goroutines download or upload than the
\* two semaphores have slots (globalDownloadSemaphore, uploadSemaphore).
THEOREM TasksTypeCorrect == Spec => []TypeOK
<1>1. Typed => TypeOK
  BY DEF Typed
<1> QED
  BY <1>1, AlwaysTyped, PTL

-----------------------------------------------------------------------------
(* The invariant *)

\* A goroutine holds a slot only on the way between taking it and its deferred calls.
SlotsHeld ==
  /\ \A w \in down : pc[w] \in {"download", "waitUp", "upload", "sent", "stored", "ending"}
  /\ \A w \in up : pc[w] \in {"upload", "sent", "stored", "ending"}

\* "done" is reported after the commit, and the file stays.
StoredFirst == \A w \in Workers : pc[w] = "stored" => w \in stored
DoneKept == \A t \in Tasks : status[t] = "done" => t \in Kept

\* The cancel function of a goroutine that still listens and is the only one ever started
\* for its task is registered, or has been called.
Lone(w) == \A v \in Workers \ {w} : task[v] = task[w] => pc[v] = "idle"
LoneRegistered ==
  \A w \in Workers : pc[w] \in Listening /\ Lone(w) => cancels[task[w]] = w \/ cancelled[w]

IInv ==
  /\ Typed
  /\ SlotsHeld
  /\ NoStaleCancel
  /\ StoredFirst
  /\ DoneKept
  /\ LoneRegistered

\* Where a goroutine can get by one step, and what the step leaves alone.
LEMMA WorkerMoves ==
  ASSUME Typed, NEW w \in Workers, WorkerStep(w)
  PROVE  /\ task' = task
         /\ \A v \in Workers \ {w} : pc'[v] = pc[v]
         /\ pc[w] \notin {"idle", "gone"}
         /\ pc'[w] \notin {"idle", "spawned"}
         /\ pc'[w] \in Listening => Register(w) \/ (pc[w] \in Listening /\ UNCHANGED cancelled)
         /\ stored \subseteq stored'
         /\ Register(w) \/ Unregister(w) \/ (UNCHANGED cancels /\ pc'[w] # "gone")
<1>1. CASE Register(w)
  BY <1>1 DEF Register, Go, Typed, TypeOK
<1>2. CASE Unregister(w)
  BY <1>2 DEF Unregister, Go, Typed, TypeOK, Listening
<1>3. CASE ~Register(w) /\ ~Unregister(w)
  <2>1. task' = task /\ UNCHANGED cancels /\ stored \subseteq stored'
    BY <1>3 DEF WorkerStep, QueueDown, StartDownload, QueueUp, HandOver, StartUpload,
           LeavesQueue, Fails, PartsSent, Commit, CommitFails, ReportDone, ReleaseSlots
  <2>2. UNCHANGED cancelled
    BY <1>3 DEF WorkerStep, QueueDown, StartDownload, QueueUp, HandOver, StartUpload,
           LeavesQueue, Fails, PartsSent, Commit, CommitFails, ReportDone, ReleaseSlots
  <2>3. /\ pc[w] \notin {"idle", "gone"}
        /\ \E to \in Places \ {"idle", "spawned", "gone"} :
             Go(w, to) /\ (to \in Listening => pc[w] \in Listening)
    BY <1>3 DEF WorkerStep, QueueDown, StartDownload, QueueUp, HandOver, StartUpload,
           LeavesQueue, Fails, PartsSent, Commit, CommitFails, ReportDone, ReleaseSlots,
           Waiting, Places, Listening
  <2>4. PICK to \in Places \ {"idle", "spawned", "gone"} :
          Go(w, to) /\ (to \in Listening => pc[w] \in Listening)
    BY <2>3
  <2>5. pc'[w] = to /\ \A v \in Workers \ {w} : pc'[v] = pc[v]
    BY <2>4 DEF Go, Typed, TypeOK
  <2> QED
    BY <2>1, <2>2, <2>3, <2>4, <2>5
<1> QED
  BY <1>1, <1>2, <1>3

LEMMA WorkerSlotsHeld ==
  ASSUME Typed, SlotsHeld, NEW w \in Workers, WorkerStep(w)
  PROVE  SlotsHeld'
  BY DEF Typed, TypeOK, SlotsHeld, WorkerStep, Register, QueueDown, StartDownload, QueueUp,
         HandOver, StartUpload, LeavesQueue, Fails, PartsSent, Commit, CommitFails,
         ReportDone, ReleaseSlots, GivesBack, Unregister, Go

LEMMA WorkerNoStale ==
  ASSUME Typed, NoStaleCancel, NEW w \in Workers, WorkerStep(w)
  PROVE  NoStaleCancel'
<1>1. /\ task' = task
      /\ \A v \in Workers \ {w} : pc'[v] = pc[v]
      /\ pc'[w] \notin {"idle", "spawned"}
      /\ Register(w) \/ Unregister(w) \/ (UNCHANGED cancels /\ pc'[w] # "gone")
  BY WorkerMoves
<1>2. CASE Register(w)
  <2>1. cancels' = [cancels EXCEPT ![task[w]] = w] /\ pc'[w] # "gone"
    BY <1>2 DEF Register, Go, Typed, TypeOK
  <2> QED
    BY <1>1, <2>1, ConstantsOK DEF NoStaleCancel, Typed, TypeOK
<1>3. CASE Unregister(w)
  <2>1. cancels' = [cancels EXCEPT ![task[w]] = Nobody]
    BY <1>3 DEF Unregister, Forgets
  <2> QED
    BY <1>1, <2>1, ConstantsOK DEF NoStaleCancel, Typed, TypeOK
<1>4. CASE UNCHANGED cancels /\ pc'[w] # "gone"
  BY <1>1, <1>4, ConstantsOK DEF NoStaleCancel, Typed, TypeOK
<1> QED
  BY <1>1, <1>2, <1>3, <1>4

LEMMA WorkerLone ==
  ASSUME Typed, LoneRegistered, NEW w \in Workers, WorkerStep(w)
  PROVE  LoneRegistered'
<1>1. /\ task' = task
      /\ \A v \in Workers \ {w} : pc'[v] = pc[v]
      /\ pc[w] # "idle" /\ pc'[w] # "idle"
      /\ pc'[w] \in Listening => Register(w) \/ (pc[w] \in Listening /\ UNCHANGED cancelled)
      /\ Register(w) \/ Unregister(w) \/ (UNCHANGED cancels /\ pc'[w] # "gone")
  BY WorkerMoves
<1> SUFFICES ASSUME NEW x \in Workers, pc'[x] \in Listening, Lone(x)'
             PROVE  cancels'[task[x]] = x \/ cancelled'[x]
  BY <1>1 DEF LoneRegistered
<1>2. Lone(x)
  BY <1>1 DEF Lone
<1>3. CASE x = w
  <2>1. CASE Register(w)
    BY <1>3, <2>1 DEF Register, Typed, TypeOK
  <2>2. CASE ~Register(w)
    <3>1. pc[w] \in Listening /\ UNCHANGED cancelled /\ UNCHANGED cancels
      BY <1>1, <1>3, <2>2 DEF Unregister, Listening
    <3> QED
      BY <1>2, <1>3, <3>1 DEF LoneRegistered
  <2> QED
    BY <2>1, <2>2
<1>4. CASE x # w
  <2>1. task[w] # task[x]
    BY <1>1, <1>4 DEF Lone
  <2>2. pc[x] \in Listening
    BY <1>1, <1>4
  <2>3. cancels'[task[x]] = cancels[task[x]] /\ cancelled'[x] = cancelled[x]
    BY <1>4, <2>1 DEF WorkerStep, Register, QueueDown, StartDownload, QueueUp, HandOver,
         StartUpload, LeavesQueue, Fails, PartsSent, Commit, CommitFails, ReportDone,
         ReleaseSlots, Unregister, Forgets, Typed, TypeOK
  <2> QED
    BY <1>2, <2>2, <2>3 DEF LoneRegistered
<1> QED
  BY <1>3, <1>4

\* No report but ReportDone says that a task is done.
LEMMA ReportNotDone ==
  ASSUME TypeOK, NEW t \in Tasks, NEW s, s # "done", Report(t, s)
  PROVE  \A u \in Tasks : status'[u] = "done" => status[u] = "done"
  BY DEF TypeOK, Report, Record, registry

LEMMA WorkerDoneKept ==
  ASSUME Typed, StoredFirst, DoneKept, NEW w \in Workers, WorkerStep(w)
  PROVE  StoredFirst' /\ DoneKept'
<1> task[w] \in Tasks
  BY DEF Typed, TypeOK
<1>1. /\ task' = task
      /\ \A v \in Workers \ {w} : pc'[v] = pc[v]
      /\ stored \subseteq stored'
  BY WorkerMoves
<1>2. pc'[w] = "stored" => w \in stored'
  BY DEF Typed, TypeOK, WorkerStep, Register, QueueDown, StartDownload, QueueUp, HandOver,
         StartUpload, LeavesQueue, Fails, PartsSent, Commit, CommitFails, ReportDone,
         ReleaseSlots, Unregister, Go
<1>3. StoredFirst'
  BY <1>1, <1>2 DEF StoredFirst
<1>4. ASSUME NEW t \in Tasks, status'[t] = "done"
      PROVE  status[t] = "done" \/ (t = task[w] /\ w \in stored)
  <2>1. CASE ReportDone(w)
    BY <1>4, <2>1 DEF ReportDone, Record, StoredFirst, Typed, TypeOK
  <2>2. CASE ~ReportDone(w)
    <3>1. UNCHANGED status \/ \E s \in Statuses \ {"done"} : Report(task[w], s)
      BY <2>2, StatusesAre
         DEF WorkerStep, Register, QueueDown, StartDownload, QueueUp, HandOver, StartUpload,
             LeavesQueue, Fails, PartsSent, Commit, CommitFails, ReleaseSlots, Unregister,
             registry
    <3> QED
      BY <1>4, <3>1, ReportNotDone DEF Typed
  <2> QED
    BY <2>1, <2>2
<1>5. DoneKept'
  BY <1>1, <1>4 DEF DoneKept, Kept
<1> QED
  BY <1>3, <1>5

LEMMA WorkerIInv ==
  ASSUME IInv, NEW w \in Workers, WorkerStep(w)
  PROVE  IInv'
  BY WorkerTyped, WorkerSlotsHeld, WorkerNoStale, WorkerLone, WorkerDoneKept DEF IInv

LEMMA SpawnIInv ==
  ASSUME IInv, NEW w \in Workers, Spawn(w)
  PROVE  IInv'
<1>1. Typed'
  BY WorkerTyped DEF IInv
<1>2. /\ pc[w] = "idle" /\ pc'[w] = "spawned"
      /\ \A v \in Workers \ {w} : pc'[v] = pc[v]
      /\ UNCHANGED <<task, kind, cancelled, down, up, stored, registry, cancels>>
  BY DEF Spawn, Go, IInv, Typed, TypeOK
<1>3. SlotsHeld'
  BY <1>2 DEF IInv, SlotsHeld, Typed, TypeOK
<1>4. StoredFirst' /\ DoneKept'
  BY <1>2 DEF IInv, StoredFirst, DoneKept, Kept, registry
<1>5. NoStaleCancel'
  BY <1>2, ConstantsOK DEF IInv, NoStaleCancel, Typed, TypeOK
<1>6. LoneRegistered'
  <2> SUFFICES ASSUME NEW x \in Workers, pc'[x] \in Listening, Lone(x)'
               PROVE  cancels[task[x]] = x \/ cancelled[x]
    BY <1>2 DEF LoneRegistered
  <2>1. x # w /\ pc[x] \in Listening
    BY <1>2 DEF Listening
  <2>2. Lone(x)
    BY <1>2 DEF Lone
  <2> QED
    BY <2>1, <2>2 DEF IInv, LoneRegistered
<1> QED
  BY <1>1, <1>3, <1>4, <1>5, <1>6 DEF IInv

LEMMA ProgressIInv ==
  ASSUME IInv, NEW w \in Workers, Progress(w)
  PROVE  IInv'
<1>1. Typed'
  BY WorkerTyped DEF IInv
<1>2. \A u \in Tasks : status'[u] = "done" => status[u] = "done"
  BY ReportNotDone DEF Progress, IInv, Typed, TypeOK
<1>3. UNCHANGED <<workerVars, cancels>>
  BY DEF Progress
<1> QED
  BY <1>1, <1>2, <1>3 DEF IInv, SlotsHeld, NoStaleCancel, StoredFirst, DoneKept, Kept,
                          LoneRegistered, Lone, workerVars

LEMMA TaskIInv ==
  ASSUME IInv, NEW t \in Tasks, CancelTask(t) \/ ReportCancelled(t) \/ TimerFires(t)
  PROVE  IInv'
<1>1. Typed'
  BY TaskTyped DEF IInv
<1>2. CASE CancelTask(t)
  <2>1. UNCHANGED <<task, pc, down, up, stored, registry>>
    BY <1>2 DEF CancelTask
  <2>2. NoStaleCancel'
    BY <1>2, <2>1, ConstantsOK DEF CancelTask, IInv, NoStaleCancel, Typed, TypeOK
  <2>3. ASSUME NEW x \in Workers, pc[x] \in Listening,
               cancels[task[x]] = x \/ cancelled[x]
        PROVE  cancels'[task[x]] = x \/ cancelled'[x]
    BY <1>2, <2>3 DEF CancelTask, Cancelled, Listening, IInv, Typed, TypeOK
  <2>4. LoneRegistered'
    BY <2>1, <2>3 DEF IInv, LoneRegistered, Lone
  <2> QED
    BY <1>1, <2>1, <2>2, <2>4 DEF IInv, SlotsHeld, StoredFirst, DoneKept, Kept, registry
<1>3. CASE ReportCancelled(t) \/ TimerFires(t)
  <2>1. \A u \in Tasks : status'[u] = "done" => status[u] = "done"
    BY <1>3, ReportNotDone DEF ReportCancelled, TimerFires, IInv, Typed, TypeOK
  <2>2. UNCHANGED <<workerVars, cancels>>
    BY <1>3 DEF ReportCancelled, TimerFires
  <2> QED
    BY <1>1, <2>1, <2>2 DEF IInv, SlotsHeld, NoStaleCancel, StoredFirst, DoneKept, Kept,
                            LoneRegistered, Lone, workerVars
<1> QED
  BY <1>2, <1>3

LEMMA InitIInv == Init => IInv
<1> SUFFICES ASSUME Init PROVE IInv
  OBVIOUS
<1>1. Typed
  BY InitTyped
<1> QED
  BY <1>1 DEF Init, IInv, SlotsHeld, NoStaleCancel, StoredFirst, DoneKept, LoneRegistered,
              Listening

\* IInv is inductive.
LEMMA StepIInv == IInv /\ [Next]_vars => IInv'
<1> SUFFICES ASSUME IInv, [Next]_vars PROVE IInv'
  OBVIOUS
<1>1. CASE UNCHANGED vars
  <2>1. Typed'
    BY StepTyped DEF IInv
  <2>2. UNCHANGED <<task, pc, cancelled, down, up, stored, status, cancels>>
    BY <1>1 DEF vars, workerVars, registry
  <2> QED
    BY <2>1, <2>2 DEF IInv, SlotsHeld, NoStaleCancel, StoredFirst, DoneKept, Kept,
                      LoneRegistered, Lone
<1>2. CASE Next
  BY <1>2, WorkerIInv, SpawnIInv, ProgressIInv, TaskIInv DEF Next
<1> QED
  BY <1>1, <1>2

\* The registry's invariant: types, slots, cancel functions, and what "done" means.
THEOREM TasksInvariant == Spec => []IInv
  BY InitIInv, StepIInv, PTL DEF Spec

\* A goroutine that ended, or has not begun, holds no slot of either semaphore: the
\* deferred releases cover every way out.
THEOREM SlotsComeBack == Spec => []SlotsHeld
<1>1. IInv => SlotsHeld
  BY DEF IInv
<1> QED
  BY <1>1, TasksInvariant, PTL

\* TaskCancels holds functions of running goroutines of that task only.
THEOREM CancelsAreFresh == Spec => []NoStaleCancel
<1>1. IInv => NoStaleCancel
  BY DEF IInv
<1> QED
  BY <1>1, TasksInvariant, PTL

\* A cancel request reaches the goroutine of a task that was started once, at every step
\* before its parts are sent (CancelTask, and the registrations it relies on).
THEOREM CancelIsHeard == Spec => CancelReaches
<1>1. ASSUME IInv, [Next]_vars, NEW t \in Tasks, CancelStep(t), NEW w \in Workers,
             task[w] = t, pc[w] \in Listening, Lone(w)
      PROVE  cancelled'[w]
  <2>1. cancels[t] = w \/ cancelled[w]
    BY <1>1 DEF IInv, LoneRegistered
  <2>2. CancelTask(t)
    BY <1>1 DEF CancelStep, Next, vars, WorkerStep, Spawn, Register, QueueDown,
       StartDownload, QueueUp, HandOver, StartUpload, LeavesQueue, Fails, PartsSent,
       Commit, CommitFails, ReportDone, ReleaseSlots, Unregister, Progress, CancelTask,
       ReportCancelled, TimerFires, IInv, Typed, TypeOK
  <2> QED
    BY <1>1, <2>1, <2>2 DEF CancelTask, Cancelled, Listening
<1>2. IInv /\ [Next]_vars =>
        [\A t \in Tasks : CancelStep(t) =>
           \A w \in Workers :
             /\ task[w] = t /\ pc[w] \in Listening
             /\ \A v \in Workers \ {w} : task[v] = t => pc[v] = "idle"
             => cancelled'[w]]_vars
  BY <1>1 DEF Lone
<1> QED
  BY <1>2, TasksInvariant, PTL DEF Spec, CancelReaches
-----------------------------------------------------------------------------
(* The registry keeps its promise *)

\* A report of progress shows the task running, or nothing new.
LEMMA ProgressShown ==
  ASSUME Typed, NEW t \in Tasks, NEW s \in {"waiting_slot", "downloading", "telegram"},
         Report(t, s), UNCHANGED <<task, stored>>
  PROVE  Promise!Run(t) \/ UNCHANGED Promise!promiseVars
<1>1. UNCHANGED Kept
  BY DEF Kept
<1>2. CASE Refuses(t, s)
  BY <1>1, <1>2 DEF Report, registry, Shown, Promise!promiseVars
<1>3. CASE ~Refuses(t, s)
  <2>1. status' = [status EXCEPT ![t] = s]
    BY <1>3 DEF Report, Record
  <2>2. status[t] \notin Terminal
    BY <1>3 DEF Refuses, Terminal
  <2>3. Shown[t] \in {"none", "running"}
    BY <2>2 DEF Shown, Typed, TypeOK, Statuses
  <2>4. Shown' = [Shown EXCEPT ![t] = "running"]
    BY <2>1 DEF Shown, Typed, TypeOK
  <2> QED
    BY <1>1, <2>3, <2>4 DEF Promise!Run, Promise!Shows
<1> QED
  BY <1>2, <1>3

\* A terminal report is never refused.
LEMMA EndShown ==
  ASSUME Typed, NEW t \in Tasks, NEW s \in {"error", "cancelled"}, Report(t, s),
         UNCHANGED <<task, stored>>
  PROVE  Promise!EndBadly(t)
<1>1. UNCHANGED Kept
  BY DEF Kept
<1>2. status' = [status EXCEPT ![t] = s]
  BY DEF Report, Refuses, Record, Terminal
<1>3. Shown' = [Shown EXCEPT ![t] = s]
  BY <1>2 DEF Shown, Typed, TypeOK
<1> QED
  BY <1>1, <1>3 DEF Promise!EndBadly, Promise!Shows

LEMMA QuietShown ==
  ASSUME UNCHANGED <<status, task, stored>>
  PROVE  UNCHANGED Promise!promiseVars
  BY DEF Promise!promiseVars, Shown, Kept

\* Each step of a goroutine is one of the promised steps, or shows nothing.
LEMMA WorkerPromise ==
  ASSUME IInv, NEW w \in Workers, Spawn(w) \/ WorkerStep(w) \/ Progress(w)
  PROVE  Promise!Next \/ UNCHANGED Promise!promiseVars
<1> task[w] \in Tasks /\ Typed
  BY DEF IInv, Typed, TypeOK
<1>1. CASE QueueDown(w) \/ StartDownload(w) \/ QueueUp(w) \/ StartUpload(w) \/ Progress(w)
  BY <1>1, ProgressShown DEF QueueDown, StartDownload, QueueUp, StartUpload, Progress,
     workerVars, Promise!Next
<1>2. CASE LeavesQueue(w) \/ CommitFails(w)
  BY <1>2, EndShown DEF LeavesQueue, CommitFails, Promise!Next
<1>3. CASE Fails(w)
  BY <1>3, EndShown, QuietShown DEF Fails, registry, Promise!Next
<1>4. CASE Commit(w)
  <2>1. Kept' = Kept \cup {task[w]}
    BY <1>4 DEF Commit, Kept, Typed, TypeOK
  <2>2. Shown' = Shown
    BY <1>4 DEF Commit, registry, Shown
  <2> QED
    BY <2>1, <2>2 DEF Promise!Store, Promise!Next
<1>5. CASE ReportDone(w)
  <2>1. task[w] \in Kept /\ UNCHANGED Kept
    BY <1>5 DEF ReportDone, IInv, StoredFirst, Kept
  <2>2. status' = [status EXCEPT ![task[w]] = "done"]
    BY <1>5 DEF ReportDone, Record
  <2>3. Shown' = [Shown EXCEPT ![task[w]] = "done"]
    BY <2>2 DEF Shown, Typed, TypeOK
  <2> QED
    BY <2>1, <2>3 DEF Promise!Finish, Promise!Shows, Promise!Next
<1>6. CASE \/ Spawn(w) \/ Register(w) \/ HandOver(w) \/ PartsSent(w)
           \/ ReleaseSlots(w) \/ Unregister(w)
  BY <1>6, QuietShown DEF Spawn, Register, HandOver, PartsSent, ReleaseSlots, Unregister,
     registry
<1> QED
  BY <1>1, <1>2, <1>3, <1>4, <1>5, <1>6 DEF WorkerStep

LEMMA TaskPromised ==
  ASSUME IInv, NEW t \in Tasks, CancelTask(t) \/ ReportCancelled(t) \/ TimerFires(t)
  PROVE  Promise!Next \/ UNCHANGED Promise!promiseVars
<1> Typed
  BY DEF IInv
<1>1. CASE CancelTask(t)
  BY <1>1, QuietShown DEF CancelTask, registry
<1>2. CASE ReportCancelled(t)
  BY <1>2, EndShown DEF ReportCancelled, workerVars, Promise!Next
<1>3. CASE TimerFires(t)
  <2>1. Shown' = [Shown EXCEPT ![t] = "none"]
    BY <1>3 DEF TimerFires, Shown, Typed, TypeOK
  <2>2. UNCHANGED Kept
    BY <1>3 DEF TimerFires, workerVars, Kept
  <2> QED
    BY <2>1, <2>2 DEF Promise!Forget, Promise!Shows, Promise!Next
<1> QED
  BY <1>1, <1>2, <1>3

\* The registry implements TaskPromise: whatever the interleaving of reports, cancel
\* requests, retries and timers, what a client sees of a task are promised steps.
THEOREM RegistryKeepsPromise == Spec => KeepsPromise
<1>1. Init => Promise!Init
  BY DEF Init, Promise!Init, Shown, Kept
<1>2. IInv /\ [Next]_vars => [Promise!Next]_(Promise!promiseVars)
  <2> SUFFICES ASSUME IInv, [Next]_vars
               PROVE  Promise!Next \/ UNCHANGED Promise!promiseVars
    OBVIOUS
  <2>1. CASE UNCHANGED vars
    BY <2>1, QuietShown DEF vars, workerVars, registry
  <2>2. CASE Next
    BY <2>2, WorkerPromise, TaskPromised DEF Next
  <2> QED
    BY <2>1, <2>2
<1> QED
  BY <1>1, <1>2, TasksInvariant, PTL DEF Spec, KeepsPromise, Promise!Spec
=============================================================================
