-------------------------- MODULE TransferListProofs --------------------------
(***************************************************************************)
(* Proofs about TransferList, for every set of tasks and chunks and any    *)
(* number of sessions, user actions and messages: the types; what was      *)
(* cancelled stays cancelled until it is started again; and what the page  *)
(* shows as done was stored.                                               *)
(***************************************************************************)
EXTENDS TransferList, FunctionTheorems, FiniteSetTheorems, TLAPS

-----------------------------------------------------------------------------
(* Types *)

Heard == Statuses \ {"waiting"}     \* what the server says of a task
Session == [id: Tasks \cup {None}, pc: {"free", "queued", "check", "work", "over", "skipped"},
            todo: SUBSET Chunks, flight: SUBSET Chunks, acked: SUBSET Chunks, workers: Nat,
            failed: BOOLEAN, batch: Nat]
Requests == [by: {"none", "link", "social", "media", "torrent", "retry"}, accepted: BOOLEAN]

EntryOK ==
  /\ entry \in [Tasks -> Entry \cup {None}]
  /\ \A t \in Tasks : Shown(t) /\ entry[t].origin = "file" => t \in Locals
StrayOK == stray \in [Tasks -> BOOLEAN]
InHand(x) == x.flight \cup x.acked
SessionOK(x) ==
  /\ x \in Session
  /\ x.pc # "free" => x.id \in Locals
  /\ x.pc = "free" => x.id = None
  /\ x.pc # "work" => InHand(x) = {}
  /\ Cardinality(InHand(x)) <= x.workers
  /\ x.todo \cap InHand(x) = {}
SessionsOK == sess \in [Sessions -> Session] /\ \A s \in Sessions : SessionOK(sess[s])
PollOK ==
  /\ polled \in [Tasks -> {0, 1, NoPoll, Overdue}]
  /\ poll \in [pc: {"off", "sleep", "asked", "answer"}, snap: [Tasks -> Heard \cup {"absent"}]]
  /\ poll.pc = "off" => \A t \in Tasks : ~Polled(t)
RestoreOK == restore \in [pc: {"asked", "answer", "over"}, ids: SUBSET Tasks]
PostsOK == post \in [Tasks -> Requests] /\ cancels \subseteq Tasks
ServerOK ==
  /\ srv \in [Tasks -> Heard \cup {"absent"}] /\ wire \subseteq [id: Tasks, status: Heard]
  /\ got \in [Tasks -> SUBSET Chunks] /\ run \in [Tasks -> {"none", "download", "upload", "commit"}]
  /\ stored \subseteq Tasks

Typed ==
  /\ kind \in [Tasks -> {"file", "url"}] /\ ops \in Nat
  /\ EntryOK /\ StrayOK /\ SessionsOK /\ PollOK /\ RestoreOK /\ PostsOK /\ ServerOK

LEMMA FreeSessionOK == SessionOK(FreeSession)
<1>1. Cardinality({}) = 0
  BY FS_EmptySet
<1> QED
  BY <1>1 DEF SessionOK, FreeSession, Session, InHand

LEMMA TypedInit == Init => Typed
<1> SUFFICES ASSUME Init PROVE Typed
  OBVIOUS
<1>1. EntryOK /\ StrayOK
  BY DEF Init, EntryOK, StrayOK, None, Shown
<1>2. SessionsOK
  BY FreeSessionOK DEF Init, SessionsOK, SessionOK
<1>3. PollOK
  BY DEF Init, PollOK, PollIdle, Polled, NoPoll
<1>4. RestoreOK
  BY DEF Init, RestoreOK
<1>5. PostsOK
  BY DEF Init, PostsOK, Requests, NoPost
<1>6. ServerOK
  BY DEF Init, ServerOK, Heard, Statuses, Terminal
<1> QED
  BY <1>1, <1>2, <1>3, <1>4, <1>5, <1>6 DEF Init, Typed

\* What a report changes: the status of its task, and a message about it.
LEMMA Reported ==
  ASSUME ServerOK, NEW t \in Tasks, NEW st \in Heard, Report(t, st)
  PROVE  /\ srv' \in [Tasks -> Heard \cup {"absent"}] /\ wire' \subseteq [id: Tasks, status: Heard]
         /\ srv'[t] # "absent"
         /\ \A u \in Tasks : srv'[u] = srv[u] \/ (u = t /\ srv'[u] = st)
         /\ \A m \in wire' : m \in wire \/ (m.id = t /\ m.status = st)
<1>1. srv[t] \in Terminal => srv[t] # "absent"
  BY DEF Terminal
<1>2. st # "absent"
  BY DEF Heard, Statuses, Terminal
<1>3. Message(t, st).id = t /\ Message(t, st).status = st /\ Message(t, st) \in [id: Tasks, status: Heard]
  BY DEF Message
<1>4. CASE Accepts(t, st)
  <2>1. srv' = [srv EXCEPT ![t] = st] /\ wire' \subseteq wire \cup {Message(t, st)}
    BY <1>4 DEF Report
  <2>2. wire' \subseteq [id: Tasks, status: Heard]
    BY <1>3, <2>1 DEF ServerOK
  <2>3. srv' \in [Tasks -> Heard \cup {"absent"}] /\ srv'[t] = st
        /\ \A u \in Tasks : srv'[u] = srv[u] \/ (u = t /\ srv'[u] = st)
    BY <2>1 DEF ServerOK
  <2> QED
    BY <1>2, <1>3, <2>1, <2>2, <2>3
<1>5. CASE ~Accepts(t, st)
  <2>1. srv' = srv /\ wire' = wire /\ srv[t] \in Terminal
    BY <1>5 DEF Report, Accepts
  <2> QED
    BY <1>1, <2>1 DEF ServerOK
<1> QED
  BY <1>4, <1>5

LEMMA HeardStatuses ==
  {"uploading", "downloading", "telegram", "done", "error", "cancelled"} = Heard
BY DEF Heard, Statuses, Terminal

\* Every step keeps what a task is.
LEMMA KindKept == [Next]_vars => kind' = kind
<1> SUFFICES ASSUME [Next]_vars PROVE kind' = kind
  OBVIOUS
<1>1. CASE \E s \in Sessions : Chunking(s) \/ \E c \in Chunks : ChunkFails(s, c) \/ ChunkAbandoned(s, c)
  <2>1. PICK s \in Sessions : Chunking(s) \/ \E c \in Chunks : ChunkFails(s, c) \/ ChunkAbandoned(s, c)
    BY <1>1
  <2>2. CASE TakeFile(s) \/ CheckAnswered(s) \/ SessionEnds(s)
    BY <2>2 DEF TakeFile, CheckAnswered, SessionEnds, server
  <2>3. CASE \E c \in Chunks : TakeChunk(s, c) \/ ChunkAnswered(s, c)
    BY <2>3 DEF TakeChunk, ChunkAnswered, server
  <2>4. CASE \E c \in Chunks : ChunkArrives(s, c)
    BY <2>4 DEF ChunkArrives
  <2>5. CASE \E c \in Chunks : ChunkFails(s, c) \/ ChunkAbandoned(s, c)
    BY <2>5 DEF ChunkFails, ChunkAbandoned, server
  <2> QED
    BY <2>1, <2>2, <2>3, <2>4, <2>5 DEF Chunking
<1>2. CASE Polling
  BY <1>2 DEF Polling, PollTick, PollAnswer, PollApply, server
<1>3. CASE \E t \in Tasks :
       RunStep(t) \/ CancelArrives(t) \/ CountdownEnds(t) \/ StrayEnds(t)
       \/ PostArrives(t) \/ PostAnswered(t) \/ PostRefused(t) \/ PostLost(t)
  BY <1>3 DEF RunStep, CancelArrives, CountdownEnds, StrayEnds, PostArrives, PostAnswered,
              PostRefused, PostLost, server
<1>4. CASE \E t \in Tasks :
       CancelUpload(t) \/ RetryUpload(t)
       \/ SubmitLink(t) \/ SubmitSocial(t) \/ DropLink(t) \/ SubmitMedia(t) \/ SubmitTorrent(t)
  BY <1>4 DEF CancelUpload, RetryUpload, SubmitLink, SubmitSocial, DropLink, SubmitMedia,
              SubmitTorrent, Submit, server
<1>5. CASE OnClose \/ RestoreAnswer \/ RestoreApply \/ \E m \in wire : OnMessage(m)
  BY <1>5 DEF OnClose, RestoreAnswer, RestoreApply, OnMessage, server
<1>6. CASE \E ids \in SUBSET Locals : AddFiles(ids)
  BY <1>6 DEF AddFiles, server
<1>7. CASE UNCHANGED vars
  BY <1>7 DEF vars, server
<1> QED
  BY <1>1, <1>2, <1>3, <1>4, <1>5, <1>6, <1>7 DEF Next

\* The actions that leave the list's entries alone.
EntryActions ==
  \/ \E s \in Sessions : CheckAnswered(s) \/ \E c \in Chunks : ChunkAnswered(s, c) \/ ChunkFails(s, c)
  \/ PollApply
  \/ \E t \in Tasks : CountdownEnds(t) \/ StrayEnds(t) \/ PostAnswered(t) \/ PostRefused(t) \/ PostLost(t)
  \/ \E t \in Tasks : CancelUpload(t) \/ RetryUpload(t) \/ SubmitLink(t) \/ SubmitSocial(t) \/ DropLink(t)
  \/ RestoreApply \/ \E m \in wire : OnMessage(m)
  \/ \E ids \in SUBSET Locals : AddFiles(ids)

LEMMA EntrySame == [Next]_vars => UNCHANGED entry \/ EntryActions
<1> SUFFICES ASSUME [Next]_vars, ~EntryActions PROVE entry' = entry
  OBVIOUS
<1>1. CASE \E s \in Sessions : Chunking(s) \/ \E c \in Chunks : ChunkFails(s, c) \/ ChunkAbandoned(s, c)
  <2>1. PICK s \in Sessions : Chunking(s) \/ \E c \in Chunks : ChunkFails(s, c) \/ ChunkAbandoned(s, c)
    BY <1>1
  <2>2. CASE TakeFile(s) \/ SessionEnds(s)
    BY <2>2 DEF TakeFile, SessionEnds
  <2>3. CASE \E c \in Chunks : TakeChunk(s, c) \/ ChunkArrives(s, c) \/ ChunkAbandoned(s, c)
    BY <2>3 DEF TakeChunk, ChunkArrives, ChunkAbandoned
  <2> QED
    BY <2>1, <2>2, <2>3 DEF Chunking, EntryActions
<1>2. CASE Polling
  BY <1>2 DEF Polling, PollTick, PollAnswer, EntryActions
<1>3. CASE \E t \in Tasks :
       RunStep(t) \/ CancelArrives(t) \/ CountdownEnds(t) \/ StrayEnds(t)
       \/ PostArrives(t) \/ PostAnswered(t) \/ PostRefused(t) \/ PostLost(t)
  BY <1>3 DEF RunStep, CancelArrives, PostArrives, EntryActions, page
<1>4. CASE \E t \in Tasks :
       CancelUpload(t) \/ RetryUpload(t)
       \/ SubmitLink(t) \/ SubmitSocial(t) \/ DropLink(t) \/ SubmitMedia(t) \/ SubmitTorrent(t)
  BY <1>4 DEF SubmitMedia, SubmitTorrent, EntryActions
<1>5. CASE OnClose \/ RestoreAnswer \/ RestoreApply \/ \E m \in wire : OnMessage(m)
  BY <1>5 DEF OnClose, RestoreAnswer, EntryActions, page
<1>6. CASE \E ids \in SUBSET Locals : AddFiles(ids)
  BY <1>6 DEF EntryActions
<1>7. CASE UNCHANGED vars
  BY <1>7 DEF vars, page
<1> QED
  BY <1>1, <1>2, <1>3, <1>4, <1>5, <1>6, <1>7 DEF Next

\* What a message and a poll make of an entry is an entry of the same origin.
LEMMA AppliedOK ==
  ASSUME NEW e \in Entry, NEW st \in Heard
  PROVE  /\ Applied(e, st) \in Entry /\ Applied(e, st).origin = e.origin
         /\ Applied(e, st).status = "done" => st = "done"
         /\ st = "cancelled" => Applied(e, st).canc
         /\ e.canc => Applied(e, st).canc
BY HeardStatuses DEF Applied, Entry, Statuses, Terminal

LEMMA ShownAfterOK ==
  ASSUME NEW t \in Tasks, entry[t] \in Entry, NEW st \in Heard \cup {"absent"}
  PROVE  LET e == ShownAfter(t, st) IN
         /\ e \in Entry /\ e.origin = entry[t].origin
         /\ entry[t].canc => e.canc
         /\ e.status = "done" /\ entry[t].status # "done" =>
               st = "done" \/ (st = "absent" /\ Missed(polled[t]))
BY HeardStatuses DEF ShownAfter, Finished, Entry, Statuses, Terminal

LEMMA NewEntryOK ==
  ASSUME NEW origin \in {"file", "url", "server"}
  PROVE  NewEntry(origin) \in Entry /\ NewEntry(origin).origin = origin
         /\ ~NewEntry(origin).canc /\ NewEntry(origin).status = "waiting" /\ NewEntry(origin).shown
BY DEF NewEntry, Entry, Statuses, Terminal

\* Flags and progress do not touch the status and the origin.
LEMMA EditedEntry ==
  ASSUME NEW x \in Entry, NEW e,
         \/ e = [x EXCEPT !.prog = "low"] \/ e = [x EXCEPT !.err = TRUE]
         \/ e = [x EXCEPT !.canc = TRUE]
         \/ e = [x EXCEPT !.err = FALSE, !.canc = FALSE, !.prog = "low"]
  PROVE  e.origin = x.origin /\ e.status = x.status
BY DEF Entry

LEMMA ShownIsEntry ==
  ASSUME EntryOK, NEW t \in Tasks
  PROVE  (Shown(t) <=> entry[t] \in Entry) /\ (~Shown(t) <=> entry[t] = None)
<1>1. ~None.shown
  BY DEF None
<1>2. \A e \in Entry : e.shown
  BY DEF Entry
<1>3. entry[t] \in Entry \cup {None}
  BY DEF EntryOK
<1> QED
  BY <1>1, <1>2, <1>3 DEF Shown

\* An entry is written: the new one has the origin of the old one, or comes from elsewhere
\* than this page's files.
LEMMA WrittenEntry ==
  ASSUME EntryOK, kind' = kind, NEW t \in Tasks, NEW e, Set(t, e),
         \/ e = None \/ e = entry[t]
         \/ e \in Entry /\ (e.origin # "file" \/ (Shown(t) /\ e.origin = entry[t].origin))
  PROVE  EntryOK'
<1>1. entry' = [entry EXCEPT ![t] = e]
  BY DEF Set
<1>2. \A u \in Tasks : entry'[u] = IF u = t THEN e ELSE entry[u]
  BY <1>1 DEF EntryOK
<1>3. e \in Entry \cup {None} /\ entry \in [Tasks -> Entry \cup {None}]
  BY DEF EntryOK
<1>4. entry' \in [Tasks -> Entry \cup {None}]
  BY <1>1, <1>3
<1>5. ~None.shown
  BY DEF None
<1>6. ASSUME NEW u \in Tasks, entry'[u].shown, entry'[u].origin = "file" PROVE u \in Locals
  BY <1>2, <1>5, <1>6 DEF EntryOK, Shown
<1>7. Locals' = Locals
  BY DEF Locals
<1> QED
  BY <1>4, <1>6, <1>7 DEF EntryOK, Shown

LEMMA EntryStep == Typed /\ [Next]_vars => EntryOK'
<1> SUFFICES ASSUME Typed, [Next]_vars PROVE EntryOK'
  OBVIOUS
<1>1. EntryOK /\ kind' = kind /\ Locals' = Locals
  BY KindKept DEF Typed, Locals
<1>2. CASE UNCHANGED entry
  BY <1>1, <1>2 DEF EntryOK, Shown
<1>3. CASE \E s \in Sessions : CheckAnswered(s) \/ \E c \in Chunks : ChunkAnswered(s, c) \/ ChunkFails(s, c)
  <2>1. PICK s \in Sessions : CheckAnswered(s) \/ \E c \in Chunks : ChunkAnswered(s, c) \/ ChunkFails(s, c)
    BY <1>3
  <2> DEFINE t == sess[s].id
  <2>2. t \in Tasks
    <3>1. sess[s].pc # "free"
      BY <2>1 DEF CheckAnswered, ChunkAnswered, ChunkFails, Typed, SessionsOK, SessionOK, InHand
    <3> QED
      BY <3>1 DEF Typed, SessionsOK, SessionOK, Locals
  <2>3. PICK e : Set(t, e) /\ \/ e \in {entry[t], None}
                              \/ /\ Shown(t)
                                 /\ e \in {[entry[t] EXCEPT !.prog = "low"],
                                          [entry[t] EXCEPT !.err = TRUE]}
    <3>1. CASE CheckAnswered(s)
      BY <3>1 DEF CheckAnswered
    <3>2. CASE \E c \in Chunks : ChunkAnswered(s, c)
      BY <3>2 DEF ChunkAnswered
    <3>3. CASE \E c \in Chunks : ChunkFails(s, c)
      BY <3>3 DEF ChunkFails, Gone
    <3> QED
      BY <2>1, <3>1, <3>2, <3>3
  <2>4. Shown(t) => entry[t] \in Entry
    BY <1>1, <2>2, ShownIsEntry
  <2>5. Shown(t) /\ e \in {[entry[t] EXCEPT !.prog = "low"], [entry[t] EXCEPT !.err = TRUE]} =>
          e \in Entry /\ e.origin = entry[t].origin
    BY <2>4 DEF Entry
  <2> QED
    BY <1>1, <2>2, <2>3, <2>5, WrittenEntry
<1>4. CASE PollApply
  <2>1. \A t \in Tasks : Polled(t) /\ Shown(t) =>
          ShownAfter(t, poll.snap[t]) \in Entry /\ ShownAfter(t, poll.snap[t]).origin = entry[t].origin
    BY <1>1, ShownIsEntry, ShownAfterOK DEF Typed, PollOK
  <2>2. entry' = [t \in Tasks |-> IF Polled(t) /\ Shown(t) THEN ShownAfter(t, poll.snap[t]) ELSE entry[t]]
    BY <1>4 DEF PollApply
  <2> QED
    BY <1>1, <2>1, <2>2 DEF EntryOK, Shown
<1>5. CASE \E t \in Tasks : CountdownEnds(t) \/ StrayEnds(t)
  BY <1>1, <1>5, WrittenEntry DEF CountdownEnds, StrayEnds
<1>6. CASE \E t \in Tasks : PostAnswered(t) \/ PostRefused(t) \/ PostLost(t)
  <2>1. PICK t \in Tasks : PostAnswered(t) \/ PostRefused(t) \/ PostLost(t)
    BY <1>6
  <2>2. UNCHANGED entry \/ \E e : Set(t, e) /\ (e \in {entry[t], None, NewEntry("server"), ErrorIn(entry[t])})
    BY <2>1 DEF PostAnswered, PostRefused, PostLost
  <2>3. ErrorIn(entry[t]) = entry[t] \/ (Shown(t) /\ ErrorIn(entry[t]) \in Entry
                                       /\ ErrorIn(entry[t]).origin = entry[t].origin)
    <3>1. Shown(t) => entry[t] \in Entry
      BY <1>1, ShownIsEntry
    <3> QED
      BY <3>1 DEF ErrorIn, Shown, Entry
  <2> QED
    BY <1>1, <1>2, <2>2, <2>3, WrittenEntry, NewEntryOK
<1>7. CASE \E t \in Tasks : CancelUpload(t) \/ RetryUpload(t)
  <2>1. PICK t \in Tasks : CancelUpload(t) \/ RetryUpload(t)
    BY <1>7
  <2>2. Shown(t) /\ entry[t] \in Entry
    BY <1>1, <2>1, ShownIsEntry DEF CancelUpload, RetryUpload
  <2>3. PICK e : Set(t, e) /\ e \in {None, [entry[t] EXCEPT !.canc = TRUE],
                                    [entry[t] EXCEPT !.err = FALSE, !.canc = FALSE, !.prog = "low"]}
    BY <2>1 DEF CancelUpload, RetryUpload
  <2>4. e = None \/ (e \in Entry /\ e.origin = entry[t].origin)
    BY <2>2, <2>3 DEF Entry
  <2> QED
    BY <1>1, <2>2, <2>3, <2>4, WrittenEntry
<1>8. CASE \E t \in Tasks : SubmitLink(t) \/ SubmitSocial(t) \/ DropLink(t)
  <2>1. PICK t \in Tasks : Set(t, NewEntry("url"))
    BY <1>8 DEF SubmitLink, SubmitSocial, DropLink
  <2> QED
    BY <1>1, <2>1, WrittenEntry, NewEntryOK
<1>9. CASE \E m \in wire : OnMessage(m)
  <2>1. PICK m \in wire : OnMessage(m)
    BY <1>9
  <2>2. m.id \in Tasks /\ m.status \in Heard
    BY DEF Typed, ServerOK
  <2>3. Created(m) \in Entry /\ Created(m).origin = "server"
    BY <2>2, NewEntryOK DEF Created, Entry, Heard
  <2>4. UNCHANGED entry \/ \E e \in Entry : Set(m.id, Applied(e, m.status))
                             /\ (e.origin = "server" \/ (Shown(m.id) /\ e = entry[m.id]))
    <3>1. Shown(m.id) => entry[m.id] \in Entry
      BY <1>1, <2>2, ShownIsEntry
    <3> QED
      BY <2>1, <2>3, <3>1 DEF OnMessage
  <2> QED
    BY <1>1, <1>2, <2>2, <2>4, AppliedOK, WrittenEntry
<1>10. CASE RestoreApply
  <2>1. entry' = [t \in Tasks |-> IF Restored(t) THEN NewEntry("server") ELSE entry[t]]
    BY <1>10 DEF RestoreApply
  <2> QED
    BY <1>1, <2>1, NewEntryOK DEF EntryOK, Shown
<1>11. CASE \E ids \in SUBSET Locals : AddFiles(ids)
  <2>1. PICK ids \in SUBSET Locals : AddFiles(ids)
    BY <1>11
  <2>2. entry' = [t \in Tasks |-> IF t \in {u \in ids : ~Occupied(u)} THEN NewEntry("file") ELSE entry[t]]
    BY <2>1 DEF AddFiles
  <2> QED
    BY <1>1, <2>2, NewEntryOK DEF EntryOK, Shown
<1> QED
  BY <1>2, <1>3, <1>4, <1>5, <1>6, <1>7, <1>8, <1>9, <1>10, <1>11, EntrySame DEF EntryActions

LEMMA WrittenSession ==
  ASSUME SessionsOK, kind' = kind, NEW s \in Sessions, NEW x, SessionOK(x),
         sess' = [sess EXCEPT ![s] = x]
  PROVE  SessionsOK'
<1>1. x \in Session /\ sess \in [Sessions -> Session]
  BY DEF SessionsOK, SessionOK
<1>2. sess' \in [Sessions -> Session] /\ \A u \in Sessions : sess'[u] = x \/ sess'[u] = sess[u]
  BY <1>1
<1>3. Locals' = Locals
  BY DEF Locals
<1> QED
  BY <1>2, <1>3 DEF SessionsOK, SessionOK

LEMMA HandSize ==
  ASSUME NEW x \in Session
  PROVE  /\ IsFiniteSet(InHand(x)) /\ Cardinality(InHand(x)) \in Nat
         /\ \A c : c \notin InHand(x) => Cardinality(InHand(x) \cup {c}) = Cardinality(InHand(x)) + 1
         /\ \A c \in InHand(x) : Cardinality(InHand(x) \ {c}) = Cardinality(InHand(x)) - 1
<1>1. InHand(x) \subseteq Chunks /\ IsFiniteSet(Chunks)
  BY ConstantsOK DEF InHand, Session
<1>2. IsFiniteSet(InHand(x))
  BY <1>1, FS_Subset
<1> QED
  BY <1>2, FS_CardinalityType, FS_AddElement, FS_RemoveElement

\* A file that is skipped, or detached from its entry, has nothing in hand.
LEMMA SkippedOK ==
  ASSUME NEW x, SessionOK(x), NEW pc \in {"skipped", "check"}, x.pc = "queued"
  PROVE  SessionOK([x EXCEPT !.pc = pc])
BY DEF SessionOK, Session, InHand

LEMMA DetachedOK ==
  ASSUME SessionsOK, NEW T, NEW s \in Sessions
  PROVE  SessionOK(Detached(T)[s])
<1>1. SessionOK(sess[s])
  BY DEF SessionsOK
<1>2. Detached(T)[s] = sess[s] \/ (sess[s].pc = "queued" /\ Detached(T)[s] = [sess[s] EXCEPT !.pc = "skipped"])
  BY DEF Detached
<1> QED
  BY <1>1, <1>2, SkippedOK

LEMMA DetachedSessions ==
  ASSUME SessionsOK, kind' = kind, NEW T, sess' = Detached(T)
  PROVE  SessionsOK'
<1>1. \A s \in Sessions : SessionOK(sess'[s])
  BY DetachedOK
<1>2. sess' = [s \in Sessions |-> sess'[s]]
  BY DEF Detached
<1>3. Locals' = Locals
  BY DEF Locals
<1> QED
  BY <1>1, <1>2, <1>3 DEF SessionsOK, SessionOK

SessionActions ==
  \/ \E s \in Sessions : TakeFile(s) \/ CheckAnswered(s) \/ SessionEnds(s)
  \/ \E s \in Sessions, c \in Chunks :
       TakeChunk(s, c) \/ ChunkArrives(s, c) \/ ChunkAnswered(s, c) \/ ChunkFails(s, c) \/ ChunkAbandoned(s, c)
  \/ \E t \in Tasks : CountdownEnds(t) \/ StrayEnds(t) \/ CancelUpload(t) \/ RetryUpload(t)
  \/ \E ids \in SUBSET Locals : AddFiles(ids)

LEMMA SessionsSame == [Next]_vars => UNCHANGED sess \/ SessionActions
<1> SUFFICES ASSUME [Next]_vars, ~SessionActions PROVE sess' = sess
  OBVIOUS
<1>1. CASE \E s \in Sessions : Chunking(s) \/ \E c \in Chunks : ChunkFails(s, c) \/ ChunkAbandoned(s, c)
  BY <1>1 DEF Chunking, SessionActions
<1>2. CASE Polling
  BY <1>2 DEF Polling, PollTick, PollAnswer, PollApply
<1>3. CASE \E t \in Tasks :
       RunStep(t) \/ CancelArrives(t) \/ CountdownEnds(t) \/ StrayEnds(t)
       \/ PostArrives(t) \/ PostAnswered(t) \/ PostRefused(t) \/ PostLost(t)
  BY <1>3 DEF RunStep, CancelArrives, PostArrives, PostAnswered, PostRefused, PostLost, SessionActions, page
<1>4. CASE \E t \in Tasks :
       CancelUpload(t) \/ RetryUpload(t)
       \/ SubmitLink(t) \/ SubmitSocial(t) \/ DropLink(t) \/ SubmitMedia(t) \/ SubmitTorrent(t)
  BY <1>4 DEF SubmitLink, SubmitSocial, DropLink, SubmitMedia, SubmitTorrent, Submit, SessionActions
<1>5. CASE OnClose \/ RestoreAnswer \/ RestoreApply \/ \E m \in wire : OnMessage(m)
  BY <1>5 DEF OnClose, RestoreAnswer, RestoreApply, OnMessage, page
<1>6. CASE \E ids \in SUBSET Locals : AddFiles(ids)
  BY <1>6 DEF SessionActions
<1>7. CASE UNCHANGED vars
  BY <1>7 DEF vars, page
<1> QED
  BY <1>1, <1>2, <1>3, <1>4, <1>5, <1>6, <1>7 DEF Next

LEMMA SessionsStep == Typed /\ [Next]_vars => SessionsOK'
<1> SUFFICES ASSUME Typed, [Next]_vars PROVE SessionsOK'
  OBVIOUS
<1>1. SessionsOK /\ kind' = kind /\ Locals' = Locals /\ EntryOK /\ ops \in Nat
  BY KindKept DEF Typed, Locals
<1>2. CASE UNCHANGED sess
  BY <1>1, <1>2 DEF SessionsOK, SessionOK
<1>3. ASSUME NEW s \in Sessions PROVE SessionOK(sess[s]) /\ sess[s] \in Session
  BY <1>1 DEF SessionsOK, SessionOK
<1>4. CASE \E s \in Sessions : TakeFile(s) \/ CheckAnswered(s) \/ SessionEnds(s)
  <2>1. PICK s \in Sessions : TakeFile(s) \/ CheckAnswered(s) \/ SessionEnds(s)
    BY <1>4
  <2>2. CASE TakeFile(s)
    <3>1. PICK pc \in {"skipped", "check"} : sess' = [sess EXCEPT ![s] = [sess[s] EXCEPT !.pc = pc]]
      BY <1>1, <2>2 DEF TakeFile, SessionsOK
    <3>2. SessionOK([sess[s] EXCEPT !.pc = pc])
      BY <1>3, <2>2, SkippedOK DEF TakeFile
    <3> QED
      BY <1>1, <3>1, <3>2, WrittenSession
  <2>3. CASE CheckAnswered(s)
    <3>1. PICK have \in {got[sess[s].id], {}} :
            sess' = [sess EXCEPT ![s].pc = "work", ![s].todo = Chunks \ have,
                   ![s].workers = IF Workers < Cardinality(Chunks) THEN Workers
                                  ELSE Cardinality(Chunks)]
      BY <2>3 DEF CheckAnswered
    <3> DEFINE n == IF Workers < Cardinality(Chunks) THEN Workers ELSE Cardinality(Chunks)
               x == [sess[s] EXCEPT !.pc = "work", !.todo = Chunks \ have, !.workers = n]
    <3>2. n \in Nat
      BY ConstantsOK, FS_CardinalityType
    <3>3. InHand(sess[s]) = {} /\ sess[s].pc = "check" /\ sess[s].id \in Locals
      BY <1>3, <2>3 DEF CheckAnswered, SessionOK
    <3> HIDE DEF n
    <3>4. x \in Session /\ InHand(x) = InHand(sess[s])
      BY <1>3, <3>2 DEF Session, InHand
    <3>5. x.pc = "work" /\ x.id = sess[s].id /\ x.workers = n
      BY <1>3 DEF Session
    <3>6. SessionOK(x)
      BY <3>2, <3>3, <3>4, <3>5, FS_EmptySet DEF SessionOK
    <3>7. sess' = [sess EXCEPT ![s] = x]
      BY <1>1, <3>1 DEF SessionsOK, n
    <3> QED
      BY <1>1, <3>6, <3>7, WrittenSession
  <2>4. CASE SessionEnds(s)
    <3> DEFINE x == [sess[s] EXCEPT !.pc = "over", !.todo = {}, !.workers = 0]
    <3>1. sess' = [sess EXCEPT ![s] = x]
      BY <1>1, <2>4 DEF SessionEnds, SessionsOK
    <3>2. InHand(sess[s]) = {} /\ sess[s].id \in Locals
      BY <1>3, <2>4 DEF SessionEnds, SessionOK, InHand
    <3>3. x \in Session /\ InHand(x) = InHand(sess[s]) /\ x.pc = "over" /\ x.id = sess[s].id /\ x.workers = 0
      BY <1>3 DEF Session, InHand
    <3>4. SessionOK(x)
      BY <3>2, <3>3, FS_EmptySet DEF SessionOK
    <3> QED
      BY <1>1, <3>1, <3>4, WrittenSession
  <2> QED
    BY <2>1, <2>2, <2>3, <2>4
<1>5. ASSUME NEW s \in Sessions, NEW c \in Chunks,
             TakeChunk(s, c) \/ ChunkArrives(s, c) \/ ChunkAnswered(s, c) \/ ChunkFails(s, c) \/ ChunkAbandoned(s, c)
      PROVE  SessionsOK'
  <2> DEFINE x == sess[s]
  <2>1. SessionOK(x) /\ x \in Session
    BY <1>3
  <2>2. x.pc = "work" /\ x.id \in Locals /\ Cardinality(InHand(x)) <= x.workers /\ x.workers \in Nat
        /\ x.todo \cap InHand(x) = {}
    BY <1>5, <2>1 DEF TakeChunk, ChunkArrives, ChunkAnswered, ChunkFails, ChunkAbandoned, SessionOK,
                      InHand, Session
  <2>3. PICK y \in Session :
          /\ sess' = [sess EXCEPT ![s] = y] /\ y.pc = x.pc /\ y.id = x.id
          /\ \/ /\ c \in x.todo /\ Cardinality(InHand(x)) < x.workers /\ y.todo = x.todo \ {c}
                /\ \/ y.workers = x.workers - 1 /\ InHand(y) = InHand(x)
                   \/ y.workers = x.workers /\ InHand(y) = InHand(x) \cup {c}
             \/ y.todo = x.todo /\ y.workers = x.workers /\ InHand(y) \in {InHand(x), InHand(x) \ {c}}
             \/ /\ y.todo = x.todo /\ y.workers = x.workers - 1 /\ c \in InHand(x)
                /\ InHand(y) = InHand(x) \ {c}
    <3>1. CASE TakeChunk(s, c)
      <4>1. x.workers - 1 \in Nat
        <5>1. Cardinality(InHand(x)) < x.workers
          BY <3>1 DEF TakeChunk, InHand
        <5>2. Cardinality(InHand(x)) \in Nat
          BY <2>1, HandSize
        <5> QED
          BY <2>2, <5>1, <5>2
      <4>2. CASE Gone(sess[s].id)
        <5> DEFINE y == [x EXCEPT !.todo = @ \ {c}, !.workers = @ - 1]
        <5>1. sess' = [sess EXCEPT ![s] = y]
          BY <1>1, <3>1, <4>2 DEF TakeChunk, SessionsOK
        <5>2. y \in Session /\ y.pc = x.pc /\ y.id = x.id /\ y.todo = x.todo \ {c}
              /\ y.workers = x.workers - 1 /\ InHand(y) = InHand(x)
          BY <2>1, <4>1 DEF Session, InHand
        <5> QED
          BY <3>1, <5>1, <5>2 DEF TakeChunk, InHand
      <4>3. CASE ~Gone(sess[s].id)
        <5> DEFINE y == [x EXCEPT !.todo = @ \ {c}, !.flight = @ \cup {c}]
        <5>1. sess' = [sess EXCEPT ![s] = y]
          BY <1>1, <3>1, <4>3 DEF TakeChunk, SessionsOK
        <5>2. y \in Session /\ y.pc = x.pc /\ y.id = x.id /\ y.todo = x.todo \ {c}
              /\ y.workers = x.workers /\ InHand(y) = InHand(x) \cup {c}
          BY <2>1 DEF Session, InHand
        <5> QED
          BY <3>1, <5>1, <5>2 DEF TakeChunk, InHand
      <4> QED
        BY <4>2, <4>3
    <3>2. CASE ChunkArrives(s, c)
      <4> DEFINE y == [x EXCEPT !.flight = @ \ {c}, !.acked = @ \cup {c}]
      <4>1. sess' = [sess EXCEPT ![s] = y] /\ c \in x.flight
        BY <1>1, <3>2 DEF ChunkArrives, SessionsOK
      <4>2. y \in Session /\ y.pc = x.pc /\ y.id = x.id /\ y.todo = x.todo
            /\ y.workers = x.workers /\ InHand(y) = InHand(x)
        BY <2>1, <4>1 DEF Session, InHand
      <4> QED
        BY <4>1, <4>2
    <3>3. CASE ChunkAnswered(s, c)
      <4> DEFINE y == [x EXCEPT !.acked = @ \ {c}]
      <4>1. sess' = [sess EXCEPT ![s] = y] /\ c \in x.acked
        BY <1>1, <3>3 DEF ChunkAnswered, SessionsOK
      <4>2. y \in Session /\ y.pc = x.pc /\ y.id = x.id /\ y.todo = x.todo
            /\ y.workers = x.workers /\ InHand(y) \in {InHand(x), InHand(x) \ {c}}
        BY <2>1, <4>1 DEF Session, InHand
      <4> QED
        BY <4>1, <4>2
    <3>4. CASE ChunkFails(s, c)
      <4> DEFINE y == [x EXCEPT !.flight = @ \ {c}, !.acked = @ \ {c}, !.failed = TRUE]
      <4>1. sess' = [sess EXCEPT ![s] = y]
        BY <1>1, <3>4 DEF ChunkFails, SessionsOK
      <4>2. y \in Session /\ y.pc = x.pc /\ y.id = x.id /\ y.todo = x.todo
            /\ y.workers = x.workers /\ InHand(y) = InHand(x) \ {c}
        BY <2>1, <4>1 DEF Session, InHand
      <4> QED
        BY <4>1, <4>2
    <3>5. CASE ChunkAbandoned(s, c)
      <4>1. c \in InHand(x)
        BY <3>5 DEF ChunkAbandoned, InHand
      <4>2. x.workers - 1 \in Nat
        BY <2>1, <2>2, <4>1, HandSize, FS_EmptySet
      <4> DEFINE y == [x EXCEPT !.flight = @ \ {c}, !.acked = @ \ {c}, !.workers = @ - 1]
      <4>3. sess' = [sess EXCEPT ![s] = y]
        BY <1>1, <3>5 DEF ChunkAbandoned, SessionsOK
      <4>4. y \in Session /\ y.pc = x.pc /\ y.id = x.id /\ y.todo = x.todo
            /\ y.workers = x.workers - 1 /\ InHand(y) = InHand(x) \ {c}
        BY <2>1, <4>2 DEF Session, InHand
      <4> QED
        BY <4>1, <4>3, <4>4
    <3> QED
      BY <1>5, <3>1, <3>2, <3>3, <3>4, <3>5
  <2>4. Cardinality(InHand(y)) <= y.workers /\ y.todo \cap InHand(y) = {}
    <3>1. Cardinality(InHand(x)) \in Nat /\ Cardinality(InHand(y)) \in Nat
      BY <2>1, HandSize
    <3>2. c \in x.todo => c \notin InHand(x)
      BY <2>2
    <3>3. CASE InHand(y) = InHand(x)
      BY <2>2, <2>3, <3>1, <3>3, HandSize, <2>1
    <3>4. CASE InHand(y) = InHand(x) \cup {c} /\ c \notin InHand(x)
      <4>1. Cardinality(InHand(y)) = Cardinality(InHand(x)) + 1
        BY <2>1, <3>4, HandSize
      <4> QED
        BY <2>2, <2>3, <3>1, <3>4, <4>1
    <3>5. CASE InHand(y) = InHand(x) \ {c} /\ c \in InHand(x)
      <4>1. Cardinality(InHand(y)) = Cardinality(InHand(x)) - 1
        BY <2>1, <3>5, HandSize
      <4> QED
        BY <2>2, <2>3, <3>1, <3>5, <4>1
    <3> QED
      BY <2>3, <3>2, <3>3, <3>4, <3>5
  <2>5. SessionOK(y)
    BY <2>2, <2>3, <2>4 DEF SessionOK
  <2> QED
    BY <1>1, <2>3, <2>5, WrittenSession
<1>6. CASE \E t \in Tasks : CountdownEnds(t) \/ StrayEnds(t) \/ CancelUpload(t)
  <2>1. UNCHANGED sess \/ \E T : sess' = Detached(T)
    BY <1>6 DEF CountdownEnds, StrayEnds, CancelUpload
  <2> QED
    BY <1>1, <1>2, <2>1, DetachedSessions
<1>7. CASE \E t \in Tasks : RetryUpload(t)
  <2>1. PICK t \in Tasks : RetryUpload(t)
    BY <1>7
  <2>2. CASE UNCHANGED sess
    BY <1>2, <2>2
  <2>3. CASE ~UNCHANGED sess
    <3>1. PICK s \in Sessions : sess' = [sess EXCEPT ![s] = [FreeSession EXCEPT !.id = t, !.pc = "check"]]
      BY <2>1, <2>3 DEF RetryUpload, FreeSlots
    <3>2. t \in Locals
      BY <1>1, <2>1, <2>3 DEF RetryUpload, EntryOK
    <3>3. SessionOK([FreeSession EXCEPT !.id = t, !.pc = "check"])
      BY <3>2, FreeSessionOK DEF SessionOK, FreeSession, Session, InHand
    <3> QED
      BY <1>1, <3>1, <3>3, WrittenSession
  <2> QED
    BY <2>2, <2>3
<1>8. CASE \E ids \in SUBSET Locals : AddFiles(ids)
  <2>1. PICK ids \in SUBSET Locals : AddFiles(ids)
    BY <1>8
  <2> DEFINE new == {t \in ids : ~Occupied(t)}
             slot == CHOOSE f \in [new -> FreeSlots] : \A t, u \in new : f[t] = f[u] => t = u
  <2>2. sess' = [s \in Sessions |->
       IF \E t \in new : slot[t] = s
         THEN [FreeSession EXCEPT !.id = CHOOSE t \in new : slot[t] = s, !.pc = "queued",
                                  !.batch = ops']
         ELSE Detached(new)[s]]
    BY <2>1 DEF AddFiles
  <2> HIDE DEF slot
  <2>3. ops' \in Nat
    <3>1. Does
      BY <2>1 DEF AddFiles
    <3> QED
      BY <1>1, <3>1 DEF Does
  <2>4. \A t \in Locals : SessionOK([FreeSession EXCEPT !.id = t, !.pc = "queued", !.batch = ops'])
    BY <2>3, FreeSessionOK DEF SessionOK, FreeSession, Session, InHand, Locals
  <2>5. ASSUME NEW s \in Sessions PROVE SessionOK(sess'[s])
    <3>1. CASE \E t \in new : slot[t] = s
      <4>1. (CHOOSE t \in new : slot[t] = s) \in Locals
        BY <3>1
      <4> QED
        BY <2>2, <2>4, <3>1, <4>1
    <3>2. CASE ~\E t \in new : slot[t] = s
      BY <1>1, <2>2, <3>2, DetachedOK
    <3> QED
      BY <3>1, <3>2
  <2>6. sess' = [s \in Sessions |-> sess'[s]]
    BY <2>2
  <2> QED
    BY <1>1, <2>5, <2>6 DEF SessionsOK, SessionOK
<1> QED
  BY <1>2, <1>4, <1>5, <1>6, <1>7, <1>8, SessionsSame DEF SessionActions

LEMMA StrayStep == Typed /\ [Next]_vars => StrayOK'
<1> SUFFICES ASSUME Typed, [Next]_vars PROVE StrayOK'
  OBVIOUS
<1>1. StrayOK /\ EntryOK
  BY DEF Typed
<1>2. CASE UNCHANGED stray
  BY <1>1, <1>2 DEF StrayOK
<1>3. \A t \in Tasks : Shown(t) => entry[t].counting \in BOOLEAN
  BY <1>1, ShownIsEntry DEF Entry
<1>4. CASE \E T : stray' = StrayAfter(T)
  <2>1. PICK T : stray' = StrayAfter(T)
    BY <1>4
  <2>2. \A t \in Tasks : (stray[t] \/ (t \in T /\ Shown(t) /\ entry[t].counting)) \in BOOLEAN
    OBVIOUS
  <2> QED
    BY <2>1, <2>2 DEF StrayAfter, StrayOK
<1>5. CASE \E t \in Tasks : StrayEnds(t)
  <2>1. PICK t \in Tasks : stray' = [stray EXCEPT ![t] = Shown(t) /\ entry[t].counting]
    BY <1>5 DEF StrayEnds
  <2>2. (Shown(t) /\ entry[t].counting) \in BOOLEAN
    OBVIOUS
  <2> QED
    BY <1>1, <2>1, <2>2 DEF StrayOK
<1>6. UNCHANGED stray \/ (\E T : stray' = StrayAfter(T)) \/ \E t \in Tasks : StrayEnds(t)
  <2>1. CASE \E s \in Sessions : Chunking(s) \/ \E c \in Chunks : ChunkFails(s, c) \/ ChunkAbandoned(s, c)
    <3>1. PICK s \in Sessions : Chunking(s) \/ \E c \in Chunks : ChunkFails(s, c) \/ ChunkAbandoned(s, c)
      BY <2>1
    <3> QED
      BY <3>1 DEF Chunking, TakeChunk, ChunkArrives, ChunkAnswered, TakeFile, CheckAnswered,
              SessionEnds, ChunkFails, ChunkAbandoned
  <2>2. CASE Polling
    BY <2>2 DEF Polling, PollTick, PollAnswer, PollApply
  <2>3. CASE \E t \in Tasks :
         RunStep(t) \/ CancelArrives(t) \/ CountdownEnds(t) \/ StrayEnds(t)
         \/ PostArrives(t) \/ PostAnswered(t) \/ PostRefused(t) \/ PostLost(t)
    BY <2>3 DEF RunStep, CancelArrives, CountdownEnds, PostArrives, PostAnswered, PostRefused,
                PostLost, page
  <2>4. CASE \E t \in Tasks :
         CancelUpload(t) \/ RetryUpload(t)
         \/ SubmitLink(t) \/ SubmitSocial(t) \/ DropLink(t) \/ SubmitMedia(t) \/ SubmitTorrent(t)
    BY <2>4 DEF CancelUpload, RetryUpload, SubmitLink, SubmitSocial, DropLink, SubmitMedia,
                SubmitTorrent, Submit
  <2>5. CASE OnClose \/ RestoreAnswer \/ RestoreApply \/ \E m \in wire : OnMessage(m)
    BY <2>5 DEF OnClose, RestoreAnswer, RestoreApply, OnMessage, page
  <2>6. CASE \E ids \in SUBSET Locals : AddFiles(ids)
    BY <2>6 DEF AddFiles
  <2>7. CASE UNCHANGED vars
    BY <2>7 DEF vars, page
  <2> QED
    BY <2>1, <2>2, <2>3, <2>4, <2>5, <2>6, <2>7 DEF Next
<1> QED
  BY <1>2, <1>4, <1>5, <1>6

PollActions == PollTick \/ PollAnswer \/ PollApply \/ \E s \in Sessions : SessionEnds(s)

LEMMA PollSame == [Next]_vars => UNCHANGED <<poll, polled>> \/ PollActions
<1> SUFFICES ASSUME [Next]_vars, ~PollActions PROVE poll' = poll /\ polled' = polled
  OBVIOUS
<1>1. CASE \E s \in Sessions : Chunking(s) \/ \E c \in Chunks : ChunkFails(s, c) \/ ChunkAbandoned(s, c)
  <2>1. PICK s \in Sessions : Chunking(s) \/ \E c \in Chunks : ChunkFails(s, c) \/ ChunkAbandoned(s, c)
    BY <1>1
  <2> QED
    BY <2>1 DEF Chunking, TakeChunk, ChunkArrives, ChunkAnswered, TakeFile, CheckAnswered,
                ChunkFails, ChunkAbandoned, PollActions
<1>2. CASE Polling
  BY <1>2 DEF Polling, PollActions
<1>3. CASE \E t \in Tasks :
       RunStep(t) \/ CancelArrives(t) \/ CountdownEnds(t) \/ StrayEnds(t)
       \/ PostArrives(t) \/ PostAnswered(t) \/ PostRefused(t) \/ PostLost(t)
  BY <1>3 DEF RunStep, CancelArrives, CountdownEnds, StrayEnds, PostArrives, PostAnswered,
              PostRefused, PostLost, page
<1>4. CASE \E t \in Tasks :
       CancelUpload(t) \/ RetryUpload(t)
       \/ SubmitLink(t) \/ SubmitSocial(t) \/ DropLink(t) \/ SubmitMedia(t) \/ SubmitTorrent(t)
  BY <1>4 DEF CancelUpload, RetryUpload, SubmitLink, SubmitSocial, DropLink, SubmitMedia,
              SubmitTorrent, Submit
<1>5. CASE OnClose \/ RestoreAnswer \/ RestoreApply \/ \E m \in wire : OnMessage(m)
  BY <1>5 DEF OnClose, RestoreAnswer, RestoreApply, OnMessage, page
<1>6. CASE \E ids \in SUBSET Locals : AddFiles(ids)
  BY <1>6 DEF AddFiles
<1>7. CASE UNCHANGED vars
  BY <1>7 DEF vars, page
<1> QED
  BY <1>1, <1>2, <1>3, <1>4, <1>5, <1>6, <1>7 DEF Next

LEMMA PollStep == Typed /\ [Next]_vars => PollOK'
<1> SUFFICES ASSUME Typed, [Next]_vars PROVE PollOK'
  OBVIOUS
<1>1. PollOK /\ SessionsOK /\ srv \in [Tasks -> Heard \cup {"absent"}]
  BY DEF Typed, ServerOK
<1>2. CASE UNCHANGED <<poll, polled>>
  BY <1>1, <1>2 DEF PollOK, Polled
<1>3. CASE PollTick
  <2>1. /\ \E late \in SUBSET Tasks : polled' = [t \in Tasks |-> Dropping(t, late)]
        /\ poll' = [poll EXCEPT !.pc = IF \A t \in Tasks : polled'[t] \notin {0, 1} THEN "off" ELSE "asked"]
    BY <1>3 DEF PollTick
  <2>2. polled' \in [Tasks -> {0, 1, NoPoll, Overdue}]
    BY <1>1, <2>1 DEF PollOK, Dropping
  <2> QED
    BY <1>1, <2>1, <2>2 DEF PollOK, Polled
<1>4. CASE PollAnswer
  BY <1>1, <1>4 DEF PollAnswer, PollOK, Polled
<1>5. CASE PollApply
  <2>1. polled' \in [Tasks -> {0, 1, NoPoll, Overdue}]
    BY <1>1, <1>5 DEF PollApply, PollOK, Polled, Missed, NoPoll
  <2>2. poll' = PollIdle(IF \A t \in Tasks : polled'[t] \notin {0, 1} THEN "off" ELSE "sleep")
    BY <1>5 DEF PollApply
  <2> QED
    BY <2>1, <2>2 DEF PollOK, Polled, PollIdle
<1>6. CASE \E s \in Sessions : SessionEnds(s)
  <2>1. PICK s \in Sessions : SessionEnds(s)
    BY <1>6
  <2>2. CASE Register(sess[s].id)
    <3> DEFINE t == sess[s].id
    <3>1. t \in Tasks
      BY <1>1, <2>1 DEF SessionEnds, SessionsOK, SessionOK, Locals
    <3>2. polled' \in [Tasks -> {0, 1, NoPoll, Overdue}]
      BY <1>1, <2>2, <3>1 DEF Register, PollOK, Polled
    <3>3. poll'.pc # "off" /\ poll' \in [pc: {"off", "sleep", "asked", "answer"},
                                        snap: [Tasks -> Heard \cup {"absent"}]]
      BY <1>1, <2>2 DEF Register, PollOK
    <3> QED
      BY <3>2, <3>3 DEF PollOK
  <2>3. CASE ~Register(sess[s].id)
    BY <1>2, <2>1, <2>3 DEF SessionEnds
  <2> QED
    BY <2>2, <2>3
<1> QED
  BY <1>2, <1>3, <1>4, <1>5, <1>6, PollSame DEF PollActions

ServerActions ==
  \/ \E s \in Sessions, c \in Chunks : ChunkArrives(s, c)
  \/ \E t \in Tasks : RunStep(t) \/ CancelArrives(t) \/ PostArrives(t)

LEMMA ServerSame ==
  [Next]_vars => (UNCHANGED <<srv, got, run, stored>> /\ wire' \subseteq wire) \/ ServerActions
<1> SUFFICES ASSUME [Next]_vars, ~ServerActions
             PROVE  UNCHANGED <<srv, got, run, stored>> /\ wire' \subseteq wire
  OBVIOUS
<1>1. CASE \E s \in Sessions : Chunking(s) \/ \E c \in Chunks : ChunkFails(s, c) \/ ChunkAbandoned(s, c)
  <2>1. PICK s \in Sessions : Chunking(s) \/ \E c \in Chunks : ChunkFails(s, c) \/ ChunkAbandoned(s, c)
    BY <1>1
  <2> QED
    BY <2>1 DEF Chunking, TakeChunk, ChunkAnswered, TakeFile, CheckAnswered, SessionEnds,
                ChunkFails, ChunkAbandoned, ServerActions, server
<1>2. CASE Polling
  BY <1>2 DEF Polling, PollTick, PollAnswer, PollApply, server
<1>3. CASE \E t \in Tasks :
       RunStep(t) \/ CancelArrives(t) \/ CountdownEnds(t) \/ StrayEnds(t)
       \/ PostArrives(t) \/ PostAnswered(t) \/ PostRefused(t) \/ PostLost(t)
  BY <1>3 DEF CountdownEnds, StrayEnds, PostAnswered, PostRefused, PostLost, server, ServerActions
<1>4. CASE \E t \in Tasks :
       CancelUpload(t) \/ RetryUpload(t)
       \/ SubmitLink(t) \/ SubmitSocial(t) \/ DropLink(t) \/ SubmitMedia(t) \/ SubmitTorrent(t)
  BY <1>4 DEF CancelUpload, RetryUpload, SubmitLink, SubmitSocial, DropLink, SubmitMedia,
              SubmitTorrent, Submit, server
<1>5. CASE OnClose \/ RestoreAnswer \/ RestoreApply \/ \E m \in wire : OnMessage(m)
  BY <1>5 DEF OnClose, RestoreAnswer, RestoreApply, OnMessage, server
<1>6. CASE \E ids \in SUBSET Locals : AddFiles(ids)
  BY <1>6 DEF AddFiles, server
<1>7. CASE UNCHANGED vars
  BY <1>7 DEF vars, server
<1> QED
  BY <1>1, <1>2, <1>3, <1>4, <1>5, <1>6, <1>7 DEF Next

\* A step of the server is a report about one task, and its run goes on or is over.
LEMMA ServerReports ==
  ASSUME Typed, ServerActions
  PROVE  \E t \in Tasks, st \in Heard :
           /\ Report(t, st)
           /\ st = "done" => stored' = stored \cup {t}
           /\ stored' = stored \/ stored' = stored \cup {t}
           /\ got' = [got EXCEPT ![t] = got'[t]] /\ got'[t] \subseteq Chunks
           /\ \E x \in {"none", "download", "upload", "commit"} :
                run' = [run EXCEPT ![t] = x]
<1>1. ServerOK /\ SessionsOK
  BY DEF Typed
<1>2. CASE \E s \in Sessions, c \in Chunks : ChunkArrives(s, c)
  <2>1. PICK s \in Sessions, c \in Chunks : ChunkArrives(s, c)
    BY <1>2
  <2> DEFINE t == sess[s].id
             have == got[t] \cup {c}
  <2>2. t \in Tasks
    BY <1>1, <2>1 DEF ChunkArrives, SessionsOK, SessionOK, InHand, Locals
  <2>3. Report(t, "uploading") /\ stored' = stored
        /\ got' = [got EXCEPT ![t] = IF have = Chunks THEN {} ELSE have]
        /\ run' = [run EXCEPT ![t] = IF have = Chunks THEN "upload" ELSE @]
    BY <2>1 DEF ChunkArrives
  <2>4. have \subseteq Chunks
    BY <1>1, <2>2 DEF ServerOK
  <2> HIDE DEF have
  <2>5. got' = [got EXCEPT ![t] = got'[t]] /\ got'[t] \subseteq Chunks
    BY <1>1, <2>2, <2>3, <2>4 DEF ServerOK
  <2>6. \E x \in {"none", "download", "upload", "commit"} : run' = [run EXCEPT ![t] = x]
    BY <1>1, <2>2, <2>3 DEF ServerOK
  <2>7. "uploading" \in Heard /\ "uploading" # "done"
    BY DEF Heard, Statuses
  <2> QED
    BY <2>2, <2>3, <2>5, <2>6, <2>7
<1>3. CASE \E t \in Tasks : RunStep(t)
  <2>1. PICK t \in Tasks : RunStep(t)
    BY <1>3
  <2>2. got' = got /\ got = [got EXCEPT ![t] = got[t]] /\ got[t] \subseteq Chunks
    BY <1>1, <2>1 DEF RunStep, ServerOK
  <2>3. \E st \in Heard : Report(t, st) /\ (st = "done" => stored' = stored \cup {t})
                                      /\ (stored' = stored \/ stored' = stored \cup {t})
    BY <2>1, HeardStatuses DEF RunStep
  <2>4. \E x \in {"none", "download", "upload", "commit"} : run' = [run EXCEPT ![t] = x]
    BY <2>1 DEF RunStep
  <2> QED
    BY <2>2, <2>3, <2>4
<1>4. CASE \E t \in Tasks : CancelArrives(t)
  <2>1. PICK t \in Tasks : CancelArrives(t)
    BY <1>4
  <2>2. got' = [got EXCEPT ![t] = {}] /\ run' = [run EXCEPT ![t] = "none"] /\ stored' = stored
        /\ Report(t, "cancelled")
    BY <2>1 DEF CancelArrives
  <2>3. got' = [got EXCEPT ![t] = got'[t]] /\ got'[t] \subseteq Chunks
    BY <1>1, <2>2 DEF ServerOK
  <2>4. "cancelled" \in Heard /\ "cancelled" # "done"
    BY HeardStatuses
  <2> QED
    BY <2>2, <2>3, <2>4
<1>5. CASE \E t \in Tasks : PostArrives(t)
  <2>1. PICK t \in Tasks : PostArrives(t)
    BY <1>5
  <2>2. got' = got /\ got = [got EXCEPT ![t] = got[t]] /\ got[t] \subseteq Chunks
    BY <1>1, <2>1 DEF PostArrives, ServerOK
  <2>3. Report(t, "downloading") /\ run' = [run EXCEPT ![t] = "download"] /\ stored' = stored
    BY <2>1 DEF PostArrives
  <2>4. "downloading" \in Heard /\ "downloading" # "done"
    BY HeardStatuses
  <2> QED
    BY <2>2, <2>3, <2>4
<1> QED
  BY <1>2, <1>3, <1>4, <1>5 DEF ServerActions

LEMMA ServerStep == Typed /\ [Next]_vars => ServerOK'
<1> SUFFICES ASSUME Typed, [Next]_vars PROVE ServerOK'
  OBVIOUS
<1>1. ServerOK
  BY DEF Typed
<1>2. CASE ServerActions
  <2>1. PICK t \in Tasks, st \in Heard :
           /\ Report(t, st)
           /\ stored' = stored \/ stored' = stored \cup {t}
           /\ got' = [got EXCEPT ![t] = got'[t]] /\ got'[t] \subseteq Chunks
           /\ \E x \in {"none", "download", "upload", "commit"} : run' = [run EXCEPT ![t] = x]
    BY <1>2, ServerReports
  <2>2. srv' \in [Tasks -> Heard \cup {"absent"}] /\ wire' \subseteq [id: Tasks, status: Heard]
    BY <1>1, <2>1, Reported
  <2>3. got' \in [Tasks -> SUBSET Chunks]
    BY <1>1, <2>1 DEF ServerOK
  <2>4. run' \in [Tasks -> {"none", "download", "upload", "commit"}] /\ stored' \subseteq Tasks
    BY <1>1, <2>1 DEF ServerOK
  <2> QED
    BY <2>2, <2>3, <2>4 DEF ServerOK
<1> QED
  BY <1>1, <1>2, ServerSame DEF ServerOK

LEMMA RestoreSame ==
  [Next]_vars => UNCHANGED restore \/ RestoreAnswer \/ RestoreApply \/ \E t \in Tasks : PostAnswered(t)
<1> SUFFICES ASSUME [Next]_vars
             PROVE  UNCHANGED restore \/ RestoreAnswer \/ RestoreApply \/ \E t \in Tasks : PostAnswered(t)
  OBVIOUS
<1>1. CASE \E s \in Sessions : Chunking(s) \/ \E c \in Chunks : ChunkFails(s, c) \/ ChunkAbandoned(s, c)
  <2>1. PICK s \in Sessions : Chunking(s) \/ \E c \in Chunks : ChunkFails(s, c) \/ ChunkAbandoned(s, c)
    BY <1>1
  <2> QED
    BY <2>1 DEF Chunking, TakeChunk, ChunkArrives, ChunkAnswered, TakeFile, CheckAnswered,
            SessionEnds, ChunkFails, ChunkAbandoned
<1>2. CASE Polling
  BY <1>2 DEF Polling, PollTick, PollAnswer, PollApply
<1>3. CASE \E t \in Tasks :
       RunStep(t) \/ CancelArrives(t) \/ CountdownEnds(t) \/ StrayEnds(t)
       \/ PostArrives(t) \/ PostAnswered(t) \/ PostRefused(t) \/ PostLost(t)
  BY <1>3 DEF RunStep, CancelArrives, CountdownEnds, StrayEnds, PostArrives, PostRefused,
              PostLost, page
<1>4. CASE \E t \in Tasks :
       CancelUpload(t) \/ RetryUpload(t)
       \/ SubmitLink(t) \/ SubmitSocial(t) \/ DropLink(t) \/ SubmitMedia(t) \/ SubmitTorrent(t)
  BY <1>4 DEF CancelUpload, RetryUpload, SubmitLink, SubmitSocial, DropLink, SubmitMedia,
              SubmitTorrent, Submit
<1>5. CASE OnClose \/ RestoreAnswer \/ RestoreApply \/ \E m \in wire : OnMessage(m)
  BY <1>5 DEF OnClose, OnMessage, page
<1>6. CASE \E ids \in SUBSET Locals : AddFiles(ids)
  BY <1>6 DEF AddFiles
<1>7. CASE UNCHANGED vars
  BY <1>7 DEF vars, page
<1> QED
  BY <1>1, <1>2, <1>3, <1>4, <1>5, <1>6, <1>7 DEF Next

LEMMA RestoreStep == Typed /\ [Next]_vars => RestoreOK'
<1> SUFFICES ASSUME Typed, [Next]_vars PROVE RestoreOK'
  OBVIOUS
<1>1. RestoreOK
  BY DEF Typed
<1>2. CASE UNCHANGED restore
  BY <1>1, <1>2 DEF RestoreOK
<1>3. CASE RestoreAnswer \/ RestoreApply \/ \E t \in Tasks : PostAnswered(t)
  <2>1. UNCHANGED restore \/ restore' \in [pc: {"asked", "answer", "over"}, ids: SUBSET Tasks]
    BY <1>3 DEF RestoreAnswer, RestoreApply, PostAnswered
  <2> QED
    BY <1>2, <2>1 DEF RestoreOK
<1> QED
  BY <1>2, <1>3, RestoreSame

\* What a step does to a POST of a download: the user starts one for a task that is not a
\* file of this page, it is accepted, or it is over.
LEMMA PostWritten ==
  ASSUME Typed, [Next]_vars
  PROVE  \/ UNCHANGED post
         \/ \E t \in Tasks, by \in {"link", "social", "media", "torrent", "retry"} :
              /\ post' = [post EXCEPT ![t] = Post(by)]
              /\ t \notin Locals \/ (Shown(t) /\ entry[t].origin = "url")
         \/ \E t \in Tasks : post' = [post EXCEPT ![t].accepted = TRUE] /\ post[t].by # "none"
         \/ \E t \in Tasks : post' = [post EXCEPT ![t] = NoPost]
<1>1. CASE \E s \in Sessions : Chunking(s) \/ \E c \in Chunks : ChunkFails(s, c) \/ ChunkAbandoned(s, c)
  <2>1. PICK s \in Sessions : Chunking(s) \/ \E c \in Chunks : ChunkFails(s, c) \/ ChunkAbandoned(s, c)
    BY <1>1
  <2>2. UNCHANGED post
    BY <2>1 DEF Chunking, TakeChunk, ChunkArrives, ChunkAnswered, TakeFile, CheckAnswered,
            SessionEnds, ChunkFails, ChunkAbandoned, requests
  <2> QED
    BY <2>2
<1>2. CASE Polling
  BY <1>2 DEF Polling, PollTick, PollAnswer, PollApply, requests
<1>3. CASE \E t \in Tasks : RunStep(t) \/ CancelArrives(t) \/ CountdownEnds(t) \/ StrayEnds(t)
  BY <1>3 DEF RunStep, CancelArrives, CountdownEnds, StrayEnds, requests
<1>4. CASE \E t \in Tasks : PostArrives(t) \/ PostAnswered(t) \/ PostRefused(t) \/ PostLost(t)
  BY <1>4 DEF PostArrives, PostAnswered, PostRefused, PostLost
<1>5. CASE \E t \in Tasks : CancelUpload(t)
  BY <1>5 DEF CancelUpload
<1>6. CASE \E t \in Tasks : RetryUpload(t)
  BY <1>6 DEF RetryUpload
<1>7. CASE \E t \in Tasks : SubmitLink(t) \/ SubmitSocial(t) \/ DropLink(t) \/ SubmitMedia(t) \/ SubmitTorrent(t)
  <2>1. PICK t \in Tasks : \E by \in {"link", "social", "media", "torrent"} : Submit(t, by)
    BY <1>7 DEF SubmitLink, SubmitSocial, DropLink, SubmitMedia, SubmitTorrent
  <2> QED
    BY <2>1 DEF Submit, Fresh
<1>8. CASE OnClose \/ RestoreAnswer \/ RestoreApply \/ \E m \in wire : OnMessage(m)
  BY <1>8 DEF OnClose, RestoreAnswer, RestoreApply, OnMessage, requests
<1>9. CASE \E ids \in SUBSET Locals : AddFiles(ids)
  BY <1>9 DEF AddFiles, requests
<1>10. CASE UNCHANGED vars
  BY <1>10 DEF vars, requests
<1> QED
  BY <1>1, <1>2, <1>3, <1>4, <1>5, <1>6, <1>7, <1>8, <1>9, <1>10 DEF Next

LEMMA CancelsSame ==
  [Next]_vars => cancels' \subseteq cancels \/ \E t \in Tasks : cancels' = cancels \cup {t}
<1> SUFFICES ASSUME [Next]_vars
             PROVE  cancels' \subseteq cancels \/ \E t \in Tasks : cancels' = cancels \cup {t}
  OBVIOUS
<1>1. CASE \E s \in Sessions : Chunking(s) \/ \E c \in Chunks : ChunkFails(s, c) \/ ChunkAbandoned(s, c)
  <2>1. PICK s \in Sessions : Chunking(s) \/ \E c \in Chunks : ChunkFails(s, c) \/ ChunkAbandoned(s, c)
    BY <1>1
  <2>2. UNCHANGED cancels
    BY <2>1 DEF Chunking, TakeChunk, ChunkArrives, ChunkAnswered, TakeFile, CheckAnswered,
            SessionEnds, ChunkFails, ChunkAbandoned, requests
  <2> QED
    BY <2>2
<1>2. CASE Polling
  BY <1>2 DEF Polling, PollTick, PollAnswer, PollApply, requests
<1>3. CASE \E t \in Tasks :
       RunStep(t) \/ CancelArrives(t) \/ CountdownEnds(t) \/ StrayEnds(t)
       \/ PostArrives(t) \/ PostAnswered(t) \/ PostRefused(t) \/ PostLost(t)
  BY <1>3 DEF RunStep, CancelArrives, CountdownEnds, StrayEnds, PostArrives, PostAnswered,
              PostRefused, PostLost, requests
<1>4. CASE \E t \in Tasks :
       CancelUpload(t) \/ RetryUpload(t)
       \/ SubmitLink(t) \/ SubmitSocial(t) \/ DropLink(t) \/ SubmitMedia(t) \/ SubmitTorrent(t)
  BY <1>4 DEF CancelUpload, RetryUpload, SubmitLink, SubmitSocial, DropLink, SubmitMedia,
              SubmitTorrent, Submit
<1>5. CASE OnClose \/ RestoreAnswer \/ RestoreApply \/ \E m \in wire : OnMessage(m)
  BY <1>5 DEF OnClose, RestoreAnswer, RestoreApply, OnMessage, requests
<1>6. CASE \E ids \in SUBSET Locals : AddFiles(ids)
  BY <1>6 DEF AddFiles, requests
<1>7. CASE UNCHANGED vars
  BY <1>7 DEF vars, requests
<1> QED
  BY <1>1, <1>2, <1>3, <1>4, <1>5, <1>6, <1>7 DEF Next

LEMMA PostsStep == Typed /\ [Next]_vars => PostsOK'
<1> SUFFICES ASSUME Typed, [Next]_vars PROVE PostsOK'
  OBVIOUS
<1>1. PostsOK
  BY DEF Typed
<1>2. NoPost \in Requests
        /\ \A by \in {"link", "social", "media", "torrent", "retry"} : Post(by) \in Requests
  BY DEF NoPost, Post, Requests
<1>3. \A t \in Tasks : [post[t] EXCEPT !.accepted = TRUE] \in Requests
  BY <1>1 DEF PostsOK, Requests
<1>4. post' \in [Tasks -> Requests]
  BY <1>1, <1>2, <1>3, PostWritten DEF PostsOK
<1>5. cancels' \subseteq Tasks
  BY <1>1, CancelsSame DEF PostsOK
<1> QED
  BY <1>4, <1>5 DEF PostsOK

LEMMA OpsStep == Typed /\ [Next]_vars => ops' \in Nat
<1> SUFFICES ASSUME Typed, [Next]_vars PROVE ops' \in Nat
  OBVIOUS
<1>1. UNCHANGED ops \/ Does
  <2>1. CASE \E s \in Sessions : Chunking(s) \/ \E c \in Chunks : ChunkFails(s, c) \/ ChunkAbandoned(s, c)
    <3>1. PICK s \in Sessions : Chunking(s) \/ \E c \in Chunks : ChunkFails(s, c) \/ ChunkAbandoned(s, c)
      BY <2>1
    <3> QED
      BY <3>1 DEF Chunking, TakeChunk, ChunkArrives, ChunkAnswered, TakeFile, CheckAnswered,
              SessionEnds, ChunkFails, ChunkAbandoned
  <2>2. CASE Polling
    BY <2>2 DEF Polling, PollTick, PollAnswer, PollApply
  <2>3. CASE \E t \in Tasks :
         RunStep(t) \/ CancelArrives(t) \/ CountdownEnds(t) \/ StrayEnds(t)
         \/ PostArrives(t) \/ PostAnswered(t) \/ PostRefused(t) \/ PostLost(t)
    BY <2>3 DEF RunStep, CancelArrives, CountdownEnds, StrayEnds, PostArrives, PostAnswered,
                PostRefused, PostLost, page
  <2>4. CASE \E t \in Tasks :
         CancelUpload(t) \/ RetryUpload(t)
         \/ SubmitLink(t) \/ SubmitSocial(t) \/ DropLink(t) \/ SubmitMedia(t) \/ SubmitTorrent(t)
    BY <2>4 DEF CancelUpload, RetryUpload, SubmitLink, SubmitSocial, DropLink, SubmitMedia,
                SubmitTorrent, Submit
  <2>5. CASE OnClose \/ RestoreAnswer \/ RestoreApply \/ \E m \in wire : OnMessage(m)
    BY <2>5 DEF OnClose, OnMessage, RestoreAnswer, RestoreApply, page
  <2>6. CASE \E ids \in SUBSET Locals : AddFiles(ids)
    BY <2>6 DEF AddFiles
  <2>7. CASE UNCHANGED vars
    BY <2>7 DEF vars, page
  <2> QED
    BY <2>1, <2>2, <2>3, <2>4, <2>5, <2>6, <2>7 DEF Next
<1> QED
  BY <1>1 DEF Does, Typed

LEMMA TypedStep == Typed /\ [Next]_vars => Typed'
<1>1. Typed /\ [Next]_vars => kind' \in [Tasks -> {"file", "url"}]
  BY KindKept DEF Typed
<1> QED
  BY <1>1, OpsStep, EntryStep, StrayStep, SessionsStep, PollStep, RestoreStep, PostsStep, ServerStep
     DEF Typed

LEMMA TypedAlways == Spec => []Typed
<1> QED
  BY TypedInit, TypedStep, PTL DEF Spec

\* The entries, sessions, registrations and messages keep their shape, for every instance:
\* no session has more chunks in hand than workers, none is sent twice at once, and the
\* poller runs as long as a task is registered.
THEOREM ListTypeCorrect == Spec => []TypeOK
<1>1. Typed => TypeOK
  <2> SUFFICES ASSUME Typed PROVE TypeOK
    OBVIOUS
  <2>1. entry \in [Tasks -> Entry \cup {None}] /\ stray \in [Tasks -> BOOLEAN]
    BY DEF Typed, EntryOK, StrayOK
  <2>2. ASSUME NEW s \in Sessions
        PROVE  /\ sess[s].pc \in {"free", "queued", "check", "work", "over", "skipped"}
               /\ Cardinality(sess[s].flight \cup sess[s].acked) <= sess[s].workers
               /\ sess[s].todo \cap (sess[s].flight \cup sess[s].acked) = {}
    BY DEF Typed, SessionsOK, SessionOK, Session, InHand
  <2>3. /\ polled \in [Tasks -> {0, 1, NoPoll, Overdue}]
        /\ poll.pc = "off" => \A t \in Tasks : ~Polled(t)
    BY DEF Typed, PollOK
  <2>4. srv \in [Tasks -> Statuses \cup {"absent"}] /\ wire \subseteq [id: Tasks, status: Statuses]
    BY DEF Typed, ServerOK, Heard
  <2> QED
    BY <2>1, <2>2, <2>3, <2>4 DEF TypeOK
<1> QED
  BY <1>1, TypedAlways, PTL

-----------------------------------------------------------------------------
(* What was cancelled stays cancelled *)

\* Each file that is added gets a free session of its own.
LEMMA AddedSlots ==
  ASSUME NEW ids \in SUBSET Locals, AddFiles(ids)
  PROVE  LET new == {t \in ids : ~Occupied(t)} IN
         \E slot \in [new -> FreeSlots] :
           /\ \A t, u \in new : slot[t] = slot[u] => t = u
           /\ sess' = [s \in Sessions |->
                IF \E t \in new : slot[t] = s
                  THEN [FreeSession EXCEPT !.id = CHOOSE t \in new : slot[t] = s,
                                           !.pc = "queued", !.batch = ops']
                  ELSE Detached(new)[s]]
<1> DEFINE new == {t \in ids : ~Occupied(t)}
           One(f) == \A t, u \in new : f[t] = f[u] => t = u
           slot == CHOOSE f \in [new -> FreeSlots] : One(f)
<1>1. sess' = [s \in Sessions |->
        IF \E t \in new : slot[t] = s
          THEN [FreeSession EXCEPT !.id = CHOOSE t \in new : slot[t] = s, !.pc = "queued",
                                   !.batch = ops']
          ELSE Detached(new)[s]]
      /\ Cardinality(new) <= Cardinality(FreeSlots)
  BY DEF AddFiles
<1>2. IsFiniteSet(new) /\ IsFiniteSet(FreeSlots)
  <2>1. new \subseteq Tasks /\ FreeSlots \subseteq Sessions /\ 1 \in Int /\ MaxSessions \in Int
    BY ConstantsOK DEF Locals, FreeSlots
  <2>2. IsFiniteSet(Sessions)
    BY <2>1, FS_Interval DEF Sessions
  <2> QED
    BY <2>1, <2>2, ConstantsOK, FS_Subset
<1> DEFINE n == Cardinality(new)
           k == Cardinality(FreeSlots)
<1>3. ExistsInjection(new, 1..n)
  BY <1>2, FS_CardinalityType, Fun_ExistsBijEquiv
<1>4. ExistsInjection(1..k, FreeSlots)
  BY <1>2, FS_CardinalityType, Fun_ExistsBijEquiv
<1>5. ExistsInjection(1..n, 1..k)
  <2>1. n \in Nat /\ k \in Nat /\ n <= k
    BY <1>1, <1>2, FS_CardinalityType
  <2> HIDE DEF n, k
  <2>2. [i \in 1..n |-> i] \in [1..n -> 1..k]
    BY <2>1
  <2>3. [i \in 1..n |-> i] \in Injection(1..n, 1..k)
    BY <2>2, Fun_IsInj
  <2> QED
    BY <2>3, Fun_ExistsInj
<1>6. Injection(new, FreeSlots) # {}
  BY <1>3, <1>4, <1>5, Fun_ExistsInjTransitive, Fun_ExistsInj
<1>7. \E f \in [new -> FreeSlots] : One(f)
  <2>1. PICK f \in Injection(new, FreeSlots) : TRUE
    BY <1>6
  <2>2. f \in [new -> FreeSlots] /\ \A t, u \in new : f[t] = f[u] => t = u
    <3> HIDE DEF new
    <3> QED
      BY <2>1, Fun_InjectionProperties
  <2> QED
    BY <2>2
<1>8. slot \in [new -> FreeSlots] /\ One(slot)
  <2> HIDE DEF One
  <2> QED
    BY <1>7
<1> HIDE DEF slot
<1> QED
  BY <1>1, <1>8

LEMMA CancelKept ==
  ASSUME Typed, [Next]_vars, NEW t \in Tasks, Shown(t), entry[t].canc, entry'[t].shown
  PROVE  entry'[t].canc \/ StartedAgain(t)
<1>1. EntryOK /\ entry[t] \in Entry /\ ~None.shown
  BY ShownIsEntry DEF Typed, None
<1>2. CASE UNCHANGED entry
  BY <1>2
<1>3. CASE \E u \in Tasks : \E e : Set(u, e) /\ (e = None \/ e = entry[u] \/ (u = t => e.canc))
  <2>1. PICK u \in Tasks : \E e : Set(u, e) /\ (e = None \/ e = entry[u] \/ (u = t => e.canc))
    BY <1>3
  <2>2. PICK e : Set(u, e) /\ (e = None \/ e = entry[u] \/ (u = t => e.canc))
    BY <2>1
  <2>3. entry'[t] = IF u = t THEN e ELSE entry[t]
    BY <1>1, <2>2 DEF Set, EntryOK
  <2> QED
    BY <1>1, <2>2, <2>3
<1>4. CASE \E s \in Sessions : CheckAnswered(s) \/ \E c \in Chunks : ChunkAnswered(s, c) \/ ChunkFails(s, c)
  <2>1. PICK s \in Sessions : CheckAnswered(s) \/ \E c \in Chunks : ChunkAnswered(s, c) \/ ChunkFails(s, c)
    BY <1>4
  <2> DEFINE u == sess[s].id
  <2>2. u \in Tasks
    <3>1. sess[s].pc # "free"
      BY <2>1 DEF CheckAnswered, ChunkAnswered, ChunkFails, Typed, SessionsOK, SessionOK, InHand
    <3> QED
      BY <3>1 DEF Typed, SessionsOK, SessionOK, Locals
  <2>3. PICK e : Set(u, e) /\ \/ e \in {entry[u], None}
                              \/ e \in {[entry[u] EXCEPT !.prog = "low"],
                                        [entry[u] EXCEPT !.err = TRUE]}
    <3>1. CASE CheckAnswered(s)
      BY <3>1 DEF CheckAnswered
    <3>2. CASE \E c \in Chunks : ChunkAnswered(s, c)
      BY <3>2 DEF ChunkAnswered
    <3>3. CASE \E c \in Chunks : ChunkFails(s, c)
      BY <3>3 DEF ChunkFails
    <3> QED
      BY <2>1, <3>1, <3>2, <3>3
  <2>4. u = t => [entry[u] EXCEPT !.prog = "low"].canc /\ [entry[u] EXCEPT !.err = TRUE].canc
    BY <1>1 DEF Entry
  <2> QED
    BY <1>3, <2>2, <2>3, <2>4
<1>5. CASE PollApply
  <2>1. poll.snap[t] \in Heard \cup {"absent"}
    BY DEF Typed, PollOK
  <2>2. entry'[t] \in {ShownAfter(t, poll.snap[t]), entry[t]}
    BY <1>5 DEF PollApply
  <2> QED
    BY <1>1, <2>1, <2>2, ShownAfterOK
<1>6. CASE \E u \in Tasks : CountdownEnds(u) \/ StrayEnds(u)
  BY <1>3, <1>6 DEF CountdownEnds, StrayEnds
<1>7. CASE \E u \in Tasks : PostAnswered(u) \/ PostRefused(u) \/ PostLost(u)
  <2>1. PICK u \in Tasks : PostAnswered(u) \/ PostRefused(u) \/ PostLost(u)
    BY <1>7
  <2>2. u = t => ErrorIn(entry[u]).canc
    BY <1>1 DEF ErrorIn, Entry
  <2>3. UNCHANGED entry \/ \E e : Set(u, e) /\ (e \in {entry[u], None, ErrorIn(entry[u])}
                                               \/ u # t)
    BY <2>1 DEF PostAnswered, PostRefused, PostLost
  <2> QED
    BY <1>2, <1>3, <2>2, <2>3
<1>8. CASE \E u \in Tasks : CancelUpload(u)
  <2>1. PICK u \in Tasks : CancelUpload(u)
    BY <1>8
  <2>2. u = t => [entry[u] EXCEPT !.canc = TRUE].canc
    BY <1>1 DEF Entry
  <2>3. \E e : Set(u, e) /\ e \in {None, [entry[u] EXCEPT !.canc = TRUE]}
    BY <2>1 DEF CancelUpload
  <2> QED
    BY <1>3, <2>2, <2>3
<1>9. CASE \E u \in Tasks : RetryUpload(u)
  <2>1. PICK u \in Tasks : RetryUpload(u)
    BY <1>9
  <2>2. CASE u = t
    BY <2>1, <2>2 DEF StartedAgain
  <2>3. CASE u # t
    BY <1>3, <2>1, <2>3 DEF RetryUpload
  <2> QED
    BY <2>2, <2>3
<1>10. CASE \E u \in Tasks : SubmitLink(u) \/ SubmitSocial(u) \/ DropLink(u)
  <2>1. PICK u \in Tasks : Set(u, NewEntry("url")) /\ ~Shown(u)
    BY <1>10 DEF SubmitLink, SubmitSocial, DropLink, Submit, Fresh
  <2> QED
    BY <1>3, <2>1
<1>11. CASE RestoreApply
  BY <1>11 DEF RestoreApply, Restored
<1>12. CASE \E m \in wire : OnMessage(m)
  <2>1. PICK m \in wire : OnMessage(m)
    BY <1>12
  <2>2. m.id \in Tasks /\ m.status \in Heard
    BY DEF Typed, ServerOK
  <2>3. m.id = t => Applied(entry[t], m.status).canc
    BY <1>1, <2>2, AppliedOK
  <2>4. UNCHANGED entry \/ \E e : Set(m.id, e) /\ (m.id = t => e = Applied(entry[t], m.status))
    BY <2>1 DEF OnMessage
  <2> QED
    BY <1>2, <1>3, <2>2, <2>3, <2>4
<1>13. CASE \E ids \in SUBSET Locals : AddFiles(ids)
  <2>1. PICK ids \in SUBSET Locals : AddFiles(ids)
    BY <1>13
  <2> DEFINE new == {u \in ids : ~Occupied(u)}
  <2>2. entry' = [u \in Tasks |-> IF u \in new THEN NewEntry("file") ELSE entry[u]]
    BY <2>1 DEF AddFiles
  <2>3. CASE t \notin new
    BY <2>2, <2>3
  <2>4. CASE t \in new
    <3>1. PICK slot \in [new -> FreeSlots] :
           /\ \A u, v \in new : slot[u] = slot[v] => u = v
           /\ sess' = [s \in Sessions |->
                IF \E u \in new : slot[u] = s
                  THEN [FreeSession EXCEPT !.id = CHOOSE u \in new : slot[u] = s,
                                           !.pc = "queued", !.batch = ops']
                  ELSE Detached(new)[s]]
      BY <2>1, AddedSlots
    <3>2. slot[t] \in Sessions /\ sess[slot[t]].pc = "free"
      BY <2>4, <3>1 DEF FreeSlots
    <3>3. (CHOOSE u \in new : slot[u] = slot[t]) = t
      BY <2>4, <3>1
    <3>4. sess'[slot[t]].id = t
      BY <2>4, <3>1, <3>2, <3>3 DEF FreeSession
    <3> QED
      BY <3>2, <3>4 DEF StartedAgain
  <2> QED
    BY <2>3, <2>4
<1> QED
  BY <1>2, <1>4, <1>5, <1>6, <1>7, <1>8, <1>9, <1>10, <1>11, <1>12, <1>13, EntrySame DEF EntryActions

\* An entry the user cancelled stays cancelled as long as it is shown, unless he retries it
\* or adds its file again: messages, answers to polls, restored lists and answers of requests
\* that come late leave the flag alone (onmessage, the poller, fetchActiveTasks).
THEOREM CancelIsKept == Spec => CancelHolds
<1>1. Typed /\ [Next]_vars =>
        (\A t \in Tasks : Shown(t) /\ entry[t].canc /\ entry'[t].shown
                           => entry'[t].canc \/ StartedAgain(t))
  BY CancelKept
<1> QED
  BY <1>1, TypedAlways, PTL DEF Spec, CancelHolds

-----------------------------------------------------------------------------
(* What is shown as done was stored *)

\* A free session is given a file: it was added, or its entry is retried.
Started(s, t) ==
  /\ sess[s].pc = "free" /\ sess'[s].id = t
  /\ sess'[s].pc \in {"queued", "check"} /\ sess'[s].acked = {}
  /\ entry'[t] = NewEntry("file") \/ (Shown(t) /\ entry[t].origin = "file")
Moved(s) ==
  /\ sess[s].pc = "queued" /\ sess'[s].pc \in {"skipped", "check"}
  /\ sess'[s].id = sess[s].id /\ sess'[s].acked = {}
ChunkSteps(s) ==
  \E c \in Chunks : TakeChunk(s, c) \/ ChunkArrives(s, c) \/ ChunkAnswered(s, c)
                    \/ ChunkFails(s, c) \/ ChunkAbandoned(s, c)

LEMMA SessionMoves ==
  ASSUME Typed, [Next]_vars, NEW s \in Sessions
  PROVE  sess'[s] = sess[s] \/ Moved(s) \/ CheckAnswered(s) \/ SessionEnds(s) \/ ChunkSteps(s)
         \/ \E t \in Locals : Started(s, t)
<1>1. SessionsOK /\ sess \in [Sessions -> Session]
  BY DEF Typed, SessionsOK
<1>2. sess[s].pc = "queued" => sess[s].acked = {}
  BY <1>1 DEF SessionsOK, SessionOK, InHand
<1>3. CASE UNCHANGED sess
  BY <1>3
<1>4. ASSUME NEW T, sess'[s] = Detached(T)[s] PROVE sess'[s] = sess[s] \/ Moved(s)
  <2>1. sess'[s] = sess[s] \/ (sess[s].pc = "queued" /\ sess'[s] = [sess[s] EXCEPT !.pc = "skipped"])
    BY <1>4 DEF Detached
  <2> QED
    BY <1>1, <1>2, <2>1 DEF Moved, Session
<1>5. ASSUME NEW u \in Sessions, TakeFile(u) PROVE sess'[s] = sess[s] \/ Moved(s)
  <2>1. PICK pc \in {"skipped", "check"} : sess' = [sess EXCEPT ![u].pc = pc] /\ sess[u].pc = "queued"
    BY <1>5 DEF TakeFile
  <2>2. u = s => sess'[s] = [sess[s] EXCEPT !.pc = pc]
    BY <1>1, <2>1
  <2>3. u = s => sess'[s].pc = pc /\ sess'[s].id = sess[s].id /\ sess'[s].acked = sess[s].acked
    BY <1>1, <2>2 DEF Session
  <2> QED
    BY <1>1, <1>2, <2>1, <2>3 DEF Moved
<1>6. ASSUME NEW u \in Sessions, CheckAnswered(u) \/ SessionEnds(u) \/ ChunkSteps(u), u # s
      PROVE  sess'[s] = sess[s]
  <2>1. CASE CheckAnswered(u)
    BY <1>1, <1>6, <2>1 DEF CheckAnswered
  <2>2. CASE SessionEnds(u)
    BY <1>1, <1>6, <2>2 DEF SessionEnds
  <2>3. CASE \E c \in Chunks : TakeChunk(u, c)
    BY <1>1, <1>6, <2>3 DEF TakeChunk
  <2>4. CASE \E c \in Chunks : ChunkArrives(u, c) \/ ChunkAnswered(u, c)
    BY <1>1, <1>6, <2>4 DEF ChunkArrives, ChunkAnswered
  <2>5. CASE \E c \in Chunks : ChunkFails(u, c) \/ ChunkAbandoned(u, c)
    BY <1>1, <1>6, <2>5 DEF ChunkFails, ChunkAbandoned
  <2> QED
    BY <1>6, <2>1, <2>2, <2>3, <2>4, <2>5 DEF ChunkSteps
<1>7. CASE \E t \in Tasks : CountdownEnds(t) \/ StrayEnds(t) \/ CancelUpload(t)
  <2>1. UNCHANGED sess \/ \E T : sess' = Detached(T)
    BY <1>7 DEF CountdownEnds, StrayEnds, CancelUpload
  <2> QED
    BY <1>3, <1>4, <2>1
<1>8. CASE \E t \in Tasks : RetryUpload(t)
  <2>1. PICK t \in Tasks : RetryUpload(t)
    BY <1>8
  <2>2. CASE ~UNCHANGED sess
    <3>1. PICK u \in FreeSlots : sess' = [sess EXCEPT ![u] = [FreeSession EXCEPT !.id = t, !.pc = "check"]]
      BY <2>1, <2>2 DEF RetryUpload
    <3>2. Shown(t) /\ entry[t].origin = "file" /\ t \in Locals
      BY <2>1, <2>2 DEF RetryUpload, Typed, EntryOK
    <3>3. u = s => sess'[s] = [FreeSession EXCEPT !.id = t, !.pc = "check"]
      BY <1>1, <3>1
    <3>4. u = s => Started(s, t)
      <4>1. u = s => sess[s].pc = "free"
        BY <3>1 DEF FreeSlots
      <4>2. u = s => sess'[s].id = t /\ sess'[s].pc = "check" /\ sess'[s].acked = {}
        BY <3>3 DEF FreeSession
      <4> QED
        BY <3>2, <4>1, <4>2 DEF Started
    <3> QED
      BY <1>1, <3>1, <3>2, <3>4
  <2> QED
    BY <1>3, <2>2
<1>9. CASE \E ids \in SUBSET Locals : AddFiles(ids)
  <2>1. PICK ids \in SUBSET Locals : AddFiles(ids)
    BY <1>9
  <2> DEFINE new == {u \in ids : ~Occupied(u)}
  <2>2. entry' = [u \in Tasks |-> IF u \in new THEN NewEntry("file") ELSE entry[u]]
    BY <2>1 DEF AddFiles
  <2>3. PICK slot \in [new -> FreeSlots] :
           sess' = [x \in Sessions |->
                IF \E u \in new : slot[u] = x
                  THEN [FreeSession EXCEPT !.id = CHOOSE u \in new : slot[u] = x,
                                           !.pc = "queued", !.batch = ops']
                  ELSE Detached(new)[x]]
    BY <2>1, AddedSlots
  <2>4. CASE \E u \in new : slot[u] = s
    <3> DEFINE t == CHOOSE u \in new : slot[u] = s
    <3>1. t \in new /\ slot[t] = s
      BY <2>4
    <3>2. sess'[s] = [FreeSession EXCEPT !.id = t, !.pc = "queued", !.batch = ops']
      BY <2>3, <2>4
    <3>3. t \in Locals /\ t \in Tasks /\ sess[s].pc = "free"
      BY <2>3, <3>1 DEF Locals, FreeSlots
    <3>4. entry'[t] = NewEntry("file")
      BY <2>2, <3>1, <3>3
    <3> HIDE DEF t
    <3>5. Started(s, t)
      BY <3>2, <3>3, <3>4 DEF Started, FreeSession
    <3> QED
      BY <3>3, <3>5
  <2>5. CASE ~\E u \in new : slot[u] = s
    BY <1>4, <2>3, <2>5
  <2> QED
    BY <2>4, <2>5
<1> QED
  BY <1>3, <1>5, <1>6, <1>7, <1>8, <1>9, SessionsSame DEF SessionActions, ChunkSteps

\* A session keeps its file.
LEMMA SessionKept ==
  ASSUME Typed, [Next]_vars, NEW s \in Sessions, sess[s].pc # "free"
  PROVE  sess'[s].id = sess[s].id /\ sess'[s].pc # "free"
<1>1. sess[s] \in Session /\ sess \in [Sessions -> Session]
  BY DEF Typed, SessionsOK
<1>2. CASE CheckAnswered(s)
  <2>1. PICK have : sess' = [sess EXCEPT ![s].pc = "work", ![s].todo = Chunks \ have,
                   ![s].workers = IF Workers < Cardinality(Chunks) THEN Workers
                                  ELSE Cardinality(Chunks)]
    BY <1>2 DEF CheckAnswered
  <2> QED
    BY <1>1, <2>1 DEF Session
<1>3. CASE SessionEnds(s)
  BY <1>1, <1>3 DEF SessionEnds, Session
<1>4. CASE ChunkSteps(s)
  <2>1. PICK c \in Chunks : TakeChunk(s, c) \/ ChunkArrives(s, c) \/ ChunkAnswered(s, c)
                            \/ ChunkFails(s, c) \/ ChunkAbandoned(s, c)
    BY <1>4 DEF ChunkSteps
  <2>2. CASE TakeChunk(s, c)
    BY <1>1, <2>2 DEF TakeChunk, Session
  <2>3. CASE ChunkArrives(s, c)
    BY <1>1, <2>3 DEF ChunkArrives, Session
  <2>4. CASE ChunkAnswered(s, c)
    BY <1>1, <2>4 DEF ChunkAnswered, Session
  <2>5. CASE ChunkFails(s, c)
    BY <1>1, <2>5 DEF ChunkFails, Session
  <2>6. CASE ChunkAbandoned(s, c)
    BY <1>1, <2>6 DEF ChunkAbandoned, Session
  <2> QED
    BY <2>1, <2>2, <2>3, <2>4, <2>5, <2>6
<1> QED
  BY <1>2, <1>3, <1>4, SessionMoves DEF Moved, Started

\* The sessions of a file grow in number, and one is new only if a session was started.
LEMMA RunsGrow ==
  ASSUME Typed, [Next]_vars, NEW t \in Tasks
  PROVE  /\ RunsOf(t) \subseteq RunsOf(t)'
         /\ \A s \in RunsOf(t)' \ RunsOf(t) : Started(s, t)
<1>1. ASSUME NEW s \in Sessions PROVE sess[s].pc # "free" <=> sess[s].id \in Tasks
  BY ConstantsOK DEF Typed, SessionsOK, SessionOK, Locals
<1>2. \A s \in Sessions : sess[s].id = t => sess'[s].id = t
  BY <1>1, SessionKept
<1>3. ASSUME NEW s \in Sessions, sess[s].id # t, sess'[s].id = t PROVE Started(s, t)
  <2>1. sess[s].pc = "free"
    BY <1>3, SessionKept
  <2>2. sess[s].id = None /\ sess[s].acked = {} /\ sess[s].flight = {}
    BY <2>1 DEF Typed, SessionsOK, SessionOK, InHand
  <2>3. ~Moved(s) /\ ~CheckAnswered(s) /\ ~SessionEnds(s) /\ ~ChunkSteps(s)
    BY <2>1, <2>2 DEF Moved, CheckAnswered, SessionEnds, ChunkSteps, TakeChunk, ChunkArrives,
                      ChunkAnswered, ChunkFails, ChunkAbandoned
  <2> QED
    BY <1>3, <2>3, SessionMoves DEF Started
<1> QED
  BY <1>2, <1>3 DEF RunsOf

\* Where an entry that is shown after a step comes from.
Kept(t) == Shown(t) /\ entry'[t].origin = entry[t].origin
SaidDone(t) ==
  \/ \E m \in wire : m.id = t /\ m.status = "done"
  \/ poll.pc = "answer" /\ Polled(t) /\ poll.snap[t] = "done"
  \/ poll.pc = "answer" /\ Polled(t) /\ poll.snap[t] = "absent" /\ Missed(polled[t])
Told(t) ==
  /\ entry'[t].origin = "server" /\ entry'[t].status # "done"
  /\ (\E m \in wire : m.id = t) \/ t \in restore.ids \/ post[t].accepted

LEMMA EntryMoves ==
  ASSUME Typed, [Next]_vars, NEW t \in Tasks, entry'[t].shown
  PROVE  \/ Kept(t) /\ (entry'[t].status = "done" => entry[t].status = "done" \/ SaidDone(t))
         \/ Told(t)
         \/ entry'[t] = NewEntry("url") /\ t \notin Locals
         \/ entry'[t] = NewEntry("file") /\ \E s \in Sessions : Started(s, t)
<1> DEFINE Calm == Kept(t) /\ entry'[t].status = entry[t].status
<1>1. EntryOK /\ ~None.shown /\ (Shown(t) => entry[t] \in Entry)
  BY ShownIsEntry DEF Typed, None
<1>2. ASSUME entry'[t] = entry[t] PROVE Calm
  BY <1>2 DEF Kept, Shown
<1>3. ASSUME NEW u \in Tasks, NEW e, Set(u, e)
      PROVE  entry'[t] = (IF u = t THEN e ELSE entry[t])
  BY <1>1, <1>3 DEF Set, EntryOK
<1>4. CASE \E s \in Sessions : CheckAnswered(s) \/ \E c \in Chunks : ChunkAnswered(s, c) \/ ChunkFails(s, c)
  <2>1. PICK s \in Sessions : CheckAnswered(s) \/ \E c \in Chunks : ChunkAnswered(s, c) \/ ChunkFails(s, c)
    BY <1>4
  <2> DEFINE u == sess[s].id
  <2>2. u \in Tasks
    <3>1. sess[s].pc # "free"
      BY <2>1 DEF CheckAnswered, ChunkAnswered, ChunkFails, Typed, SessionsOK, SessionOK, InHand
    <3> QED
      BY <3>1 DEF Typed, SessionsOK, SessionOK, Locals
  <2>3. PICK e : Set(u, e) /\ \/ e \in {entry[u], None}
                              \/ /\ Shown(u)
                                 /\ e \in {[entry[u] EXCEPT !.prog = "low"],
                                           [entry[u] EXCEPT !.err = TRUE]}
    <3>1. CASE CheckAnswered(s)
      BY <3>1 DEF CheckAnswered
    <3>2. CASE \E c \in Chunks : ChunkAnswered(s, c)
      BY <3>2 DEF ChunkAnswered
    <3>3. CASE \E c \in Chunks : ChunkFails(s, c)
      BY <3>3 DEF ChunkFails, Gone
    <3> QED
      BY <2>1, <3>1, <3>2, <3>3
  <2>4. u = t /\ Shown(t) /\ e \in {[entry[u] EXCEPT !.prog = "low"], [entry[u] EXCEPT !.err = TRUE]}
          => e.origin = entry[t].origin /\ e.status = entry[t].status
    <3> SUFFICES ASSUME u = t, Shown(t),
                        e = [entry[t] EXCEPT !.prog = "low"] \/ e = [entry[t] EXCEPT !.err = TRUE]
                 PROVE  e.origin = entry[t].origin /\ e.status = entry[t].status
      OBVIOUS
    <3>1. entry[t] \in Entry
      BY <1>1
    <3> HIDE DEF u
    <3> QED
      BY <3>1, EditedEntry
  <2>5. entry'[t] = IF u = t THEN e ELSE entry[t]
    BY <1>3, <2>2, <2>3
  <2>6. Calm
    BY <1>1, <1>2, <2>3, <2>4, <2>5 DEF Kept
  <2> QED
    BY <2>6
<1>5. CASE PollApply
  <2>1. poll.snap[t] \in Heard \cup {"absent"} /\ poll.pc = "answer"
    BY <1>5 DEF Typed, PollOK, PollApply
  <2>2. entry'[t] = IF Polled(t) /\ Shown(t) THEN ShownAfter(t, poll.snap[t]) ELSE entry[t]
    BY <1>5 DEF PollApply
  <2>3. CASE Polled(t) /\ Shown(t)
    <3>1. ShownAfter(t, poll.snap[t]).origin = entry[t].origin
          /\ (ShownAfter(t, poll.snap[t]).status = "done" /\ entry[t].status # "done" =>
                poll.snap[t] = "done" \/ (poll.snap[t] = "absent" /\ Missed(polled[t])))
      BY <1>1, <2>1, <2>3, ShownAfterOK
    <3> QED
      BY <2>1, <2>2, <2>3, <3>1 DEF Kept, SaidDone
  <2>4. CASE ~(Polled(t) /\ Shown(t))
    BY <1>2, <2>2, <2>4
  <2> QED
    BY <2>3, <2>4
<1>6. CASE \E u \in Tasks : CountdownEnds(u) \/ StrayEnds(u)
  <2>1. PICK u \in Tasks : Set(u, None)
    BY <1>6 DEF CountdownEnds, StrayEnds
  <2> QED
    BY <1>1, <1>2, <1>3, <2>1
<1>7. CASE \E u \in Tasks : PostRefused(u) \/ PostLost(u)
  <2>1. PICK u \in Tasks : PostRefused(u) \/ PostLost(u)
    BY <1>7
  <2>2. UNCHANGED entry \/ \E e : Set(u, e) /\ e \in {entry[u], None, ErrorIn(entry[u])}
    BY <2>1 DEF PostRefused, PostLost
  <2>3. u = t => ErrorIn(entry[u]) = entry[u] \/ (Shown(t) /\ ErrorIn(entry[u]).origin = entry[t].origin
                                                 /\ ErrorIn(entry[u]).status = entry[t].status)
    BY <1>1 DEF ErrorIn, Entry, Shown
  <2>4. Calm
    BY <1>1, <1>2, <1>3, <2>2, <2>3 DEF Kept
  <2> QED
    BY <2>4
<1>8. CASE \E u \in Tasks : PostAnswered(u)
  <2>1. PICK u \in Tasks : PostAnswered(u)
    BY <1>8
  <2>2. CASE u = t /\ Set(u, NewEntry("server"))
    <3>1. entry'[t] = NewEntry("server")
      BY <1>3, <2>2
    <3>2. Told(t)
      BY <2>1, <2>2, <3>1, NewEntryOK DEF Told, PostAnswered
    <3> QED
      BY <3>2
  <2>3. CASE u # t \/ Set(u, entry[u])
    <3>1. \E e : Set(u, e)
      BY <2>1 DEF PostAnswered
    <3> QED
      BY <1>2, <1>3, <2>3, <3>1
  <2> QED
    BY <2>1, <2>2, <2>3 DEF PostAnswered
<1>9. CASE \E u \in Tasks : CancelUpload(u) \/ RetryUpload(u)
  <2>1. PICK u \in Tasks : CancelUpload(u) \/ RetryUpload(u)
    BY <1>9
  <2>2. PICK e : Set(u, e) /\ e \in {None, [entry[u] EXCEPT !.canc = TRUE],
                                    [entry[u] EXCEPT !.err = FALSE, !.canc = FALSE, !.prog = "low"]}
    BY <2>1 DEF CancelUpload, RetryUpload
  <2>3. Shown(u)
    BY <2>1 DEF CancelUpload, RetryUpload
  <2>4. u = t => e = None \/ (e.origin = entry[t].origin /\ e.status = entry[t].status)
    <3> SUFFICES ASSUME u = t, e # None
                 PROVE  e.origin = entry[t].origin /\ e.status = entry[t].status
      OBVIOUS
    <3>1. entry[t] \in Entry
      BY <1>1, <2>3
    <3>2. \/ e = [entry[t] EXCEPT !.canc = TRUE]
          \/ e = [entry[t] EXCEPT !.err = FALSE, !.canc = FALSE, !.prog = "low"]
      BY <2>2
    <3> QED
      BY <3>1, <3>2, EditedEntry
  <2>5. entry'[t] = IF u = t THEN e ELSE entry[t]
    BY <1>3, <2>2
  <2>6. Calm
    BY <1>1, <1>2, <2>3, <2>4, <2>5 DEF Kept
  <2> QED
    BY <2>6
<1>10. CASE \E u \in Tasks : SubmitLink(u) \/ SubmitSocial(u) \/ DropLink(u)
  <2>1. PICK u \in Tasks : Set(u, NewEntry("url")) /\ u \notin Locals
    BY <1>10 DEF SubmitLink, SubmitSocial, DropLink, Submit, Fresh
  <2> QED
    BY <1>2, <1>3, <2>1
<1>11. CASE RestoreApply
  <2>1. entry'[t] = IF Restored(t) THEN NewEntry("server") ELSE entry[t]
    BY <1>11 DEF RestoreApply
  <2>2. CASE Restored(t)
    <3>1. Told(t)
      BY <2>1, <2>2, NewEntryOK DEF Told, Restored
    <3> QED
      BY <3>1
  <2> QED
    BY <1>2, <2>1, <2>2
<1>12. CASE \E m \in wire : OnMessage(m)
  <2>1. PICK m \in wire : OnMessage(m)
    BY <1>12
  <2>2. m.id \in Tasks /\ m.status \in Heard
    BY DEF Typed, ServerOK
  <2>3. CASE UNCHANGED entry \/ m.id # t
    <3>1. entry'[t] = entry[t]
      <4>1. UNCHANGED entry \/ \E e : Set(m.id, e)
        BY <2>1 DEF OnMessage
      <4> QED
        BY <1>3, <2>2, <2>3, <4>1
    <3> QED
      BY <1>2, <3>1
  <2>4. CASE ~UNCHANGED entry /\ m.id = t /\ Shown(t)
    <3>1. Set(t, Applied(entry[t], m.status))
      BY <2>1, <2>4 DEF OnMessage
    <3>2. entry'[t] = Applied(entry[t], m.status)
      BY <1>3, <3>1
    <3>3. entry'[t].origin = entry[t].origin /\ (entry'[t].status = "done" => m.status = "done")
      BY <1>1, <2>2, <2>4, <3>2, AppliedOK
    <3> QED
      BY <2>4, <3>3 DEF Kept, SaidDone
  <2>5. CASE ~UNCHANGED entry /\ m.id = t /\ ~Shown(t)
    <3>1. Set(t, Applied(Created(m), m.status)) /\ m.status \notin Terminal
      BY <2>1, <2>5 DEF OnMessage
    <3>2. Created(m) \in Entry /\ Created(m).origin = "server"
      BY <2>2, NewEntryOK DEF Created, Entry, Heard
    <3>3. entry'[t].origin = "server" /\ (entry'[t].status = "done" => m.status = "done")
      BY <1>3, <2>2, <3>1, <3>2, AppliedOK
    <3>4. Told(t)
      BY <2>5, <3>1, <3>3 DEF Told, Terminal
    <3> QED
      BY <3>4
  <2> QED
    BY <2>3, <2>4, <2>5
<1>13. CASE \E ids \in SUBSET Locals : AddFiles(ids)
  <2>1. PICK ids \in SUBSET Locals : AddFiles(ids)
    BY <1>13
  <2> DEFINE new == {u \in ids : ~Occupied(u)}
  <2>2. entry' = [u \in Tasks |-> IF u \in new THEN NewEntry("file") ELSE entry[u]]
    BY <2>1 DEF AddFiles
  <2>3. CASE t \notin new
    BY <1>2, <2>2, <2>3
  <2>4. CASE t \in new
    <3>1. PICK slot \in [new -> FreeSlots] :
           /\ \A u, v \in new : slot[u] = slot[v] => u = v
           /\ sess' = [s \in Sessions |->
                IF \E u \in new : slot[u] = s
                  THEN [FreeSession EXCEPT !.id = CHOOSE u \in new : slot[u] = s,
                                           !.pc = "queued", !.batch = ops']
                  ELSE Detached(new)[s]]
      BY <2>1, AddedSlots
    <3>2. slot[t] \in Sessions /\ sess[slot[t]].pc = "free"
      BY <2>4, <3>1 DEF FreeSlots
    <3>3. (CHOOSE u \in new : slot[u] = slot[t]) = t
      BY <2>4, <3>1
    <3>4. sess'[slot[t]] = [FreeSession EXCEPT !.id = t, !.pc = "queued", !.batch = ops']
      BY <2>4, <3>1, <3>2, <3>3
    <3>5. Started(slot[t], t) /\ entry'[t] = NewEntry("file")
      BY <2>2, <2>4, <3>2, <3>4 DEF Started, FreeSession
    <3> QED
      BY <3>2, <3>5
  <2> QED
    BY <2>3, <2>4
<1>14. CASE UNCHANGED entry
  BY <1>2, <1>14
<1> QED
  BY <1>4, <1>5, <1>6, <1>7, <1>8, <1>9, <1>10, <1>11, <1>12, <1>13, <1>14, EntrySame DEF EntryActions

Quiet(t) == srv[t] = "absent"          \* the server has never heard of the task
Dropped(t) == ~Shown(t) \/ entry[t].canc
Once(t) == \E s \in Sessions : RunsOf(t) = {s}

\* Whoever says that a task is done, it was stored.
DoneSaid ==
  /\ \A t \in Tasks : srv[t] = "done" \/ poll.snap[t] = "done" => t \in stored
  /\ \A m \in wire : m.status = "done" => m.id \in stored
\* What the page hears of, the server has a status for.
HeardOf ==
  /\ \A m \in wire : ~Quiet(m.id)
  /\ \A t \in restore.ids : ~Quiet(t)
  /\ \A t \in Tasks : got[t] # {} => ~Quiet(t)
  /\ \A s \in Sessions : sess[s].acked # {} => ~Quiet(sess[s].id)

\* The server forgets neither a status nor what it stored.
LEMMA ServerGrows ==
  ASSUME Typed, [Next]_vars
  PROVE  /\ stored \subseteq stored'
         /\ \A t \in Tasks : ~Quiet(t) => ~Quiet(t)'
<1>1. CASE ServerActions
  <2>1. PICK u \in Tasks, st \in Heard : Report(u, st) /\ (stored' = stored \/ stored' = stored \cup {u})
    BY <1>1, ServerReports
  <2>2. \A t \in Tasks : srv'[t] = srv[t] \/ (t = u /\ srv'[t] = st)
    BY <2>1, Reported DEF Typed
  <2>3. st # "absent"
    BY DEF Heard, Statuses, Terminal
  <2> QED
    BY <2>1, <2>2, <2>3 DEF Quiet
<1> QED
  BY <1>1, ServerSame DEF Quiet

LEMMA DoneSaidStep == Typed /\ DoneSaid /\ [Next]_vars => DoneSaid'
<1> SUFFICES ASSUME Typed, DoneSaid, [Next]_vars PROVE DoneSaid'
  OBVIOUS
<1>1. stored \subseteq stored'
  BY ServerGrows
<1>2. /\ \A t \in Tasks : srv'[t] = "done" => t \in stored'
      /\ \A m \in wire' : m.status = "done" => m.id \in stored'
  <2>1. CASE ServerActions
    <3>1. PICK u \in Tasks, st \in Heard : Report(u, st) /\ (st = "done" => stored' = stored \cup {u})
      BY <2>1, ServerReports
    <3>2. /\ \A t \in Tasks : srv'[t] = srv[t] \/ (t = u /\ srv'[t] = st)
          /\ \A m \in wire' : m \in wire \/ (m.id = u /\ m.status = st)
      BY <3>1, Reported DEF Typed
    <3> QED
      BY <1>1, <3>1, <3>2 DEF DoneSaid
  <2> QED
    BY <1>1, <2>1, ServerSame DEF DoneSaid
<1>3. \A t \in Tasks : poll'.snap[t] = "done" => t \in stored'
  <2>1. \/ poll'.snap = poll.snap
        \/ poll'.snap = srv
        \/ poll'.snap = [t \in Tasks |-> "absent"]
    <3>1. CASE PollTick
      BY <3>1 DEF PollTick, Typed, PollOK
    <3>2. CASE PollAnswer
      BY <3>2 DEF PollAnswer
    <3>3. CASE PollApply
      BY <3>3 DEF PollApply, PollIdle
    <3>4. CASE \E s \in Sessions : SessionEnds(s)
      BY <3>4 DEF SessionEnds, Register, Typed, PollOK
    <3> QED
      BY <3>1, <3>2, <3>3, <3>4, PollSame DEF PollActions
  <2> QED
    BY <1>1, <2>1 DEF DoneSaid
<1> QED
  BY <1>2, <1>3 DEF DoneSaid

LEMMA HeardOfStep == Typed /\ HeardOf /\ [Next]_vars => HeardOf'
<1> SUFFICES ASSUME Typed, HeardOf, [Next]_vars PROVE HeardOf'
  OBVIOUS
<1>1. \A t \in Tasks : ~Quiet(t) => ~Quiet(t)'
  BY ServerGrows
<1>2. /\ \A m \in wire : m.id \in Tasks
      /\ restore.ids \subseteq Tasks
      /\ \A s \in Sessions : sess[s].acked # {} => sess[s].id \in Tasks
  BY DEF Typed, ServerOK, RestoreOK, SessionsOK, SessionOK, InHand, Locals
<1>3. \A m \in wire' : ~Quiet(m.id)'
  <2>1. CASE ServerActions
    <3>1. PICK u \in Tasks, st \in Heard : Report(u, st)
      BY <2>1, ServerReports
    <3> QED
      BY <1>1, <1>2, <3>1, Reported DEF HeardOf, Quiet, Typed
  <2> QED
    BY <1>1, <1>2, <2>1, ServerSame DEF HeardOf
<1>4. \A t \in restore'.ids : ~Quiet(t)'
  <2>1. restore'.ids \subseteq restore.ids \cup {t \in Tasks : ~Quiet(t)}
    <3>1. CASE RestoreAnswer
      BY <3>1 DEF RestoreAnswer, Quiet
    <3>2. CASE RestoreApply
      BY <3>2 DEF RestoreApply
    <3>3. CASE \E t \in Tasks : PostAnswered(t)
      BY <3>3 DEF PostAnswered
    <3> QED
      BY <3>1, <3>2, <3>3, RestoreSame
  <2> QED
    BY <1>1, <1>2, <2>1 DEF HeardOf
<1>5. \A t \in Tasks : got'[t] # {} => ~Quiet(t)'
  <2>1. CASE ServerActions
    <3>1. PICK u \in Tasks, st \in Heard : Report(u, st) /\ got' = [got EXCEPT ![u] = got'[u]]
      BY <2>1, ServerReports
    <3>2. srv'[u] # "absent"
      BY <3>1, Reported DEF Typed
    <3>3. \A t \in Tasks : t # u => got'[t] = got[t]
      BY <3>1 DEF Typed, ServerOK
    <3> QED
      BY <1>1, <3>2, <3>3 DEF HeardOf, Quiet
  <2> QED
    BY <1>1, <2>1, ServerSame DEF HeardOf
<1>6. ASSUME NEW s \in Sessions, sess'[s].acked # {} PROVE srv'[sess'[s].id] # "absent"
  <2>1. sess[s] \in Session /\ sess \in [Sessions -> Session]
    BY DEF Typed, SessionsOK
  <2>2. CASE \E c \in Chunks : ChunkArrives(s, c)
    <3>1. PICK c \in Chunks : ChunkArrives(s, c)
      BY <2>2
    <3>2. sess[s].pc # "free"
      BY <3>1 DEF ChunkArrives, Typed, SessionsOK, SessionOK, InHand
    <3>3. sess'[s].id = sess[s].id /\ sess[s].id \in Tasks
      BY <3>2, SessionKept DEF Typed, SessionsOK, SessionOK, Locals
    <3>4. srv'[sess[s].id] # "absent"
      BY <3>1, <3>3, HeardStatuses, Reported DEF ChunkArrives, Typed
    <3> QED
      BY <3>3, <3>4 DEF Quiet
  <2>3. CASE sess'[s].acked \subseteq sess[s].acked
    <3>1. sess[s].pc # "free" /\ sess[s].acked # {}
      BY <1>6, <2>3 DEF Typed, SessionsOK, SessionOK, InHand
    <3> QED
      BY <1>1, <1>2, <3>1, SessionKept DEF HeardOf, Quiet
  <2>4. CASE CheckAnswered(s)
    <3>1. PICK have : sess' = [sess EXCEPT ![s].pc = "work", ![s].todo = Chunks \ have,
                     ![s].workers = IF Workers < Cardinality(Chunks) THEN Workers
                                    ELSE Cardinality(Chunks)]
      BY <2>4 DEF CheckAnswered
    <3>2. sess'[s].acked = sess[s].acked
      BY <2>1, <3>1 DEF Session
    <3> QED
      BY <2>3, <3>2
  <2>5. CASE SessionEnds(s)
    <3>1. sess'[s].acked = sess[s].acked
      BY <2>1, <2>5 DEF SessionEnds, Session
    <3> QED
      BY <2>3, <3>1
  <2>6. CASE \E c \in Chunks : TakeChunk(s, c) \/ ChunkAnswered(s, c) \/ ChunkFails(s, c)
                               \/ ChunkAbandoned(s, c)
    <3>1. PICK c \in Chunks : TakeChunk(s, c) \/ ChunkAnswered(s, c) \/ ChunkFails(s, c)
                              \/ ChunkAbandoned(s, c)
      BY <2>6
    <3>2. CASE TakeChunk(s, c)
      BY <2>1, <2>3, <3>2 DEF TakeChunk, Session
    <3>3. CASE ChunkAnswered(s, c)
      BY <2>1, <2>3, <3>3 DEF ChunkAnswered, Session
    <3>4. CASE ChunkFails(s, c)
      BY <2>1, <2>3, <3>4 DEF ChunkFails, Session
    <3>5. CASE ChunkAbandoned(s, c)
      BY <2>1, <2>3, <3>5 DEF ChunkAbandoned, Session
    <3> QED
      BY <3>1, <3>2, <3>3, <3>4, <3>5
  <2> QED
    BY <1>6, <2>2, <2>3, <2>4, <2>5, <2>6, SessionMoves DEF Moved, Started, ChunkSteps
<1> QED
  BY <1>3, <1>4, <1>5, <1>6 DEF HeardOf, Quiet

\* A file of this page: no POST starts it, its entry is this page's or the server's, and
\* it has a session once it is shown as a file or given to the poller.
LocalOK(t) ==
  /\ post[t] = NoPost
  /\ Shown(t) => entry[t].origin \in {"file", "server"}
  /\ Shown(t) /\ Quiet(t) => entry[t].origin = "file"
  /\ Shown(t) /\ entry[t].origin = "file" => RunsOf(t) # {}
  /\ Polled(t) => RunsOf(t) # {}
LocalInv == \A t \in Locals : LocalOK(t)

LEMMA LocalStep == Typed /\ HeardOf /\ LocalInv /\ [Next]_vars => LocalInv'
<1> SUFFICES ASSUME Typed, HeardOf, LocalInv, [Next]_vars, NEW t \in Locals PROVE LocalOK(t)'
  <2>1. [Next]_vars => Locals' = Locals
    BY KindKept DEF Locals
  <2> QED
    BY <2>1 DEF LocalInv
<1>1. LocalOK(t) /\ t \in Tasks
  BY DEF LocalInv, Locals
<1>2. post'[t] = NoPost
  <2>1. CASE UNCHANGED post
    BY <1>1, <2>1 DEF LocalOK
  <2>2. CASE \E u \in Tasks, by \in {"link", "social", "media", "torrent", "retry"} :
              /\ post' = [post EXCEPT ![u] = Post(by)]
              /\ u \notin Locals \/ (Shown(u) /\ entry[u].origin = "url")
    <3>1. PICK u \in Tasks, by \in {"link", "social", "media", "torrent", "retry"} :
              /\ post' = [post EXCEPT ![u] = Post(by)]
              /\ u \notin Locals \/ (Shown(u) /\ entry[u].origin = "url")
      BY <2>2
    <3>2. u # t
      BY <1>1, <3>1 DEF LocalOK
    <3> QED
      BY <1>1, <3>1, <3>2 DEF LocalOK, Typed, PostsOK
  <2>3. CASE \E u \in Tasks : post' = [post EXCEPT ![u].accepted = TRUE] /\ post[u].by # "none"
    <3>1. PICK u \in Tasks : post' = [post EXCEPT ![u].accepted = TRUE] /\ post[u].by # "none"
      BY <2>3
    <3>2. u # t
      BY <1>1, <3>1 DEF LocalOK, NoPost
    <3> QED
      BY <1>1, <3>1, <3>2 DEF LocalOK, Typed, PostsOK
  <2>4. CASE \E u \in Tasks : post' = [post EXCEPT ![u] = NoPost]
    BY <1>1, <2>4 DEF LocalOK, Typed, PostsOK
  <2> QED
    BY <2>1, <2>2, <2>3, <2>4, PostWritten
<1>3. RunsOf(t) \subseteq RunsOf(t)' /\ (~Quiet(t) => ~Quiet(t)')
  BY <1>1, RunsGrow, ServerGrows
<1>4. ASSUME entry'[t].shown
      PROVE  /\ entry'[t].origin \in {"file", "server"}
             /\ Quiet(t)' => entry'[t].origin = "file"
             /\ entry'[t].origin = "file" => RunsOf(t)' # {}
  <2>1. CASE Kept(t)
    BY <1>1, <1>3, <2>1 DEF Kept, LocalOK
  <2>2. CASE Told(t)
    <3>1. ~Quiet(t)
      BY <1>1, <2>2 DEF Told, HeardOf, LocalOK, NoPost
    <3> QED
      BY <1>3, <2>2, <3>1 DEF Told
  <2>3. CASE entry'[t] = NewEntry("file") /\ \E s \in Sessions : Started(s, t)
    <3>1. PICK s \in Sessions : Started(s, t)
      BY <2>3
    <3>2. s \in RunsOf(t)'
      BY <3>1 DEF Started, RunsOf
    <3> QED
      BY <2>3, <3>2, NewEntryOK
  <2> QED
    BY <1>1, <1>4, <2>1, <2>2, <2>3, EntryMoves
<1>5. ASSUME polled'[t] \in {0, 1} PROVE RunsOf(t)' # {}
  <2>1. CASE Polled(t)
    BY <1>1, <1>3, <2>1 DEF LocalOK
  <2>2. CASE ~Polled(t)
    <3>1. ~PollTick /\ ~PollAnswer /\ ~PollApply /\ polled' # polled
      BY <1>1, <1>5, <2>2 DEF PollTick, PollAnswer, PollApply, Polled, Dropping
    <3>2. PICK s \in Sessions : SessionEnds(s)
      BY <3>1, PollSame DEF PollActions
    <3>3. polled' = [polled EXCEPT ![sess[s].id] = IF Polled(sess[s].id) THEN @ ELSE 0]
      BY <3>1, <3>2 DEF SessionEnds, Register
    <3>4. sess[s].id = t
      BY <1>1, <1>5, <2>2, <3>3 DEF Typed, PollOK, Polled
    <3> QED
      BY <1>3, <3>4 DEF RunsOf
  <2> QED
    BY <2>1, <2>2
<1> QED
  BY <1>2, <1>4, <1>5 DEF LocalOK, Shown, Polled

\* A session that works either failed or has every chunk still to send and all its workers,
\* as long as the server has not heard of its file and its entry is there and not cancelled.
Plenty == IF Workers < Cardinality(Chunks) THEN Workers ELSE Cardinality(Chunks)
Working(s) == \/ sess[s].failed
              \/ /\ sess[s].todo \cup sess[s].flight \cup sess[s].acked = Chunks
                 /\ sess[s].workers = Plenty
WorkOK(s) == sess[s].pc = "work" /\ Quiet(sess[s].id) => Working(s) \/ Dropped(sess[s].id)

\* The poller looks for a file that was sent once only if the server has heard of it, or
\* the next tick drops it: two polls miss it when it is over, never before it has begun.
PollOnce(t) ==
  /\ \A s \in RunsOf(t) : WorkOK(s)
  /\ Polled(t) /\ Quiet(t) => Dropped(t)
  /\ poll.pc \in {"asked", "answer"} /\ polled[t] = 1 => ~Quiet(t)
  /\ poll.pc = "answer" /\ polled[t] = 1 => poll.snap[t] # "absent"
PollInv == \A t \in Locals : Once(t) => PollOnce(t)

LEMMA PlentyWorkers == Plenty \in Nat \ {0}
<1>1. Cardinality(Chunks) \in Nat /\ Cardinality(Chunks) # 0
  BY ConstantsOK, FS_CardinalityType, FS_EmptySet
<1> QED
  BY <1>1, ConstantsOK DEF Plenty

\* A file with one session after a step has it before, or had none.
LEMMA OnceBefore ==
  ASSUME Typed, [Next]_vars, NEW t \in Tasks, Once(t)'
  PROVE  (Once(t) /\ RunsOf(t)' = RunsOf(t)) \/ RunsOf(t) = {}
<1>1. PICK s \in Sessions : RunsOf(t)' = {s}
  BY DEF Once
<1>2. RunsOf(t) \subseteq {s}
  BY <1>1, RunsGrow
<1> QED
  BY <1>1, <1>2 DEF Once

\* What was dropped stays dropped, unless the server hears of it or another session begins.
LEMMA DroppedKept ==
  ASSUME Typed, HeardOf, LocalInv, [Next]_vars, NEW t \in Locals,
         Quiet(t)', RunsOf(t)' = RunsOf(t), RunsOf(t) # {}, Dropped(t)
  PROVE  Dropped(t)'
<1>1. t \in Tasks /\ LocalOK(t) /\ Quiet(t)
  BY ServerGrows DEF LocalInv, Locals
<1>2. ASSUME NEW s \in Sessions, Started(s, t) PROVE FALSE
  <2>1. s \in RunsOf(t)'
    BY <1>2 DEF Started, RunsOf
  <2>2. sess[s].id = t /\ sess[s].id = None
    BY <1>2, <2>1 DEF Started, RunsOf, Typed, SessionsOK, SessionOK
  <2> QED
    BY <1>1, <2>2, ConstantsOK
<1>3. CASE ~Shown(t)
  <2>1. ~Told(t)
    BY <1>1 DEF Told, HeardOf, LocalOK, NoPost
  <2>2. ~entry'[t].shown
    BY <1>1, <1>2, <1>3, <2>1, EntryMoves DEF Kept
  <2> QED
    BY <2>2 DEF Dropped, Shown
<1>4. CASE Shown(t) /\ entry[t].canc
  <2>1. entry[t].origin = "file"
    BY <1>1, <1>4 DEF LocalOK
  <2>2. ~StartedAgain(t)
    <3>1. ~\E s \in Sessions : sess[s].pc = "free" /\ sess'[s].id = t
      <4> SUFFICES ASSUME NEW s \in Sessions, sess[s].pc = "free", sess'[s].id = t PROVE FALSE
        OBVIOUS
      <4>1. s \in RunsOf(t)'
        BY DEF RunsOf
      <4>2. sess[s].id = t /\ sess[s].id = None
        BY <4>1 DEF RunsOf, Typed, SessionsOK, SessionOK
      <4> QED
        BY <1>1, <4>2, ConstantsOK
    <3>2. ~RetryUpload(t)
      <4> SUFFICES ASSUME RetryUpload(t) PROVE FALSE
        OBVIOUS
      <4>1. PICK s \in FreeSlots : sess' = [sess EXCEPT ![s] = [FreeSession EXCEPT !.id = t, !.pc = "check"]]
        BY <2>1 DEF RetryUpload
      <4>2. sess'[s].id = t /\ s \in Sessions /\ sess[s].pc = "free"
        BY <4>1 DEF FreeSession, FreeSlots, Typed, SessionsOK
      <4> QED
        BY <3>1, <4>2
    <3> QED
      BY <3>1, <3>2 DEF StartedAgain
  <2>3. entry'[t].shown => entry'[t].canc
    BY <1>1, <1>4, <2>2, CancelKept
  <2> QED
    BY <2>3 DEF Dropped, Shown
<1> QED
  BY <1>3, <1>4 DEF Dropped

LEMMA WorkStep ==
  ASSUME Typed, HeardOf, LocalInv, [Next]_vars, NEW t \in Locals, NEW s \in Sessions,
         RunsOf(t) = {s}, RunsOf(t)' = {s}, WorkOK(s), sess'[s].pc = "work", Quiet(t)'
  PROVE  Working(s)' \/ Dropped(t)'
<1>1. t \in Tasks /\ sess[s].id = t /\ Quiet(t) /\ sess[s] \in Session /\ sess \in [Sessions -> Session]
  BY ServerGrows DEF Locals, RunsOf, Typed, SessionsOK
<1>2. Dropped(t) => Dropped(t)'
  BY DroppedKept
<1>3. got[t] = {} /\ sess[s].acked = {}
  BY <1>1 DEF HeardOf
<1>4. CASE sess'[s] = sess[s]
  BY <1>1, <1>2, <1>4 DEF WorkOK, Working, Plenty
<1>5. CASE Moved(s) \/ SessionEnds(s) \/ \E u \in Locals : Started(s, u)
  <2>1. SessionEnds(s) => sess'[s].pc = "over"
    BY <1>1 DEF SessionEnds, Session
  <2> QED
    BY <1>5, <2>1 DEF Moved, Started
<1>6. CASE CheckAnswered(s)
  <2>1. sess' = [sess EXCEPT ![s].pc = "work", ![s].todo = Chunks \ {}, ![s].workers = Plenty]
    BY <1>1, <1>3, <1>6 DEF CheckAnswered, Plenty
  <2>2. sess'[s].todo = Chunks /\ sess'[s].workers = Plenty /\ sess'[s].flight = sess[s].flight
        /\ sess'[s].acked = sess[s].acked
    BY <1>1, <2>1 DEF Session
  <2>3. sess[s].flight = {}
    BY <1>6 DEF CheckAnswered, Typed, SessionsOK, SessionOK, InHand
  <2> QED
    BY <1>3, <2>2, <2>3 DEF Working, Plenty
<1>7. CASE ChunkSteps(s)
  <2>1. PICK c \in Chunks : TakeChunk(s, c) \/ ChunkArrives(s, c) \/ ChunkAnswered(s, c)
                            \/ ChunkFails(s, c) \/ ChunkAbandoned(s, c)
    BY <1>7 DEF ChunkSteps
  <2>2. CASE TakeChunk(s, c)
    <3>1. CASE Gone(t)
      BY <1>2, <3>1 DEF Gone, Dropped
    <3>2. CASE ~Gone(t)
      <4>1. sess' = [sess EXCEPT ![s].todo = @ \ {c}, ![s].flight = @ \cup {c}]
            /\ sess[s].pc = "work" /\ ~sess[s].failed /\ c \in sess[s].todo
        BY <1>1, <2>2, <3>2 DEF TakeChunk
      <4>2. sess'[s].todo = sess[s].todo \ {c} /\ sess'[s].flight = sess[s].flight \cup {c}
            /\ sess'[s].acked = sess[s].acked /\ sess'[s].workers = sess[s].workers
        BY <1>1, <4>1 DEF Session
      <4>3. sess[s].todo \cup sess[s].flight \cup sess[s].acked = Chunks /\ sess[s].workers = Plenty
        BY <1>1, <3>2, <4>1 DEF WorkOK, Working, Gone, Dropped
      <4> QED
        BY <4>1, <4>2, <4>3 DEF Working, Plenty
    <3> QED
      BY <3>1, <3>2
  <2>3. CASE ChunkArrives(s, c)
    <3>1. srv'[t] # "absent"
      BY <1>1, <2>3, HeardStatuses, Reported DEF ChunkArrives, Typed
    <3> QED
      BY <3>1 DEF Quiet
  <2>4. CASE ChunkAnswered(s, c)
    BY <1>3, <2>4 DEF ChunkAnswered
  <2>5. CASE ChunkFails(s, c)
    <3>1. sess'[s].failed
      BY <1>1, <2>5 DEF ChunkFails, Session
    <3> QED
      BY <3>1 DEF Working
  <2>6. CASE ChunkAbandoned(s, c)
    BY <1>1, <1>2, <2>6 DEF ChunkAbandoned, Dropped
  <2> QED
    BY <2>1, <2>2, <2>3, <2>4, <2>5, <2>6
<1> QED
  BY <1>4, <1>5, <1>6, <1>7, SessionMoves

\* Only the end of a session registers its file.
LEMMA Registers ==
  ASSUME Typed, [Next]_vars, NEW t \in Tasks, ~Polled(t), polled'[t] \in {0, 1}
  PROVE  \E s \in Sessions : sess[s].id = t /\ SessionEnds(s) /\ ~sess[s].failed /\ polled'[t] = 0
                             /\ UNCHANGED entry
<1>1. ~PollTick /\ ~PollAnswer /\ ~PollApply /\ polled' # polled
  BY DEF PollTick, PollAnswer, PollApply, Polled, Dropping
<1>2. PICK s \in Sessions : SessionEnds(s)
  BY <1>1, PollSame DEF PollActions
<1>3. polled' = [polled EXCEPT ![sess[s].id] = IF Polled(sess[s].id) THEN @ ELSE 0]
      /\ ~sess[s].failed /\ UNCHANGED entry
  BY <1>1, <1>2 DEF SessionEnds, Register
<1>4. sess[s].id = t
  BY <1>3 DEF Typed, PollOK, Polled
<1> QED
  BY <1>2, <1>3, <1>4 DEF Typed, PollOK, Polled

LEMMA PollInvStep == Typed /\ HeardOf /\ LocalInv /\ PollInv /\ [Next]_vars => PollInv'
<1> SUFFICES ASSUME Typed, HeardOf, LocalInv, PollInv, [Next]_vars, NEW t \in Locals, Once(t)'
             PROVE  PollOnce(t)'
  <2>1. [Next]_vars => Locals' = Locals
    BY KindKept DEF Locals
  <2> QED
    BY <2>1 DEF PollInv
<1>1. t \in Tasks /\ LocalOK(t)
  BY DEF Locals, LocalInv
<1>2. CASE RunsOf(t) = {}
  <2>1. PICK s \in Sessions : RunsOf(t)' = {s}
    BY DEF Once
  <2>2. Started(s, t)
    BY <1>1, <1>2, <2>1, RunsGrow
  <2>3. ~Polled(t)
    BY <1>1, <1>2 DEF LocalOK
  <2>4. polled'[t] \notin {0, 1}
    BY <1>1, <1>2, <2>3, Registers DEF RunsOf
  <2> QED
    BY <2>1, <2>2, <2>4 DEF PollOnce, WorkOK, Started, Polled, NoPoll
<1>3. CASE RunsOf(t) # {}
  <2>1. PICK s \in Sessions : RunsOf(t) = {s} /\ RunsOf(t)' = {s} /\ PollOnce(t)
    <3>1. Once(t) /\ RunsOf(t)' = RunsOf(t)
      BY <1>1, <1>3, OnceBefore
    <3> QED
      BY <3>1 DEF Once, PollInv
  <2>2. WorkOK(s) /\ sess[s].id = t /\ sess'[s].id = t
    BY <2>1 DEF PollOnce, RunsOf
  <2>3. ~Quiet(t) => ~Quiet(t)'
    BY <1>1, ServerGrows
  <2>4. Quiet(t)' /\ Dropped(t) => Dropped(t)'
    BY <2>1, DroppedKept
  <2>5. sess'[s].pc = "work" /\ Quiet(t)' => Working(s)' \/ Dropped(t)'
    BY <2>1, <2>2, WorkStep
  <2>6. Polled(t)' /\ Quiet(t)' => Dropped(t)'
    <3>1. CASE Polled(t)
      BY <2>1, <2>3, <2>4, <3>1 DEF PollOnce
    <3>2. CASE ~Polled(t) /\ Polled(t)' /\ Quiet(t)'
      <4>1. PICK u \in Sessions : sess[u].id = t /\ SessionEnds(u) /\ ~sess[u].failed
        BY <1>1, <3>2, Registers DEF Polled
      <4>2. u = s
        BY <2>1, <4>1 DEF RunsOf
      <4>3. ~Working(s)
        <5>1. sess[s].workers # Plenty \/ sess[s].todo \cup sess[s].flight \cup sess[s].acked = {}
          BY <4>1, <4>2, PlentyWorkers DEF SessionEnds
        <5> QED
          BY <4>1, <4>2, <5>1, ConstantsOK DEF Working
      <4>4. Dropped(t)
        BY <2>2, <2>3, <3>2, <4>1, <4>2, <4>3 DEF WorkOK, SessionEnds
      <4> QED
        BY <2>4, <3>2, <4>4
    <3> QED
      BY <3>1, <3>2
  <2>7. poll'.pc \in {"asked", "answer"} /\ polled'[t] = 1 => ~Quiet(t)'
    <3> SUFFICES ASSUME poll'.pc \in {"asked", "answer"}, polled'[t] = 1 PROVE ~Quiet(t)
      BY <2>3
    <3>1. CASE UNCHANGED <<poll, polled>>
      BY <2>1, <3>1 DEF PollOnce
    <3>2. CASE PollTick
      <4>1. polled[t] = 1 /\ ~Settled(t)
        BY <1>1, <3>2 DEF PollTick, Dropping, Polled, NoPoll, Overdue
      <4>2. ~Dropped(t) /\ Polled(t)
        BY <4>1 DEF Settled, Dropped, Polled, NoPoll
      <4> QED
        BY <2>1, <4>2 DEF PollOnce
    <3>3. CASE PollAnswer
      BY <2>1, <3>3 DEF PollAnswer, PollOnce
    <3>4. CASE PollApply
      BY <3>4 DEF PollApply, PollIdle
    <3>5. CASE \E u \in Sessions : SessionEnds(u)
      <4>1. PICK u \in Sessions : SessionEnds(u)
        BY <3>5
      <4>2. CASE Register(sess[u].id)
        <5>1. polled[t] = 1
          BY <1>1, <4>2 DEF Register, Typed, PollOK
        <5>2. poll'.pc = poll.pc
          BY <4>2 DEF Register, Typed, PollOK
        <5> QED
          BY <2>1, <5>1, <5>2 DEF PollOnce
      <4> QED
        BY <3>1, <4>1, <4>2 DEF SessionEnds
    <3> QED
      BY <3>1, <3>2, <3>3, <3>4, <3>5, PollSame DEF PollActions
  <2>8. poll'.pc = "answer" /\ polled'[t] = 1 => poll'.snap[t] # "absent"
    <3> SUFFICES ASSUME poll'.pc = "answer", polled'[t] = 1 PROVE poll'.snap[t] # "absent"
      OBVIOUS
    <3>1. CASE UNCHANGED <<poll, polled>>
      BY <2>1, <3>1 DEF PollOnce
    <3>2. CASE PollTick
      BY <3>2 DEF PollTick, Typed, PollOK
    <3>3. CASE PollAnswer
      BY <2>1, <3>3 DEF PollAnswer, PollOnce, Quiet
    <3>4. CASE PollApply
      BY <3>4 DEF PollApply, PollIdle
    <3>5. CASE \E u \in Sessions : SessionEnds(u)
      <4>1. PICK u \in Sessions : SessionEnds(u)
        BY <3>5
      <4>2. CASE Register(sess[u].id)
        <5>1. polled[t] = 1
          BY <1>1, <4>2 DEF Register, Typed, PollOK
        <5>2. poll'.pc = poll.pc /\ poll'.snap = poll.snap
          BY <4>2 DEF Register, Typed, PollOK
        <5> QED
          BY <2>1, <5>1, <5>2 DEF PollOnce
      <4> QED
        BY <3>1, <4>1, <4>2 DEF SessionEnds
    <3> QED
      BY <3>1, <3>2, <3>3, <3>4, <3>5, PollSame DEF PollActions
  <2> QED
    BY <2>1, <2>2, <2>5, <2>6, <2>7, <2>8 DEF PollOnce, WorkOK, Polled
<1> QED
  BY <1>2, <1>3

ShownInv ==
  \A t \in Locals : Once(t) /\ Shown(t) /\ entry[t].status = "done" => t \in stored

LEMMA ShownStep ==
  Typed /\ DoneSaid /\ HeardOf /\ LocalInv /\ PollInv /\ ShownInv /\ [Next]_vars => ShownInv'
<1> SUFFICES ASSUME Typed, DoneSaid, HeardOf, LocalInv, PollInv, ShownInv, [Next]_vars,
                    NEW t \in Locals, Once(t)', entry'[t].shown, entry'[t].status = "done"
             PROVE  t \in stored'
  <2>1. [Next]_vars => Locals' = Locals
    BY KindKept DEF Locals
  <2> QED
    BY <2>1 DEF ShownInv, Shown
<1>1. t \in Tasks /\ LocalOK(t) /\ stored \subseteq stored'
  BY ServerGrows DEF Locals, LocalInv
<1>2. Kept(t) /\ (entry[t].status = "done" \/ SaidDone(t)) /\ entry'[t] # NewEntry("file")
  <2>1. \A o \in {"file", "url", "server"} : entry'[t] # NewEntry(o)
    BY NewEntryOK
  <2> QED
    BY <1>1, <2>1, EntryMoves DEF Told
<1>3. Once(t)
  <2> SUFFICES ASSUME RunsOf(t) = {} PROVE FALSE
    BY <1>1, OnceBefore
  <2>1. PICK s \in Sessions : RunsOf(t)' = {s}
    BY DEF Once
  <2>2. Started(s, t)
    BY <1>1, <2>1, RunsGrow
  <2> QED
    BY <1>1, <1>2, <2>2 DEF Started, LocalOK
<1>4. PollOnce(t)
  BY <1>3 DEF PollInv
<1>5. CASE entry[t].status = "done"
  BY <1>1, <1>2, <1>3, <1>5 DEF ShownInv, Kept
<1>6. CASE SaidDone(t)
  <2>1. polled[t] \in {0, 1, NoPoll, Overdue}
    BY <1>1 DEF Typed, PollOK
  <2>2. Polled(t) /\ Missed(polled[t]) => polled[t] = 1
    BY <2>1 DEF Missed, Polled, NoPoll
  <2>3. (\E m \in wire : m.id = t /\ m.status = "done") \/ poll.snap[t] = "done"
    BY <1>4, <1>6, <2>2 DEF SaidDone, PollOnce
  <2> QED
    BY <1>1, <2>3 DEF DoneSaid
<1> QED
  BY <1>2, <1>5, <1>6

ListInv == Typed /\ DoneSaid /\ HeardOf /\ LocalInv /\ PollInv /\ ShownInv

LEMMA ListInit == Init => ListInv
<1> SUFFICES ASSUME Init PROVE ListInv
  OBVIOUS
<1>1. Typed
  BY TypedInit
<1>2. \A t \in Tasks : ~Shown(t) /\ ~Polled(t)
  BY DEF Init, Shown, None, Polled, NoPoll
<1>3. \A s \in Sessions : sess[s].id = None /\ sess[s].acked = {}
  BY DEF Init, FreeSession
<1>4. \A t \in Tasks : RunsOf(t) = {}
  BY <1>3, ConstantsOK DEF RunsOf
<1>5. DoneSaid /\ HeardOf
  BY <1>3 DEF Init, DoneSaid, HeardOf, PollIdle
<1>6. LocalInv /\ PollInv /\ ShownInv
  BY <1>2, <1>4 DEF Init, LocalInv, LocalOK, PollInv, ShownInv, Once, Locals
<1> QED
  BY <1>1, <1>5, <1>6 DEF ListInv

\* What makes the list right is an invariant: whoever says done it was stored, what the page
\* hears of the server has a status for, and the poller never looks for a file before the
\* server has heard of it.
THEOREM ListInvariant == Spec => []ListInv
<1>1. ListInv /\ [Next]_vars => ListInv'
  BY TypedStep, DoneSaidStep, HeardOfStep, LocalStep, PollInvStep, ShownStep DEF ListInv
<1> QED
  BY <1>1, ListInit, PTL DEF Spec

\* A file that this page sent once and shows as done was stored, whether the socket said so
\* or the poller took two missed polls for success (finishTaskDone).
THEOREM DoneShownIsStored == Spec => []ShownDoneStored
<1>1. ListInv => ShownDoneStored
  <2> SUFFICES ASSUME ListInv, NEW t \in Locals, Shown(t), entry[t].status = "done",
                      Cardinality(RunsOf(t)) = 1
               PROVE  t \in stored
    BY DEF ShownDoneStored
  <2>1. IsFiniteSet(RunsOf(t))
    <3>1. RunsOf(t) \subseteq Sessions /\ 1 \in Int /\ MaxSessions \in Int
      BY ConstantsOK DEF RunsOf
    <3> QED
      BY <3>1, FS_Interval, FS_Subset DEF Sessions
  <2>2. PICK s : RunsOf(t) = {s}
    BY <2>1, FS_Singleton
  <2>3. s \in Sessions
    BY <2>2 DEF RunsOf
  <2>4. Once(t)
    BY <2>2, <2>3 DEF Once
  <2> QED
    BY <2>4 DEF ListInv, ShownInv
<1> QED
  BY <1>1, ListInvariant, PTL
=============================================================================
