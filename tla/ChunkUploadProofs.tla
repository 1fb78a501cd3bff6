-------------------------- MODULE ChunkUploadProofs --------------------------
(***************************************************************************)
(* Proofs about ChunkUpload, for every number of chunks, requests and      *)
(* sessions, and any number of events: the types, that one chunkState      *)
(* starts one upload, that the first upload stores the whole file, and     *)
(* that what the page calls done is stored.                                *)
(***************************************************************************)
EXTENDS ChunkUpload, FiniteSetTheorems, TLAPS

-----------------------------------------------------------------------------
(* Types *)

Active == {"load", "open", "write", "mark"}   \* requests inside handlePostUpload

\* What a request holds at each step, besides the types.
Holding ==
  /\ \A r \in Requests : req[r].pc \in Active => req[r].state \in Requests
  /\ \A r \in Requests : req[r].pc \in {"sent"} \cup Active \/ req[r].insertChunk =>
                           req[r].chunk \in Chunks
  /\ \A r \in Requests : up[r] = "open" => reads[r] \in Requests
  /\ \A r \in Requests : req[r].pc \notin {"over"} => ~Pending(r) /\ up[r] = "none"
  /\ \A x \in starts : req[x.by].pc = "over" /\ up[x.by] # "none"
  /\ IsFiniteSet(starts)

Typed == TypeOK /\ Holding

-----------------------------------------------------------------------------
(* One upload per chunkState *)

\* A chunkState is named by the request that published it.  Once it has started an upload
\* it is not in the tracker any more, and the requests that still share it see that.
Known(s) == req[s].pc \notin {"free", "sent"}
StatesUsed ==
  /\ tracker # Nothing => Known(tracker)
  /\ \A r \in Requests : req[r].pc \in Active => Known(req[r].state)
  /\ \A x \in starts :
       /\ Known(x.state) /\ tracker # x.state
       /\ \A r \in Requests : req[r].pc \in Active /\ req[r].state = x.state => started[x.state]

-----------------------------------------------------------------------------
(* The first upload is whole *)

CancelSeen == cancelPc # "idle" => "cancel" \in seen
Plain == seen \subseteq {"leave", "crash", "lost", "fail", "forget"}

\* Until an upload starts, the temp file stays, and whatever counts as received, in memory
\* or in the tables, is in it.
InTemp(c) == temp # Nothing /\ c \in bytes[temp]
BeforeStart ==
  /\ stored = {} /\ \A r \in Requests : up[r] = "none"
  /\ \A c \in chunkRows : InTemp(c)
  /\ \A s \in Requests : \A c \in received[s] : InTemp(c)
  /\ \A r \in Requests : req[r].insertChunk => InTemp(req[r].chunk)
  /\ \A r \in Requests : req[r].pc \in {"write", "mark"} => req[r].ino = temp
  /\ \A r \in Requests : req[r].pc = "mark" => InTemp(req[r].chunk)

\* The only upload that was started reads a whole file, or has read it.
OnlyOne ==
  /\ \A r \in Requests : up[r] # "none" => \A x \in starts : x.by = r
  /\ \A r \in Requests : up[r] = "queued" => temp # Nothing /\ bytes[temp] = Chunks
  /\ \A r \in Requests : up[r] = "open" => bytes[reads[r]] = Chunks
  /\ StoredWhole

FirstInv ==
  /\ Plain /\ starts = {} => BeforeStart
  /\ Plain /\ (\A x, y \in starts : x = y) => OnlyOne

-----------------------------------------------------------------------------
(* Done is stored *)

Steady ==
  seen \cap {"crash", "restart", "cancel"} = {} /\ ~({"fail", "forget"} \subseteq seen)

\* While the server shows no task, no chunk has been received, and the client still has
\* every chunk to send or in flight.
Untouched ==
  /\ chunkRows = {}
  /\ \A s \in Requests : received[s] = {}
  /\ \A r \in Requests : ~req[r].insertChunk
  /\ client \notin {"polling", "done"}
  /\ client = "sending" =>
       \A c \in Chunks : c \in todo \/ \E r \in InFlight : req[r].chunk = c

DoneInv ==
  Steady => /\ \A r \in Requests : req[r].pc = "free" => ~req[r].lost
            /\ task = "absent" /\ stored = {} => Untouched
            /\ task = "done" \/ client = "done" => stored # {}

\* As long as no upload fails, the first one finds its file, and no entry is terminal, so that
\* none is forgotten, before it has stored something.
Unfailed ==
  /\ timers = 0
  /\ \A r \in Requests : up[r] \notin {"removing", "ended"}
  /\ \A r \in Requests : req[r].pc \in {"write", "mark"} \/ up[r] = "queued" => temp # Nothing

UnfailedInv == Steady /\ stored = {} /\ "fail" \notin seen => Unfailed

-----------------------------------------------------------------------------
IInv ==
  Typed /\ StatesUsed /\ CancelSeen /\ FirstInv /\ DoneInv /\ UnfailedInv /\ OncePerState

-----------------------------------------------------------------------------
(* Types of the steps *)

LEMMA InitTyped == Init => Typed
<1> SUFFICES ASSUME Init PROVE Typed
  OBVIOUS
<1>1. FreeRequest \in Request
  BY ConstantsOK DEF FreeRequest, Request
<1>2. TypeOK
  <2>1. 0 \in 0 .. MaxSessions
    BY ConstantsOK
  <2>2. req \in [Requests -> Request] /\ \A r \in Requests : req[r].pc = "free"
    BY <1>1 DEF Init, FreeRequest
  <2> QED
    BY <2>1, <2>2 DEF Init, TypeOK
<1>3. Holding
  BY FS_EmptySet DEF Init, Holding, Active, FreeRequest, Pending
<1> QED
  BY <1>2, <1>3 DEF Typed

\* The kinds of events that have happened are among those that may.
LEMMA SeenTyped == ASSUME NEW e, Happens(e) PROVE seen' \subseteq AllEvents
BY ConstantsOK DEF Happens

\* A request goes on: the others stay as they are.
LEMMA MoveType ==
  ASSUME TypeOK, NEW r \in Requests,
         NEW to \in {"free", "sent", "load", "open", "write", "mark", "over"}, Move(r, to)
  PROVE  /\ req' \in [Requests -> Request]
         /\ req'[r] = [req[r] EXCEPT !.pc = to]
         /\ \A x \in Requests : x # r => req'[x] = req[x]
<1>1. req[r] \in Request /\ req \in [Requests -> Request]
  BY DEF TypeOK
<1>2. [req[r] EXCEPT !.pc = to] \in Request
  BY <1>1 DEF Request
<1> QED
  BY <1>1, <1>2 DEF Move

LEMMA ClientTyped ==
  ASSUME Typed, StartSession \/ AllSent \/ Poll \/ GivesUp \/ Leave \/ Cancel
  PROVE  Typed'
<1>1. UNCHANGED <<req, trackerVars, disk, rows, uploads>>
  BY DEF StartSession, AllSent, Poll, GivesUp, Leave, Cancel
<1>2. /\ client' \in {"new", "sending", "polling", "unsettled", "failed", "done"}
      /\ cancelPc' \in {"idle", "files", "tracker", "chunks", "task"}
      /\ seen' \subseteq AllEvents
  <2>1. client' \in {"new", "sending", "polling", "unsettled", "failed", "done"}
    BY DEF StartSession, AllSent, Poll, GivesUp, Leave, Cancel, PollShows, Typed, TypeOK
  <2>2. cancelPc' \in {"idle", "files", "tracker", "chunks", "task"}
    BY DEF StartSession, AllSent, Poll, GivesUp, Leave, Cancel, env, Typed, TypeOK
  <2>3. UNCHANGED seen \/ Happens("again") \/ Happens("leave") \/ Happens("cancel")
    BY DEF StartSession, AllSent, Poll, GivesUp, Leave, Cancel, env
  <2> QED
    BY <2>1, <2>2, <2>3, SeenTyped DEF Typed, TypeOK
<1>3. todo' \subseteq Chunks
  BY DEF StartSession, AllSent, Poll, GivesUp, Leave, Cancel, Typed, TypeOK
<1>4. session' \in 0 .. MaxSessions
  <2>1. session \in 0 .. MaxSessions /\ MaxSessions \in Nat
    BY ConstantsOK DEF Typed, TypeOK
  <2>2. session' = session \/ (session < MaxSessions /\ session' = session + 1)
    BY DEF StartSession, AllSent, Poll, GivesUp, Leave, Cancel
  <2> QED
    BY <2>1, <2>2
<1>5. TypeOK'
  BY <1>1, <1>2, <1>3, <1>4 DEF Typed, TypeOK, trackerVars, disk, rows, uploads
<1>6. Holding'
  BY <1>1 DEF Typed, Holding, Pending, uploads
<1> QED
  BY <1>5, <1>6 DEF Typed

LEMMA SendTyped ==
  ASSUME Typed, NEW r \in Requests, (\E c \in Chunks : Send(r, c)) \/ LoseAnswer(r)
  PROVE  Typed'
<1> USE DEF Typed, TypeOK
<1>0. req \in [Requests -> Request] /\ req[r] \in Request
  OBVIOUS
<1>1. ASSUME NEW c \in Chunks, Send(r, c) PROVE Typed'
  <2>1. /\ req' \in [Requests -> Request]
        /\ req'[r] = [req[r] EXCEPT !.pc = "sent", !.chunk = c, !.session = session]
        /\ \A x \in Requests : x # r => req'[x] = req[x]
    BY <1>0, <1>1 DEF Send, Request
  <2>2. req'[r].pc = "sent" /\ req'[r].chunk = c /\ req[r].pc = "free" /\ (Pending(r)' <=> Pending(r))
    BY <1>0, <1>1, <2>1 DEF Send, Request, Pending
  <2>3. TypeOK'
    BY <1>1, <2>1, <2>2 DEF Send, trackerVars, disk, rows, uploads, env
  <2>4. Holding'
    <3>1. c \in Chunks /\ UNCHANGED <<up, reads, starts>>
      BY <1>1 DEF Send, uploads
    <3>2. \A x \in Requests : x # r => (Pending(x)' <=> Pending(x))
      BY <2>1 DEF Pending
    <3>3. Holding /\ \A x \in starts : x.by \in Requests
      OBVIOUS
    <3> HIDE DEF Typed, TypeOK
    <3> QED
      BY <2>1, <2>2, <3>1, <3>2, <3>3 DEF Holding, Active
  <2> QED
    BY <2>3, <2>4
<1>2. CASE LoseAnswer(r)
  <2>1. /\ req' \in [Requests -> Request]
        /\ req'[r] = [req[r] EXCEPT !.lost = TRUE]
        /\ \A x \in Requests : x # r => req'[x] = req[x]
    BY <1>0, <1>2 DEF LoseAnswer, Request
  <2>2. \A x \in Requests : /\ req'[x].pc = req[x].pc /\ req'[x].chunk = req[x].chunk
                            /\ req'[x].state = req[x].state /\ req'[x].ino = req[x].ino
                            /\ req'[x].insertChunk = req[x].insertChunk
                            /\ (Pending(x)' <=> Pending(x))
    BY <1>0, <2>1 DEF Request, Pending
  <2>3. todo' \subseteq Chunks
    <3>1. req[r].chunk \in Chunks
      BY <1>2 DEF LoseAnswer, InFlight, Busy, Holding, Active, Request
    <3> QED
      BY <1>2, <3>1 DEF LoseAnswer
  <2>4. TypeOK'
    <3>1. seen' \subseteq AllEvents
      BY <1>2, SeenTyped DEF LoseAnswer
    <3> QED
      BY <1>2, <2>1, <2>2, <2>3, <3>1 DEF LoseAnswer, trackerVars, disk, rows, uploads
  <2>5. Holding'
    BY <1>2, <2>2 DEF LoseAnswer, uploads, Holding, Active
  <2> QED
    BY <2>4, <2>5
<1> QED
  BY <1>1, <1>2

\* A request enters, opens and writes: it gets a state and a file.
LEMMA EnterTyped ==
  ASSUME Typed, NEW r \in Requests, Enter(r) \/ Load(r)
  PROVE  Typed'
<1> USE DEF Typed, TypeOK
<1>0. req \in [Requests -> Request] /\ req[r] \in Request
  OBVIOUS
<1>1. CASE Enter(r)
  <2>1. /\ req' \in [Requests -> Request]
        /\ \A x \in Requests : x # r => req'[x] = req[x]
        /\ req'[r].pc \in {"load", "open"} /\ req'[r].state \in Requests
        /\ req'[r].chunk = req[r].chunk /\ (Pending(r)' <=> Pending(r))
        /\ req'[r].insertChunk = req[r].insertChunk /\ req[r].pc = "sent"
    <3>1. CASE tracker = Nothing
      <4>1. req'[r] = [req[r] EXCEPT !.pc = "load", !.state = r] /\ req' \in [Requests -> Request]
            /\ \A x \in Requests : x # r => req'[x] = req[x]
        <5>1. req' = [req EXCEPT ![r].pc = "load", ![r].state = r]
          BY <1>1, <3>1 DEF Enter
        <5> HIDE DEF Typed, TypeOK
        <5> QED
          BY <1>0, <5>1 DEF Request
      <4> QED
        BY <1>0, <1>1, <4>1 DEF Enter, Request, Pending
    <3>2. CASE tracker # Nothing
      <4>1. req'[r] = [req[r] EXCEPT !.pc = "open", !.state = tracker] /\ req' \in [Requests -> Request]
            /\ \A x \in Requests : x # r => req'[x] = req[x]
        <5>1. req' = [req EXCEPT ![r].pc = "open", ![r].state = tracker] /\ tracker \in Requests
          BY <1>1, <3>2 DEF Enter
        <5> HIDE DEF Typed, TypeOK
        <5> QED
          BY <1>0, <5>1 DEF Request
      <4> QED
        BY <1>0, <1>1, <3>2, <4>1 DEF Enter, Request, Pending
    <3> QED
      BY <3>1, <3>2
  <2>2. tracker' \in Requests \cup {Nothing}
    BY <1>1 DEF Enter
  <2>3. TypeOK'
    BY <1>1, <2>1, <2>2 DEF Enter, clientVars, disk, rows, uploads, env
  <2>4. Holding'
    BY <1>1, <2>1 DEF Enter, uploads, Holding, Active, Pending
  <2> QED
    BY <2>3, <2>4
<1>2. CASE Load(r)
  <2>1. /\ req' \in [Requests -> Request] /\ req'[r] = [req[r] EXCEPT !.pc = "open"]
        /\ \A x \in Requests : x # r => req'[x] = req[x]
    BY <1>2, MoveType DEF Load
  <2>2. received' \in [Requests -> SUBSET Chunks]
    BY <1>2 DEF Load, LoadRows
  <2>3. req'[r].pc = "open" /\ req'[r].chunk = req[r].chunk /\ req'[r].state = req[r].state
        /\ req'[r].insertChunk = req[r].insertChunk /\ req[r].pc = "load" /\ (Pending(r)' <=> Pending(r))
    BY <1>0, <1>2, <2>1 DEF Load, Request, Pending
  <2>4. TypeOK'
    <3>1. \A x \in Requests : req'[x].pc \in {"write", "mark"} => req'[x].ino # Nothing
      BY <2>1, <2>3
    <3> QED
      BY <1>2, <2>1, <2>2, <3>1 DEF Load, clientVars, disk, rows, uploads, env
  <2>5. Holding'
    <3>1. Holding /\ UNCHANGED <<up, reads, starts>> /\ starts \subseteq [by: Requests, state: Requests, session: 0 .. MaxSessions]
      BY <1>2 DEF Load, uploads
    <3> HIDE DEF Typed, TypeOK
    <3>2. \A x \in Requests :
            /\ req'[x].pc \in Active => req[x].pc \in Active
            /\ req'[x].pc = "over" <=> req[x].pc = "over"
            /\ req'[x].state = req[x].state /\ req'[x].chunk = req[x].chunk
            /\ req'[x].insertChunk = req[x].insertChunk /\ (Pending(x)' <=> Pending(x))
            /\ req'[x].pc \in {"sent"} \cup Active => req[x].pc \in {"sent"} \cup Active
      BY <2>1, <2>3 DEF Active, Pending
    <3> QED
      BY <3>1, <3>2 DEF Holding
  <2> QED
    BY <2>4, <2>5
<1> QED
  BY <1>1, <1>2

LEMMA WriteTyped ==
  ASSUME Typed, NEW r \in Requests, Open(r) \/ Write(r)
  PROVE  Typed'
<1> USE DEF Typed, TypeOK
<1>0. req \in [Requests -> Request] /\ req[r] \in Request
  OBVIOUS
<1>1. CASE Open(r)
  <2>1. temp' \in Requests /\ UNCHANGED bytes
    BY <1>1 DEF Open, Created, Keeps
  <2>2. /\ req' \in [Requests -> Request]
        /\ req'[r] = [req[r] EXCEPT !.pc = "write", !.ino = temp']
        /\ \A x \in Requests : x # r => req'[x] = req[x]
    BY <1>0, <1>1, <2>1 DEF Open, Request
  <2>3. req'[r].pc = "write" /\ req'[r].ino = temp' /\ req'[r].chunk = req[r].chunk
        /\ req'[r].state = req[r].state /\ req[r].pc = "open" /\ (Pending(r)' <=> Pending(r))
        /\ req'[r].insertChunk = req[r].insertChunk
    BY <1>0, <1>1, <2>2 DEF Open, Request, Pending
  <2>4. TypeOK'
    <3>1. \A x \in Requests : req'[x].pc \in {"write", "mark"} => req'[x].ino # Nothing
      <4>1. \A x \in Requests : req[x].pc \in {"write", "mark"} => req[x].ino # Nothing
        OBVIOUS
      <4> HIDE DEF Typed, TypeOK
      <4> QED
        BY <2>1, <2>2, <2>3, <4>1, ConstantsOK
    <3> QED
      BY <1>1, <2>1, <2>2, <3>1 DEF Open, clientVars, trackerVars, rows, uploads, env
  <2>5. Holding'
    BY <1>1, <2>2, <2>3 DEF Open, uploads, Holding, Active, Pending
  <2> QED
    BY <2>4, <2>5
<1>2. CASE Write(r)
  <2>1. /\ req' \in [Requests -> Request] /\ req'[r] = [req[r] EXCEPT !.pc = "mark"]
        /\ \A x \in Requests : x # r => req'[x] = req[x]
    BY <1>2, MoveType DEF Write
  <2>2. req'[r].pc = "mark" /\ req'[r].chunk = req[r].chunk /\ req'[r].state = req[r].state
        /\ req'[r].ino = req[r].ino
        /\ req'[r].insertChunk = req[r].insertChunk /\ req[r].pc = "write" /\ (Pending(r)' <=> Pending(r))
    BY <1>0, <1>2, <2>1 DEF Write, Request, Pending
  <2>3. bytes' \in [Requests -> SUBSET Chunks]
    <3>1. req[r].chunk \in Chunks
      BY <1>2 DEF Write, Holding, Active
    <3> QED
      BY <1>2, <3>1 DEF Write
  <2>4. TypeOK'
    <3>1. \A x \in Requests : req'[x].pc \in {"write", "mark"} => req'[x].ino # Nothing
      <4>1. \A x \in Requests : req[x].pc \in {"write", "mark"} => req[x].ino # Nothing
        OBVIOUS
      <4>2. \A x \in Requests : /\ req'[x].pc \in {"write", "mark"} => req[x].pc \in {"write", "mark"}
                                /\ req'[x].ino = req[x].ino
        BY <2>1, <2>2
      <4> HIDE DEF Typed, TypeOK
      <4> QED
        BY <4>1, <4>2
    <3> QED
      BY <1>2, <2>1, <2>3, <3>1 DEF Write, clientVars, trackerVars, rows, uploads, env
  <2>5. Holding'
    <3>1. Holding /\ UNCHANGED <<up, reads, starts>> /\ starts \subseteq [by: Requests, state: Requests, session: 0 .. MaxSessions]
      BY <1>2 DEF Write, uploads
    <3> HIDE DEF Typed, TypeOK
    <3>2. \A x \in Requests :
            /\ req'[x].pc \in Active => req[x].pc \in Active
            /\ req'[x].pc = "over" <=> req[x].pc = "over"
            /\ req'[x].state = req[x].state /\ req'[x].chunk = req[x].chunk
            /\ req'[x].insertChunk = req[x].insertChunk /\ (Pending(x)' <=> Pending(x))
            /\ req'[x].pc \in {"sent"} \cup Active => req[x].pc \in {"sent"} \cup Active
      BY <2>1, <2>2 DEF Active, Pending
    <3> QED
      BY <3>1, <3>2 DEF Holding
  <2> QED
    BY <2>4, <2>5
<1> QED
  BY <1>1, <1>2

\* What Mark leaves of a request.
LEMMA MarkLeaves ==
  ASSUME Typed, NEW r \in Requests, Mark(r)
  PROVE  /\ req' \in [Requests -> Request]
         /\ req[r].pc = "mark" /\ req[r].state \in Requests /\ req[r].chunk \in Chunks
         /\ req[r].ino \in Requests
         /\ req'[r].pc = "over" /\ req'[r].chunk = req[r].chunk /\ req'[r].session = 0
         /\ req'[r].insertChunk
         /\ \A x \in Requests : x # r => req'[x] = req[x]
<1>0. req \in [Requests -> Request] /\ req[r] \in Request /\ req[r].pc = "mark"
  BY DEF Mark, Typed, TypeOK
<1>1. req[r].state \in Requests /\ req[r].chunk \in Chunks /\ req[r].ino \in Requests
  BY <1>0 DEF Typed, TypeOK, Holding, Active, Request
<1> DEFINE q == [FreeRequest EXCEPT !.pc = "over", !.chunk = req[r].chunk,
                           !.insertTask = ~created[req[r].state], !.insertChunk = TRUE,
                           !.purge = IF Completes(r) THEN "chunks" ELSE "none"]
<1>2. created[req[r].state] \in BOOLEAN
  BY <1>1 DEF Typed, TypeOK
<1>3. q \in Request /\ q.pc = "over" /\ q.chunk = req[r].chunk /\ q.session = 0 /\ q.insertChunk
  <2>1. 0 \in 0 .. MaxSessions
    BY ConstantsOK
  <2> QED
    BY <1>1, <1>2, <2>1 DEF FreeRequest, Request
<1>4. req' = [req EXCEPT ![r] = q]
  BY DEF Mark
<1> HIDE DEF q
<1> QED
  BY <1>0, <1>1, <1>3, <1>4

LEMMA MarkTyped ==
  ASSUME Typed, NEW r \in Requests, Mark(r)
  PROVE  Typed'
<1> DEFINE s == req[r].state
<1>1. /\ req' \in [Requests -> Request]
      /\ req[r].pc = "mark" /\ s \in Requests /\ req[r].chunk \in Chunks
      /\ req'[r].pc = "over" /\ req'[r].chunk = req[r].chunk
      /\ \A x \in Requests : x # r => req'[x] = req[x]
  BY MarkLeaves
<1>2. /\ received' = [received EXCEPT ![s] = Marked(r)]
      /\ created' = [created EXCEPT ![s] = TRUE]
      /\ task' \in {"running", task} /\ timers' = timers
      /\ UNCHANGED <<clientVars, disk, rows, reads, stored, env>>
  BY DEF Mark, Progress
<1>3. /\ started' \in [Requests -> BOOLEAN] /\ tracker' \in Requests \cup {Nothing}
      /\ up' \in [Requests -> {"none", "queued", "open", "removing", "ended"}]
      /\ \A x \in Requests : x # r => up'[x] = up[x]
      /\ up'[r] \in {"queued", up[r]}
  <2>1. \/ UNCHANGED <<started, tracker, up>>
        \/ /\ started' = [started EXCEPT ![s] = TRUE] /\ tracker' = Nothing
           /\ up' = [up EXCEPT ![r] = "queued"]
    BY DEF Mark
  <2>2. /\ started \in [Requests -> BOOLEAN] /\ tracker \in Requests \cup {Nothing}
        /\ up \in [Requests -> {"none", "queued", "open", "removing", "ended"}]
    BY DEF Typed, TypeOK
  <2> HIDE DEF s
  <2> QED
    BY <1>1, <2>1, <2>2
<1>4. starts' = starts \/ (starts' = starts \cup {[by |-> r, state |-> s, session |-> req[r].session]}
                           /\ up'[r] = "queued")
  BY DEF Mark, Typed, TypeOK
<1>5. req[r].session \in 0 .. MaxSessions
  BY DEF Typed, TypeOK, Request
<1>6. Marked(r) \subseteq Chunks
  BY <1>1 DEF Marked, Typed, TypeOK
<1>7. TypeOK'
  <2>1. received' \in [Requests -> SUBSET Chunks] /\ created' \in [Requests -> BOOLEAN]
    BY <1>2, <1>6 DEF Typed, TypeOK
  <2>2. starts' \subseteq [by: Requests, state: Requests, session: 0 .. MaxSessions]
    BY <1>1, <1>4, <1>5 DEF Typed, TypeOK
  <2>3. task' \in {"absent", "running", "done", "error", "cancelled"}
    BY <1>2 DEF Typed, TypeOK
  <2>4. \A x \in Requests : req'[x].pc \in {"write", "mark"} => req'[x].ino # Nothing
    BY <1>1 DEF Typed, TypeOK
  <2> QED
    BY <1>1, <1>2, <1>3, <2>1, <2>2, <2>3, <2>4 DEF Typed, TypeOK, clientVars, disk, rows, env
<1>8. Holding'
  <2>1. \A x \in Requests : req'[x].pc \in Active => req'[x].state \in Requests
    BY <1>1 DEF Typed, Holding, Active
  <2>2. \A x \in Requests : req'[x].pc \in {"sent"} \cup Active \/ req'[x].insertChunk =>
                           req'[x].chunk \in Chunks
    BY <1>1 DEF Typed, Holding
  <2>3. \A x \in Requests : up'[x] = "open" => reads'[x] \in Requests
    BY <1>1, <1>2, <1>3 DEF Typed, Holding
  <2>4. \A x \in Requests : req'[x].pc \notin {"over"} => ~Pending(x)' /\ up'[x] = "none"
    BY <1>1, <1>3 DEF Typed, Holding, Pending
  <2>5. \A x \in starts' : req'[x.by].pc = "over" /\ up'[x.by] # "none"
    <3>1. \A x \in starts : x.by \in Requests
      BY DEF Typed, TypeOK
    <3>2. \A x \in starts : req'[x.by].pc = "over" /\ up'[x.by] # "none"
      BY <1>1, <1>3, <3>1 DEF Typed, Holding
    <3> QED
      BY <1>1, <1>4, <3>2
  <2>6. IsFiniteSet(starts')
    BY <1>4, FS_AddElement DEF Typed, Holding
  <2> QED
    BY <2>1, <2>2, <2>3, <2>4, <2>5, <2>6 DEF Holding
<1> QED
  BY <1>7, <1>8 DEF Typed

LEMMA GoroutineTyped ==
  ASSUME Typed, NEW r \in Requests,
         RunsInsertTask(r) \/ RunsInsertChunk(r) \/ RunsPurgeChunks(r) \/ RunsPurgeTask(r)
  PROVE  /\ Typed'
         /\ \A x \in Requests : /\ req'[x].pc = req[x].pc /\ req'[x].state = req[x].state
                                /\ req'[x].ino = req[x].ino /\ req'[x].session = req[x].session
                                /\ req'[x].lost = req[x].lost
                                /\ req'[x].insertChunk => req[x].insertChunk
                                /\ req'[x].chunk = req[x].chunk \/ (req[x].pc = "over" /\ ~req'[x].insertChunk)
<1>0. req \in [Requests -> Request] /\ req[r] \in Request
  BY DEF Typed, TypeOK
<1>1. Pending(r) /\ req[r].pc = "over"
  <2>1. Pending(r)
    BY DEF Pending, RunsInsertTask, RunsInsertChunk, RunsPurgeChunks, RunsPurgeTask
  <2> QED
    BY <2>1 DEF Typed, Holding
<1>2. \/ req' = [req EXCEPT ![r].insertTask = FALSE]
      \/ req' = [req EXCEPT ![r].insertChunk = FALSE, ![r].chunk = Nothing]
      \/ req' = [req EXCEPT ![r].purge = "task"]
      \/ req' = [req EXCEPT ![r].purge = "none"]
  BY DEF RunsInsertTask, RunsInsertChunk, RunsPurgeChunks, RunsPurgeTask
<1>3. /\ req' \in [Requests -> Request]
      /\ \A x \in Requests : x # r => req'[x] = req[x]
      /\ req'[r].pc = req[r].pc /\ req'[r].state = req[r].state
      /\ req'[r].ino = req[r].ino /\ req'[r].session = req[r].session
      /\ req'[r].lost = req[r].lost
      /\ req'[r].insertChunk => req[r].insertChunk
      /\ req'[r].chunk = req[r].chunk \/ ~req'[r].insertChunk
  <2>1. CASE req' = [req EXCEPT ![r].insertTask = FALSE]
    BY <1>0, <2>1 DEF Request
  <2>2. CASE req' = [req EXCEPT ![r].insertChunk = FALSE, ![r].chunk = Nothing]
    BY <1>0, <2>2 DEF Request
  <2>3. CASE req' = [req EXCEPT ![r].purge = "task"] \/ req' = [req EXCEPT ![r].purge = "none"]
    BY <1>0, <2>3 DEF Request
  <2> QED
    BY <1>2, <2>1, <2>2, <2>3
<1>4. /\ UNCHANGED <<clientVars, trackerVars, disk, uploads, env>>
      /\ taskRow' \in BOOLEAN /\ chunkRows' \subseteq Chunks
  BY DEF RunsInsertTask, RunsInsertChunk, RunsPurgeChunks, RunsPurgeTask, Typed, TypeOK, Holding
<1>5. TypeOK'
  <2>1. \A x \in Requests : req'[x].pc \in {"write", "mark"} => req'[x].ino # Nothing
    BY <1>3 DEF Typed, TypeOK
  <2> QED
    BY <1>3, <1>4, <2>1 DEF Typed, TypeOK, clientVars, trackerVars, disk, uploads, env
<1>6. Holding'
  <2>1. /\ Holding /\ UNCHANGED <<up, reads, starts>>
        /\ starts \subseteq [by: Requests, state: Requests, session: 0 .. MaxSessions]
    BY <1>4 DEF Typed, TypeOK, uploads
  <2>2. \A x \in Requests : req'[x].pc = req[x].pc /\ req'[x].state = req[x].state
    BY <1>3
  <2>3. \A x \in Requests : req'[x].pc \in {"sent"} \cup Active \/ req'[x].insertChunk =>
                           req'[x].chunk \in Chunks
    BY <1>1, <1>3, <2>1 DEF Holding, Active
  <2>4. \A x \in Requests : req'[x].pc \notin {"over"} => ~Pending(x)'
    BY <1>1, <1>3, <2>1 DEF Holding, Pending
  <2> QED
    BY <2>1, <2>2, <2>3, <2>4 DEF Holding
<1> QED
  BY <1>1, <1>3, <1>5, <1>6 DEF Typed

LEMMA UploadTyped ==
  ASSUME Typed, NEW r \in Requests, UploadStep(r) \/ UploadFails(r)
  PROVE  Typed'
<1>1. UNCHANGED <<clientVars, req, trackerVars, bytes, rows, starts, cancelPc>>
  BY DEF UploadStep, UploadFails, UploadOpens, UploadStores, UploadMissesFile, UploadRemoves, Ends,
         disk, env
<1>2. /\ temp' \in Requests \cup {Nothing} /\ seen' \subseteq AllEvents
      /\ task' \in {"absent", "running", "done", "error", "cancelled"} /\ timers' \in Nat
  <2>1. UNCHANGED seen \/ Happens("fail")
    BY DEF UploadStep, UploadFails, UploadOpens, UploadStores, UploadMissesFile, UploadRemoves, Ends, env
  <2>2. temp' \in {temp, Nothing}
    BY DEF UploadStep, UploadFails, UploadOpens, UploadStores, UploadMissesFile, UploadRemoves, Ends, disk
  <2>3. task' \in {task, "running", "done", "error"} /\ timers' \in {timers, timers + 1}
    BY DEF UploadStep, UploadFails, UploadOpens, UploadStores, UploadMissesFile, UploadRemoves, Ends,
           Progress, Reports
  <2> QED
    BY <2>1, <2>2, <2>3, SeenTyped DEF Typed, TypeOK
<1>3. up[r] \notin {"none", "ended"}
  BY DEF UploadStep, UploadFails, UploadOpens, UploadStores, UploadMissesFile, UploadRemoves, Ends
<1>4. /\ up' \in [Requests -> {"none", "queued", "open", "removing", "ended"}]
      /\ reads' \in [Requests -> Requests \cup {Nothing}]
      /\ \A x \in Requests : x # r => up'[x] = up[x] /\ reads'[x] = reads[x]
      /\ up'[r] # "none" /\ (up'[r] = "open" => reads'[r] \in Requests)
  <2>1. CASE UploadOpens(r)
    BY <2>1 DEF UploadOpens, Typed, TypeOK
  <2>2. CASE ~UploadOpens(r)
    BY <2>2 DEF UploadStep, UploadFails, UploadStores, UploadMissesFile, UploadRemoves, Ends,
         Typed, TypeOK
  <2> QED
    BY <2>1, <2>2
<1>5. stored' \subseteq [by: Requests, content: SUBSET Chunks]
  <2>1. CASE UploadStores(r)
    <3>1. reads[r] \in Requests
      BY <2>1 DEF UploadStores, Typed, Holding
    <3> QED
      BY <2>1, <3>1 DEF UploadStores, Typed, TypeOK
  <2>2. CASE ~UploadStores(r)
    BY <2>2 DEF UploadStep, UploadFails, UploadOpens, UploadMissesFile, UploadRemoves, Ends,
         Typed, TypeOK
  <2> QED
    BY <2>1, <2>2
<1>6. TypeOK'
  BY <1>1, <1>2, <1>4, <1>5 DEF Typed, TypeOK, clientVars, trackerVars, rows
<1>7. Holding'
  <2>1. /\ Holding /\ UNCHANGED <<req, starts>>
        /\ starts \subseteq [by: Requests, state: Requests, session: 0 .. MaxSessions]
    BY <1>1 DEF Typed, TypeOK
  <2>2. \A x \in Requests : up'[x] = "none" <=> up[x] = "none"
    BY <1>3, <1>4
  <2>3. \A x \in Requests : up'[x] = "open" => reads'[x] \in Requests
    BY <1>4, <2>1 DEF Holding
  <2> QED
    BY <2>1, <2>2, <2>3 DEF Holding, Pending
<1> QED
  BY <1>6, <1>7 DEF Typed

LEMMA CancelTyped ==
  ASSUME Typed, CancelStep \/ Expire \/ Forget
  PROVE  Typed'
<1>1. UNCHANGED <<clientVars, req, received, started, created, bytes, up, reads, stored, starts>>
  BY DEF CancelStep, Expire, Forget, clientVars, trackerVars, disk, rows, uploads
<1>2. TypeOK'
  <2>1. timers' \in Nat
    BY DEF CancelStep, Expire, Forget, Reports, uploads, Typed, TypeOK
  <2>2. seen' \subseteq AllEvents
    BY SeenTyped DEF CancelStep, Expire, Forget, Typed, TypeOK
  <2>3. /\ temp' \in {temp, Nothing} /\ tracker' \in {tracker, Nothing}
        /\ taskRow' \in {taskRow, FALSE} /\ chunkRows' \in {chunkRows, {}}
        /\ task' \in {task, "cancelled", "absent"}
        /\ cancelPc' \in {cancelPc, "idle", "tracker", "chunks", "task"}
    BY DEF CancelStep, Expire, Forget, Reports, trackerVars, disk, rows, uploads
  <2>4. /\ temp' \in Requests \cup {Nothing} /\ tracker' \in Requests \cup {Nothing}
        /\ taskRow' \in BOOLEAN /\ chunkRows' \subseteq Chunks
        /\ task' \in {"absent", "running", "done", "error", "cancelled"}
        /\ cancelPc' \in {"idle", "files", "tracker", "chunks", "task"}
    BY <2>3 DEF Typed, TypeOK
  <2> QED
    BY <1>1, <2>1, <2>2, <2>4 DEF clientVars, Typed, TypeOK
<1>3. Holding'
  BY <1>1 DEF Typed, Holding, Pending
<1> QED
  BY <1>2, <1>3 DEF Typed

\* What a crash leaves of the requests.
LEMMA CrashLeaves ==
  ASSUME Typed, Crash
  PROVE  /\ req' \in [Requests -> Request]
         /\ \A x \in Requests :
              \/ req[x].pc = "free" /\ req'[x] = req[x]
              \/ req[x].pc # "free" /\ req'[x].pc = "over" /\ ~req'[x].insertChunk /\ req'[x].session = 0
<1> DEFINE q == [FreeRequest EXCEPT !.pc = "over"]
<1>1. q \in Request /\ q.pc = "over" /\ ~q.insertChunk /\ q.session = 0
  <2>1. 0 \in 0 .. MaxSessions
    BY ConstantsOK
  <2> QED
    BY <2>1 DEF FreeRequest, Request
<1>2. req' = [x \in Requests |-> IF req[x].pc = "free" THEN req[x] ELSE q]
  BY DEF Crash
<1>3. req \in [Requests -> Request]
  BY DEF Typed, TypeOK
<1> HIDE DEF q
<1> QED
  BY <1>1, <1>2, <1>3

LEMMA CrashTyped ==
  ASSUME Typed, Crash
  PROVE  Typed'
<1>1. /\ req' \in [Requests -> Request]
      /\ \A x \in Requests :
           \/ req[x].pc = "free" /\ req'[x] = req[x]
           \/ req[x].pc # "free" /\ req'[x].pc = "over" /\ ~req'[x].insertChunk
  BY CrashLeaves
<1>2. /\ tracker' = Nothing /\ reads' = [x \in Requests |-> Nothing]
      /\ received' = [x \in Requests |-> {}]
      /\ started' = [x \in Requests |-> FALSE] /\ created' = [x \in Requests |-> FALSE]
      /\ up' = [x \in Requests |-> IF up[x] = "none" THEN "none" ELSE "ended"]
      /\ task' = "absent" /\ timers' = 0 /\ cancelPc' = "idle" /\ UNCHANGED <<session, disk, rows, stored, starts>>
      /\ client' \in {client, "failed"}
  BY DEF Crash
<1>3. todo' \subseteq Chunks /\ seen' \subseteq AllEvents
  <2>1. \A x \in InFlight : req[x].chunk \in Chunks
    <3>1. \A x \in InFlight : x \in Requests /\ req[x].pc \notin {"free", "over"} /\ req[x] \in Request
      BY DEF InFlight, Busy, Typed, TypeOK
    <3>2. \A x \in InFlight : req[x].pc \in {"sent"} \cup Active
      BY <3>1 DEF Active, Request
    <3> QED
      BY <3>1, <3>2 DEF Typed, Holding
  <2>2. todo \subseteq Chunks /\ seen \subseteq AllEvents
    BY DEF Typed, TypeOK
  <2>3. todo' = (IF client' = "sending" THEN todo \cup {req[r].chunk : r \in InFlight} ELSE {})
    BY DEF Crash
  <2>4. seen' \subseteq AllEvents
    BY SeenTyped DEF Crash
  <2> QED
    BY <2>1, <2>2, <2>3, <2>4
<1>4. TypeOK'
  <2>1. \A x \in Requests : req'[x].pc \in {"write", "mark"} => req'[x].ino # Nothing
    BY <1>1
  <2>2. received' \in [Requests -> SUBSET Chunks] /\ reads' \in [Requests -> Requests \cup {Nothing}]
    BY <1>2
  <2> QED
    BY <1>1, <1>2, <1>3, <2>1, <2>2 DEF Typed, TypeOK, disk, rows
<1>5. Holding'
  <2>1. /\ Holding /\ UNCHANGED starts
        /\ starts \subseteq [by: Requests, state: Requests, session: 0 .. MaxSessions]
    BY <1>2 DEF Typed, TypeOK
  <2>2. \A x \in Requests : up'[x] # "open" /\ (up'[x] = "none" <=> up[x] = "none")
    BY <1>2
  <2>3. \A x \in Requests : req'[x].pc = "over" \/ (req[x].pc = "free" /\ req'[x] = req[x])
    BY <1>1
  <2>4. \A x \in Requests : req'[x].pc \notin Active \cup {"sent"}
    BY <1>1 DEF Active
  <2>5. \A x \in Requests : ~req'[x].insertChunk
    BY <1>1, <2>1 DEF Holding, Pending
  <2> QED
    BY <2>1, <2>2, <2>3, <2>4, <2>5 DEF Holding, Pending
<1> QED
  BY <1>4, <1>5 DEF Typed

LEMMA NextTyped == Typed /\ [Next]_vars => Typed'
<1> SUFFICES ASSUME Typed, [Next]_vars PROVE Typed'
  OBVIOUS
<1>1. CASE UNCHANGED vars
  BY <1>1 DEF Typed, TypeOK, Holding, Pending, vars, clientVars, trackerVars, disk, rows, uploads, env
<1>2. CASE StartSession \/ AllSent \/ Poll \/ GivesUp \/ Leave \/ Cancel \/ Forget \/ CancelStep \/ Expire \/ Crash
  BY <1>2, ClientTyped, CancelTyped, CrashTyped
<1>3. CASE SendAny \/ \E r \in Requests : LoseAnswer(r)
  BY <1>3, SendTyped DEF SendAny
<1>4. CASE \E r \in Requests : UploadStep(r) \/ UploadFails(r)
  BY <1>4, UploadTyped
<1>5. CASE \E r \in Requests : RequestStep(r)
  BY <1>5, EnterTyped, WriteTyped, MarkTyped, GoroutineTyped DEF RequestStep
<1> QED
  BY <1>1, <1>2, <1>3, <1>4, <1>5 DEF Next

-----------------------------------------------------------------------------
(* What a step does to the requests *)

\* The fields that the steps of handlePostUpload before Mark leave as they are.
SameRequest(r) ==
  /\ req'[r].chunk = req[r].chunk /\ req'[r].session = req[r].session
  /\ req'[r].lost = req[r].lost /\ req'[r].insertChunk = req[r].insertChunk
Others(r) == \A x \in Requests : x # r => req'[x] = req[x]

LEMMA Moves ==
  ASSUME Typed, NEW r \in Requests
  PROVE  /\ Enter(r) => /\ Others(r) /\ SameRequest(r) /\ req[r].pc = "sent"
                        /\ \/ /\ tracker = Nothing /\ tracker' = r
                              /\ req'[r].pc = "load" /\ req'[r].state = r
                           \/ /\ tracker # Nothing /\ tracker' = tracker
                              /\ req'[r].pc = "open" /\ req'[r].state = tracker
         /\ Load(r) => /\ Others(r) /\ SameRequest(r) /\ req'[r].state = req[r].state
                       /\ req[r].pc = "load" /\ req'[r].pc = "open"
         /\ Open(r) => /\ Others(r) /\ SameRequest(r) /\ req'[r].state = req[r].state
                       /\ req[r].pc = "open" /\ req'[r].pc = "write" /\ req'[r].ino = temp'
         /\ Write(r) => /\ Others(r) /\ SameRequest(r) /\ req'[r].state = req[r].state
                        /\ req[r].pc = "write" /\ req'[r].pc = "mark" /\ req'[r].ino = req[r].ino
<1>0. req \in [Requests -> Request] /\ req[r] \in Request
  BY DEF Typed, TypeOK
<1>1. ASSUME Enter(r)
      PROVE  /\ Others(r) /\ SameRequest(r) /\ req[r].pc = "sent"
             /\ \/ /\ tracker = Nothing /\ tracker' = r
                   /\ req'[r].pc = "load" /\ req'[r].state = r
                \/ /\ tracker # Nothing /\ tracker' = tracker
                   /\ req'[r].pc = "open" /\ req'[r].state = tracker
  <2>1. CASE tracker = Nothing
    <3>1. /\ req' = [req EXCEPT ![r].pc = "load", ![r].state = r]
          /\ req[r].pc = "sent" /\ tracker' = r
      BY <1>1, <2>1 DEF Enter
    <3>2. req'[r] = [req[r] EXCEPT !.pc = "load", !.state = r] /\ Others(r)
      BY <1>0, <3>1 DEF Others, Request
    <3> QED
      BY <1>0, <2>1, <3>1, <3>2 DEF SameRequest, Request
  <2>2. CASE tracker # Nothing
    <3>1. /\ req' = [req EXCEPT ![r].pc = "open", ![r].state = tracker]
          /\ req[r].pc = "sent" /\ tracker' = tracker
      BY <1>1, <2>2 DEF Enter
    <3>2. req'[r] = [req[r] EXCEPT !.pc = "open", !.state = tracker] /\ Others(r)
      BY <1>0, <3>1 DEF Others, Request
    <3> QED
      BY <1>0, <2>2, <3>1, <3>2 DEF SameRequest, Request
  <2> QED
    BY <2>1, <2>2
<1>2. ASSUME NEW to \in {"open", "mark"}, Move(r, to)
      PROVE  /\ Others(r) /\ SameRequest(r) /\ req'[r].state = req[r].state
             /\ req'[r].pc = to /\ req'[r].ino = req[r].ino
  <2>1. req'[r] = [req[r] EXCEPT !.pc = to] /\ Others(r)
    BY <1>0, <1>2 DEF Move, Others
  <2> QED
    BY <1>0, <2>1 DEF SameRequest, Request
<1>3. ASSUME Open(r)
      PROVE  /\ Others(r) /\ SameRequest(r) /\ req'[r].state = req[r].state
             /\ req[r].pc = "open" /\ req'[r].pc = "write" /\ req'[r].ino = temp'
  <2>1. req[r].pc = "open" /\ req' = [req EXCEPT ![r].pc = "write", ![r].ino = temp']
    BY <1>3 DEF Open
  <2>2. req'[r] = [req[r] EXCEPT !.pc = "write", !.ino = temp'] /\ Others(r)
    BY <1>0, <2>1 DEF Others, Request
  <2> QED
    BY <1>0, <2>1, <2>2 DEF SameRequest, Request
<1>4. Load(r) => Move(r, "open") /\ req[r].pc = "load"
  BY DEF Load
<1>5. Write(r) => Move(r, "mark") /\ req[r].pc = "write"
  BY DEF Write
<1> QED
  BY <1>1, <1>2, <1>3, <1>4, <1>5

LEMMA SendMoves ==
  ASSUME Typed, NEW r \in Requests
  PROVE  /\ \A c \in Chunks : Send(r, c) =>
              /\ Others(r) /\ req[r].pc = "free" /\ req'[r].pc = "sent"
              /\ req'[r].chunk = c /\ req'[r].session = session
              /\ req'[r].lost = req[r].lost /\ req'[r].insertChunk = req[r].insertChunk
         /\ LoseAnswer(r) =>
              /\ Others(r) /\ req'[r].pc = req[r].pc /\ req'[r].chunk = req[r].chunk
              /\ req'[r].state = req[r].state /\ req'[r].ino = req[r].ino
              /\ req'[r].insertChunk = req[r].insertChunk
<1>0. req \in [Requests -> Request] /\ req[r] \in Request
  BY DEF Typed, TypeOK
<1>1. ASSUME NEW c \in Chunks, Send(r, c)
      PROVE  /\ Others(r) /\ req[r].pc = "free" /\ req'[r].pc = "sent"
             /\ req'[r].chunk = c /\ req'[r].session = session
             /\ req'[r].lost = req[r].lost /\ req'[r].insertChunk = req[r].insertChunk
  <2>1. req[r].pc = "free"
        /\ req' = [req EXCEPT ![r].pc = "sent", ![r].chunk = c, ![r].session = session]
    BY <1>1 DEF Send
  <2>2. Others(r) /\ req'[r] = [req[r] EXCEPT !.pc = "sent", !.chunk = c, !.session = session]
    BY <1>0, <2>1 DEF Others, Request
  <2> QED
    BY <1>0, <2>1, <2>2 DEF Request
<1>2. ASSUME LoseAnswer(r)
      PROVE  /\ Others(r) /\ req'[r].pc = req[r].pc /\ req'[r].chunk = req[r].chunk
             /\ req'[r].state = req[r].state /\ req'[r].ino = req[r].ino
             /\ req'[r].insertChunk = req[r].insertChunk
  <2>1. req' = [req EXCEPT ![r].lost = TRUE]
    BY <1>2 DEF LoseAnswer
  <2> QED
    BY <1>0, <2>1 DEF Request, Others
<1> QED
  BY <1>1, <1>2

\* The steps of requests other than Enter and Mark, as far as states and places go.
OldPlaces ==
  \A x \in Requests : /\ Known(x) => Known(x)'
                      /\ req'[x].pc \in Active => req[x].pc \in Active /\ req'[x].state = req[x].state

LEMMA PlacesKept ==
  ASSUME Typed, [Next]_vars, ~(\E r \in Requests : Enter(r) \/ Mark(r))
  PROVE  /\ OldPlaces /\ starts' = starts /\ tracker' \in {tracker, Nothing}
         /\ started' = started \/ \A x \in Requests : req'[x].pc \notin Active
<1> DEFINE P == /\ OldPlaces /\ starts' = starts /\ tracker' \in {tracker, Nothing}
                /\ started' = started \/ \A x \in Requests : req'[x].pc \notin Active
<1>1. ASSUME UNCHANGED <<req, starts, started>>, tracker' \in {tracker, Nothing}
      PROVE  P
  BY <1>1 DEF OldPlaces, Known
<1>2. CASE UNCHANGED vars \/ StartSession \/ AllSent \/ Poll \/ GivesUp \/ Leave \/ Cancel \/ CancelStep \/ Forget \/ Expire
  <2>1. UNCHANGED <<req, starts, started>> /\ tracker' \in {tracker, Nothing}
    BY <1>2 DEF vars, StartSession, AllSent, Poll, GivesUp, Leave, Cancel, CancelStep, Forget, Expire,
                trackerVars, uploads
  <2> QED
    BY <1>1, <2>1
<1>3. CASE Crash
  <2>1. tracker' = Nothing /\ starts' = starts
    BY <1>3 DEF Crash
  <2>2. \A x \in Requests : /\ req'[x].pc \in {"free", "over"}
                            /\ req[x].pc # "free" => req'[x].pc = "over"
    BY <1>3, CrashLeaves
  <2> QED
    BY <2>1, <2>2 DEF OldPlaces, Known, Active
<1>4. ASSUME NEW r \in Requests, UploadStep(r) \/ UploadFails(r) PROVE P
  <2>1. UNCHANGED <<req, starts, started, tracker>>
    BY <1>4 DEF UploadStep, UploadFails, UploadOpens, UploadStores, UploadMissesFile, UploadRemoves,
                Ends, trackerVars
  <2> QED
    BY <1>1, <2>1
<1>5. ASSUME NEW r \in Requests, (\E c \in Chunks : Send(r, c)) \/ LoseAnswer(r) PROVE P
  <2>1. UNCHANGED <<starts, started, tracker>>
    BY <1>5 DEF Send, LoseAnswer, trackerVars, uploads
  <2>2. OldPlaces
    BY <1>5, SendMoves DEF OldPlaces, Known, Active, Others
  <2> QED
    BY <2>1, <2>2
<1>6. ASSUME NEW r \in Requests, Load(r) \/ Open(r) \/ Write(r) PROVE P
  <2>1. UNCHANGED <<starts, started, tracker>>
    BY <1>6 DEF Load, Open, Write, trackerVars, uploads
  <2>2. OldPlaces
    BY <1>6, Moves DEF OldPlaces, Known, Active, Others
  <2> QED
    BY <2>1, <2>2
<1>7. ASSUME NEW r \in Requests,
             RunsInsertTask(r) \/ RunsInsertChunk(r) \/ RunsPurgeChunks(r) \/ RunsPurgeTask(r)
      PROVE  P
  <2>1. UNCHANGED <<starts, started, tracker>>
    BY <1>7 DEF RunsInsertTask, RunsInsertChunk, RunsPurgeChunks, RunsPurgeTask, trackerVars, uploads
  <2>2. OldPlaces
    BY <1>7, GoroutineTyped DEF OldPlaces, Known
  <2> QED
    BY <2>1, <2>2
<1> QED
  BY <1>2, <1>3, <1>4, <1>5, <1>6, <1>7 DEF Next, SendAny, RequestStep

-----------------------------------------------------------------------------
(* One upload per chunkState *)

KnownNext(s) == req'[s].pc \notin {"free", "sent"}

LEMMA OnceEnter ==
  ASSUME Typed, StatesUsed, NEW r \in Requests, Enter(r)
  PROVE  StatesUsed' /\ UNCHANGED starts
<1>1. UNCHANGED <<starts, started>>
  BY DEF Enter, uploads
<1>2. /\ Others(r) /\ req[r].pc = "sent"
      /\ \/ /\ tracker = Nothing /\ tracker' = r
            /\ req'[r].pc = "load" /\ req'[r].state = r
         \/ /\ tracker # Nothing /\ tracker' = tracker
            /\ req'[r].pc = "open" /\ req'[r].state = tracker
  BY Moves
<1>3. KnownNext(r) /\ ~Known(r) /\ \A x \in Requests : Known(x) => KnownNext(x)
  BY <1>2 DEF Known, KnownNext, Others
<1>4. tracker' # Nothing => KnownNext(tracker')
  BY <1>2, <1>3 DEF StatesUsed, Typed, TypeOK
<1>5. \A x \in Requests : req'[x].pc \in Active => KnownNext(req'[x].state)
  <2>1. \A x \in Requests : req[x].pc \in Active => req[x].state \in Requests
    BY DEF Typed, Holding
  <2>2. tracker # Nothing => tracker \in Requests
    BY DEF Typed, TypeOK
  <2> QED
    BY <1>2, <1>3, <2>1, <2>2 DEF StatesUsed, Others
<1>6. \A y \in starts : y.state \in Requests /\ KnownNext(y.state) /\ tracker' # y.state /\ req'[r].state # y.state
  BY <1>2, <1>3 DEF StatesUsed, Typed, TypeOK
<1>7. \A y \in starts : \A x \in Requests :
        req'[x].pc \in Active /\ req'[x].state = y.state => started[y.state]
  BY <1>2, <1>6 DEF StatesUsed, Others
<1> QED
  BY <1>1, <1>4, <1>5, <1>6, <1>7 DEF StatesUsed, Known, KnownNext

LEMMA OnceMark ==
  ASSUME Typed, StatesUsed, OncePerState, NEW r \in Requests, Mark(r)
  PROVE  StatesUsed' /\ OncePerState'
<1> DEFINE s == req[r].state
           new == [by |-> r, state |-> s, session |-> req[r].session]
<1>1. /\ req[r].pc = "mark" /\ s \in Requests
      /\ req'[r].pc = "over"
      /\ \A x \in Requests : x # r => req'[x] = req[x]
  BY MarkLeaves
<1>2. \A x \in Requests : /\ Known(x) => KnownNext(x)
                          /\ req'[x].pc \in Active =>
                               req[x].pc \in Active /\ req'[x].state = req[x].state
  BY <1>1 DEF Known, KnownNext, Active
<1>3. \/ UNCHANGED <<started, tracker, starts>>
      \/ /\ ~started[s] /\ started' = [started EXCEPT ![s] = TRUE]
         /\ tracker' = Nothing /\ starts' = starts \cup {new}
  BY DEF Mark, Completes
<1>4. Known(s)
  BY <1>1 DEF StatesUsed, Active
<1>5. \A y \in starts : y.state \in Requests
  BY DEF Typed, TypeOK
<1>6. tracker' # Nothing => KnownNext(tracker')
  BY <1>2, <1>3 DEF StatesUsed, Typed, TypeOK
<1>7. \A x \in Requests : req'[x].pc \in Active => KnownNext(req'[x].state)
  BY <1>2 DEF StatesUsed, Typed, Holding
<1>8. CASE UNCHANGED <<started, tracker, starts>>
  <2>1. StatesUsed'
    BY <1>2, <1>5, <1>6, <1>7, <1>8 DEF StatesUsed, Known, KnownNext
  <2> QED
    BY <1>8, <2>1 DEF OncePerState
<1>9. CASE /\ ~started[s] /\ started' = [started EXCEPT ![s] = TRUE]
           /\ tracker' = Nothing /\ starts' = starts \cup {new}
  <2>1. \A y \in starts : y.state # s
    BY <1>1, <1>9 DEF StatesUsed, Active
  <2>2. started \in [Requests -> BOOLEAN]
    BY DEF Typed, TypeOK
  <2>3. new.state = s
    OBVIOUS
  <2> HIDE DEF new
  <2>4. OncePerState'
    BY <1>9, <2>1, <2>3 DEF OncePerState
  <2>5. \A y \in starts' : /\ KnownNext(y.state) /\ tracker' # y.state
    <3>1. tracker' \notin Requests
      BY <1>9, ConstantsOK
    <3> QED
      BY <1>1, <1>2, <1>4, <1>5, <1>9, <2>3, <3>1 DEF StatesUsed
  <2>6. \A y \in starts' : \A x \in Requests :
          req'[x].pc \in Active /\ req'[x].state = y.state => started'[y.state]
    BY <1>1, <1>2, <1>5, <1>9, <2>2, <2>3 DEF StatesUsed
  <2> QED
    BY <1>6, <1>7, <2>4, <2>5, <2>6 DEF StatesUsed, Known, KnownNext
<1> QED
  BY <1>3, <1>8, <1>9

LEMMA NextOnce ==
  Typed /\ StatesUsed /\ OncePerState /\ [Next]_vars => StatesUsed' /\ OncePerState'
<1> SUFFICES ASSUME Typed, StatesUsed, OncePerState, [Next]_vars
             PROVE  StatesUsed' /\ OncePerState'
  OBVIOUS
<1>1. CASE \E r \in Requests : Enter(r) \/ Mark(r)
  BY <1>1, OnceEnter, OnceMark DEF OncePerState
<1>2. CASE ~(\E r \in Requests : Enter(r) \/ Mark(r))
  <2>1. /\ OldPlaces /\ starts' = starts /\ tracker' \in {tracker, Nothing}
        /\ started' = started \/ \A x \in Requests : req'[x].pc \notin Active
    BY <1>2, PlacesKept
  <2>2. /\ \A y \in starts : y.state \in Requests
        /\ tracker # Nothing => tracker \in Requests
        /\ \A x \in Requests : req[x].pc \in Active => req[x].state \in Requests
        /\ Nothing \notin Requests
    BY ConstantsOK DEF Typed, TypeOK, Holding
  <2>3. StatesUsed'
    BY <2>1, <2>2 DEF StatesUsed, OldPlaces, Known
  <2> QED
    BY <2>1, <2>3 DEF OncePerState
<1> QED
  BY <1>1, <1>2

-----------------------------------------------------------------------------
(* The first upload is whole *)

LEMMA SeenGrows == ASSUME [Next]_vars PROVE seen \subseteq seen'
<1>1. UNCHANGED seen \/ \E e \in AllEvents : seen' = seen \cup {e}
  <2>1. CASE UNCHANGED vars \/ StartSession \/ AllSent \/ Poll \/ GivesUp \/ Leave \/ Cancel \/ CancelStep
             \/ Forget \/ Expire \/ Crash
    BY <2>1 DEF vars, env, StartSession, AllSent, Poll, GivesUp, Leave, Cancel, Forget, CancelStep, Expire, Crash,
                Happens, AllEvents
  <2>2. CASE \E r \in Requests : (\E c \in Chunks : Send(r, c)) \/ LoseAnswer(r) \/ RequestStep(r)
    BY <2>2 DEF env, Send, LoseAnswer, Happens, AllEvents, RequestStep, Enter, Load, Open, Write,
                Mark, RunsInsertTask, RunsInsertChunk, RunsPurgeChunks, RunsPurgeTask
  <2>3. CASE \E r \in Requests : UploadStep(r) \/ UploadFails(r)
    BY <2>3 DEF env, UploadStep, UploadFails, UploadOpens, UploadStores, UploadMissesFile,
                UploadRemoves, Happens, AllEvents
  <2> QED
    BY <2>1, <2>2, <2>3 DEF Next, SendAny
<1> QED
  BY <1>1

Alone(S) == \A x, y \in S : x = y

\* Nothing that counts as received is new, and the file is not touched.
LEMMA FirstFrame ==
  ASSUME Typed, FirstInv, Plain,
         UNCHANGED <<temp, bytes, up, reads, stored, starts>>,
         \A c \in chunkRows' : c \in chunkRows \/ \E x \in Requests : req[x].insertChunk /\ req[x].chunk = c,
         \A s \in Requests : \A c \in received'[s] : c \in received[s] \/ c \in chunkRows,
         \A x \in Requests : /\ req'[x].insertChunk => req[x].insertChunk /\ req'[x].chunk = req[x].chunk
                             /\ req'[x].pc \in {"write", "mark"} =>
                                  /\ req'[x].pc = req[x].pc /\ req'[x].ino = req[x].ino
                                  /\ req'[x].chunk = req[x].chunk
  PROVE  FirstInv'
<1>1. starts = {} => BeforeStart'
  <2> SUFFICES ASSUME starts = {} PROVE BeforeStart'
    OBVIOUS
  <2>1. BeforeStart
    BY DEF FirstInv
  <2> QED
    BY <2>1 DEF BeforeStart, InTemp
<1>2. Alone(starts) => OnlyOne'
  <2> SUFFICES ASSUME Alone(starts) PROVE OnlyOne'
    OBVIOUS
  <2>1. OnlyOne
    BY DEF FirstInv, Alone
  <2> QED
    BY <2>1 DEF OnlyOne, StoredWhole
<1> QED
  BY <1>1, <1>2 DEF FirstInv, Alone

LEMMA FirstClient ==
  ASSUME Typed, FirstInv, Plain,
         UNCHANGED vars \/ StartSession \/ AllSent \/ Poll \/ GivesUp \/ Leave \/ Cancel \/ Forget
  PROVE  FirstInv'
<1>1. UNCHANGED <<req, received, chunkRows, temp, bytes, up, reads, stored, starts>>
  BY DEF vars, StartSession, AllSent, Poll, GivesUp, Leave, Cancel, Forget, trackerVars, disk, rows,
         uploads
<1> QED
  BY <1>1, FirstFrame

LEMMA FirstSend ==
  ASSUME Typed, FirstInv, Plain, NEW r \in Requests, (\E c \in Chunks : Send(r, c)) \/ LoseAnswer(r)
  PROVE  FirstInv'
<1>1. UNCHANGED <<received, chunkRows, temp, bytes, up, reads, stored, starts>>
  BY DEF Send, LoseAnswer, trackerVars, disk, rows, uploads
<1>2. req[r].pc = "free" => ~req[r].insertChunk
  BY DEF Typed, Holding, Pending
<1>3. \A x \in Requests : /\ req'[x].insertChunk => req[x].insertChunk /\ req'[x].chunk = req[x].chunk
                          /\ req'[x].pc \in {"write", "mark"} =>
                               /\ req'[x].pc = req[x].pc /\ req'[x].ino = req[x].ino
                               /\ req'[x].chunk = req[x].chunk
  BY <1>2, SendMoves DEF Others
<1> QED
  BY <1>1, <1>3, FirstFrame

LEMMA FirstEnter ==
  ASSUME Typed, FirstInv, Plain, NEW r \in Requests, Enter(r) \/ Load(r)
  PROVE  FirstInv'
<1>1. UNCHANGED <<chunkRows, temp, bytes, up, reads, stored, starts>>
  BY DEF Enter, Load, disk, rows, uploads
<1>2. \A x \in Requests : /\ req'[x].insertChunk => req[x].insertChunk /\ req'[x].chunk = req[x].chunk
                          /\ req'[x].pc \in {"write", "mark"} =>
                               /\ req'[x].pc = req[x].pc /\ req'[x].ino = req[x].ino
                               /\ req'[x].chunk = req[x].chunk
  BY Moves DEF Others, SameRequest
<1>3. \A s \in Requests : \A c \in received'[s] : c \in received[s] \/ c \in chunkRows
  <2>1. CASE Enter(r)
    BY <2>1 DEF Enter
  <2>2. CASE Load(r)
    <3>1. received' = [received EXCEPT ![req[r].state] = @ \cup chunkRows]
      BY <2>2 DEF Load, LoadRows
    <3>2. received \in [Requests -> SUBSET Chunks]
      BY DEF Typed, TypeOK
    <3> QED
      BY <3>1, <3>2
  <2> QED
    BY <2>1, <2>2
<1> QED
  BY <1>1, <1>2, <1>3, FirstFrame

LEMMA FirstGoroutine ==
  ASSUME Typed, FirstInv, Plain, NEW r \in Requests,
         RunsInsertTask(r) \/ RunsInsertChunk(r) \/ RunsPurgeChunks(r) \/ RunsPurgeTask(r)
  PROVE  FirstInv'
<1>1. UNCHANGED <<received, temp, bytes, up, reads, stored, starts>>
  BY DEF RunsInsertTask, RunsInsertChunk, RunsPurgeChunks, RunsPurgeTask, trackerVars, disk, uploads
<1>2. \A c \in chunkRows' : c \in chunkRows \/ \E x \in Requests : req[x].insertChunk /\ req[x].chunk = c
  BY DEF RunsInsertTask, RunsInsertChunk, RunsPurgeChunks, RunsPurgeTask
<1>3. \A x \in Requests : /\ req'[x].insertChunk => req[x].insertChunk /\ req'[x].chunk = req[x].chunk
                          /\ req'[x].pc \in {"write", "mark"} =>
                               /\ req'[x].pc = req[x].pc /\ req'[x].ino = req[x].ino
                               /\ req'[x].chunk = req[x].chunk
  BY GoroutineTyped
<1> QED
  BY <1>1, <1>2, <1>3, FirstFrame

InTempNext(c) == temp' # Nothing /\ c \in bytes'[temp']

\* The file is opened, or created when nothing is received yet.
LEMMA FirstOpen ==
  ASSUME Typed, FirstInv, Plain, NEW r \in Requests, Open(r)
  PROVE  FirstInv'
<1>1. UNCHANGED <<received, chunkRows, bytes, up, reads, stored, starts>>
      /\ temp' = IF temp = Nothing THEN r ELSE temp
  BY DEF Open, Created, Keeps, trackerVars, rows, uploads
<1>2. /\ req[r].pc = "open" /\ req'[r].pc = "write" /\ req'[r].ino = temp'
      /\ req'[r].insertChunk = req[r].insertChunk /\ req'[r].chunk = req[r].chunk
      /\ \A x \in Requests : x # r => req'[x] = req[x]
  BY Moves DEF Others, SameRequest
<1>3. ASSUME NEW c, InTemp(c) PROVE InTempNext(c)
  BY <1>1, <1>3 DEF InTemp, InTempNext
<1>4. starts = {} => BeforeStart'
  <2> SUFFICES ASSUME starts = {} PROVE BeforeStart'
    OBVIOUS
  <2>1. BeforeStart
    BY DEF FirstInv
  <2>2. \A x \in Requests : req[x].pc \in {"write", "mark"} => temp # Nothing
    BY <2>1 DEF BeforeStart, Typed, TypeOK
  <2>3. \A x \in Requests : req'[x].pc \in {"write", "mark"} => req'[x].ino = temp'
    BY <1>1, <1>2, <2>1, <2>2 DEF BeforeStart
  <2>4. \A x \in Requests : req'[x].pc = "mark" => InTempNext(req'[x].chunk)
    BY <1>2, <1>3, <2>1 DEF BeforeStart
  <2>5. \A x \in Requests : req'[x].insertChunk => InTempNext(req'[x].chunk)
    BY <1>2, <1>3, <2>1 DEF BeforeStart
  <2>6. /\ \A c \in chunkRows' : InTempNext(c)
        /\ \A s \in Requests : \A c \in received'[s] : InTempNext(c)
    BY <1>1, <1>3, <2>1 DEF BeforeStart
  <2> QED
    BY <1>1, <2>1, <2>3, <2>4, <2>5, <2>6 DEF BeforeStart, InTemp, InTempNext
<1>5. Alone(starts) => OnlyOne'
  <2> SUFFICES ASSUME Alone(starts) PROVE OnlyOne'
    OBVIOUS
  <2>1. OnlyOne
    BY DEF FirstInv, Alone
  <2> QED
    BY <1>1, <2>1 DEF OnlyOne, StoredWhole
<1> QED
  BY <1>1, <1>4, <1>5 DEF FirstInv, Alone

LEMMA FirstWrite ==
  ASSUME Typed, FirstInv, Plain, NEW r \in Requests, Write(r)
  PROVE  FirstInv'
<1>1. UNCHANGED <<received, chunkRows, temp, up, reads, stored, starts>>
      /\ bytes' = [bytes EXCEPT ![req[r].ino] = @ \cup {req[r].chunk}]
  BY DEF Write, trackerVars, rows, uploads
<1>2. /\ req[r].pc = "write" /\ req'[r].pc = "mark" /\ req'[r].ino = req[r].ino
      /\ req'[r].insertChunk = req[r].insertChunk /\ req'[r].chunk = req[r].chunk
      /\ \A x \in Requests : x # r => req'[x] = req[x]
  BY Moves DEF Others, SameRequest
<1>3. /\ bytes \in [Requests -> SUBSET Chunks] /\ bytes' \in [Requests -> SUBSET Chunks]
      /\ temp \in Requests \cup {Nothing} /\ req[r].ino \in Requests
  <2>1. Typed'
    BY WriteTyped
  <2>2. req[r].ino \in Requests
    BY <1>2 DEF Typed, TypeOK, Request
  <2> QED
    BY <2>1, <2>2 DEF Typed, TypeOK
<1>4. \A i \in Requests : bytes[i] \subseteq bytes'[i]
  BY <1>1, <1>3
<1>5. ASSUME NEW c, InTemp(c) PROVE InTempNext(c)
  BY <1>1, <1>3, <1>4, <1>5 DEF InTemp, InTempNext
<1>6. starts = {} => BeforeStart'
  <2> SUFFICES ASSUME starts = {} PROVE BeforeStart'
    OBVIOUS
  <2>1. BeforeStart
    BY DEF FirstInv
  <2>2. req[r].ino = temp
    BY <1>2, <2>1 DEF BeforeStart
  <2>3. InTempNext(req[r].chunk)
    <3>1. temp # Nothing /\ req[r].chunk \in bytes'[temp]
      BY <1>1, <1>3, <2>2, ConstantsOK
    <3> QED
      BY <1>1, <1>2, <3>1 DEF InTemp, InTempNext
  <2>4. \A x \in Requests : req'[x].pc = "mark" => InTempNext(req'[x].chunk)
    BY <1>2, <1>5, <2>1, <2>3 DEF BeforeStart
  <2>5. \A x \in Requests : req'[x].insertChunk => InTempNext(req'[x].chunk)
    BY <1>2, <1>5, <2>1 DEF BeforeStart
  <2>6. /\ \A c \in chunkRows' : InTempNext(c)
        /\ \A s \in Requests : \A c \in received'[s] : InTempNext(c)
    BY <1>1, <1>5, <2>1 DEF BeforeStart
  <2>7. \A x \in Requests : req'[x].pc \in {"write", "mark"} => req'[x].ino = temp'
    BY <1>1, <1>2, <2>1 DEF BeforeStart
  <2> QED
    BY <1>1, <2>1, <2>4, <2>5, <2>6, <2>7 DEF BeforeStart, InTemp, InTempNext
<1>7. Alone(starts) => OnlyOne'
  <2> SUFFICES ASSUME Alone(starts) PROVE OnlyOne'
    OBVIOUS
  <2>1. OnlyOne
    BY DEF FirstInv, Alone
  <2>2. \A i \in Requests : bytes[i] = Chunks => bytes'[i] = Chunks
    BY <1>3, <1>4
  <2>3. \A x \in Requests : up[x] = "open" => reads[x] \in Requests
    BY DEF Typed, Holding
  <2>4. \A x \in Requests : up[x] = "queued" => temp # Nothing /\ bytes'[temp] = Chunks
    BY <1>3, <2>1, <2>2 DEF OnlyOne
  <2>5. \A x \in Requests : up[x] = "open" => bytes'[reads[x]] = Chunks
    BY <2>1, <2>2, <2>3 DEF OnlyOne
  <2> QED
    BY <1>1, <2>1, <2>4, <2>5 DEF OnlyOne, StoredWhole
<1> QED
  BY <1>1, <1>6, <1>7 DEF FirstInv, Alone

LEMMA FirstMark ==
  ASSUME Typed, FirstInv, Plain, NEW r \in Requests, Mark(r)
  PROVE  FirstInv'
<1> DEFINE s == req[r].state
           new == [by |-> r, state |-> s, session |-> req[r].session]
<1>1. /\ req[r].pc = "mark" /\ s \in Requests /\ req[r].chunk \in Chunks
      /\ req'[r].pc = "over" /\ req'[r].chunk = req[r].chunk
      /\ \A x \in Requests : x # r => req'[x] = req[x]
  BY MarkLeaves
<1>2. /\ received' = [received EXCEPT ![s] = Marked(r)]
      /\ UNCHANGED <<temp, bytes, chunkRows, reads, stored>>
  BY DEF Mark, disk, rows
<1>3. /\ received \in [Requests -> SUBSET Chunks] /\ bytes \in [Requests -> SUBSET Chunks]
      /\ up \in [Requests -> {"none", "queued", "open", "removing", "ended"}]
      /\ temp \in Requests \cup {Nothing}
      /\ \A y \in starts : y.by \in Requests /\ req[y.by].pc = "over"
      /\ up[r] = "none"
  BY <1>1 DEF Typed, TypeOK, Holding
<1>4. \/ UNCHANGED <<up, starts>>
      \/ /\ Marked(r) = Chunks /\ up' = [up EXCEPT ![r] = "queued"] /\ starts' = starts \cup {new}
  BY DEF Mark, Completes
<1> HIDE DEF s
<1>5. starts = {} => \A c \in Marked(r) : InTemp(c)
  BY <1>1 DEF FirstInv, BeforeStart, Marked, s
<1>6. CASE UNCHANGED <<up, starts>>
  <2>1. starts = {} => BeforeStart'
    <3> SUFFICES ASSUME starts = {} PROVE BeforeStart'
      OBVIOUS
    <3>1. BeforeStart
      BY DEF FirstInv
    <3>2. \A c : InTemp(c) <=> InTempNext(c)
      BY <1>2 DEF InTemp, InTempNext
    <3>3. \A t \in Requests : \A c \in received'[t] : InTempNext(c)
      BY <1>1, <1>2, <1>3, <1>5, <3>1, <3>2 DEF BeforeStart
    <3>4. \A x \in Requests : req'[x].insertChunk => InTempNext(req'[x].chunk)
      BY <1>1, <3>1, <3>2 DEF BeforeStart
    <3>5. \A x \in Requests : /\ req'[x].pc \in {"write", "mark"} => req'[x].ino = temp'
                              /\ req'[x].pc = "mark" => InTempNext(req'[x].chunk)
      BY <1>1, <1>2, <3>1, <3>2 DEF BeforeStart
    <3>6. \A c \in chunkRows' : InTempNext(c)
      BY <1>2, <3>1, <3>2 DEF BeforeStart
    <3> QED
      BY <1>2, <1>6, <3>1, <3>3, <3>4, <3>5, <3>6 DEF BeforeStart, InTemp, InTempNext
  <2>2. Alone(starts) => OnlyOne'
    BY <1>2, <1>6 DEF FirstInv, Alone, OnlyOne, StoredWhole
  <2> QED
    BY <1>6, <2>1, <2>2 DEF FirstInv, Alone
<1>7. CASE Marked(r) = Chunks /\ up' = [up EXCEPT ![r] = "queued"] /\ starts' = starts \cup {new}
  <2>0. new.by = r
    OBVIOUS
  <2> HIDE DEF new
  <2>1. CASE starts # {}
    <3>1. ~Alone(starts') /\ starts' # {}
      BY <1>1, <1>3, <1>7, <2>0, <2>1 DEF Alone
    <3> QED
      BY <3>1 DEF FirstInv, Alone
  <2>2. CASE starts = {}
    <3>1. BeforeStart
      BY <2>2 DEF FirstInv
    <3>2. temp # Nothing /\ bytes[temp] = Chunks
      <4>1. \A c \in Chunks : temp # Nothing /\ c \in bytes[temp]
        BY <1>5, <1>7, <2>2 DEF InTemp
      <4>2. temp # Nothing
        BY <4>1, ConstantsOK
      <4>3. bytes[temp] \subseteq Chunks
        BY <1>3, <4>2
      <4> QED
        BY <4>1, <4>2, <4>3
    <3>3. \A x \in Requests : x # r => up'[x] = "none"
      BY <1>3, <1>7, <3>1 DEF BeforeStart
    <3>4. up'[r] = "queued"
      BY <1>3, <1>7
    <3>5. \A y \in starts' : y.by = r
      BY <1>7, <2>0, <2>2
    <3>6. OnlyOne'
      BY <1>2, <3>1, <3>2, <3>3, <3>4, <3>5 DEF OnlyOne, StoredWhole, BeforeStart
    <3>7. starts' # {}
      BY <1>7
    <3> QED
      BY <3>6, <3>7 DEF FirstInv
  <2> QED
    BY <2>1, <2>2
<1> QED
  BY <1>4, <1>6, <1>7

\* The upload reads the file it opened, and the file is removed only after that.
LEMMA FirstUpload ==
  ASSUME Typed, FirstInv, Plain, NEW r \in Requests, UploadStep(r) \/ UploadFails(r)
  PROVE  FirstInv'
<1>1. up[r] \in {"queued", "open", "removing"} /\ UNCHANGED <<req, bytes, starts>>
  BY DEF UploadStep, UploadFails, UploadOpens, UploadStores, UploadMissesFile, UploadRemoves, Ends, disk
<1>2. starts # {}
  BY <1>1 DEF FirstInv, BeforeStart
<1>3. ASSUME Alone(starts) PROVE OnlyOne'
  <2>1. OnlyOne /\ \A x \in Requests : x # r => up[x] = "none"
    <3>1. OnlyOne
      BY <1>3 DEF FirstInv, Alone
    <3>2. \A y \in starts : y.by = r
      BY <1>1, <3>1 DEF OnlyOne
    <3> QED
      BY <1>2, <3>1, <3>2 DEF OnlyOne
  <2>2. /\ up \in [Requests -> {"none", "queued", "open", "removing", "ended"}]
        /\ reads \in [Requests -> Requests \cup {Nothing}]
    BY DEF Typed, TypeOK
  <2>3. \A y \in starts : y.by = r
    BY <1>1, <2>1 DEF OnlyOne
  <2>4. CASE UploadOpens(r)
    <3>1. temp # Nothing /\ bytes[temp] = Chunks /\ UNCHANGED <<temp, stored>>
      BY <2>1, <2>4 DEF UploadOpens, OnlyOne, disk
    <3>2. up' = [up EXCEPT ![r] = "open"] /\ reads' = [reads EXCEPT ![r] = temp]
      BY <2>4 DEF UploadOpens
    <3>3. up'[r] = "open" /\ reads'[r] = temp /\ \A x \in Requests : x # r => up'[x] = "none"
      BY <2>1, <2>2, <3>2
    <3> QED
      BY <1>1, <2>1, <2>3, <3>1, <3>3 DEF OnlyOne, StoredWhole
  <2>5. CASE UploadStores(r)
    <3>1. /\ up' = [up EXCEPT ![r] = "removing"]
          /\ stored' = stored \cup {[by |-> r, content |-> bytes[reads[r]]]}
          /\ bytes[reads[r]] = Chunks
      BY <2>1, <2>5 DEF UploadStores, OnlyOne
    <3>2. \A x \in Requests : up'[x] \notin {"queued", "open"} /\ (x # r => up'[x] = "none")
      BY <2>1, <2>2, <3>1
    <3>3. \A f \in stored' : f.content = Chunks
      BY <2>1, <3>1 DEF OnlyOne, StoredWhole
    <3> QED
      BY <1>1, <2>3, <3>2, <3>3 DEF OnlyOne, StoredWhole
  <2>6. CASE UploadMissesFile(r) \/ UploadFails(r) \/ UploadRemoves(r)
    <3>1. UNCHANGED stored /\ (up' = [up EXCEPT ![r] = "removing"] \/ up' = [up EXCEPT ![r] = "ended"])
      BY <2>6 DEF UploadMissesFile, UploadFails, UploadRemoves, Ends
    <3>2. \A x \in Requests : up'[x] \notin {"queued", "open"} /\ (x # r => up'[x] = "none")
      BY <2>1, <2>2, <3>1
    <3> QED
      BY <1>1, <2>1, <2>3, <3>1, <3>2 DEF OnlyOne, StoredWhole
  <2> QED
    BY <2>4, <2>5, <2>6 DEF UploadStep
<1> QED
  BY <1>1, <1>2, <1>3 DEF FirstInv, Alone

\* What a crash forgets was only in memory.
LEMMA FirstCrash ==
  ASSUME Typed, FirstInv, Plain, Crash
  PROVE  FirstInv'
<1>1. /\ UNCHANGED <<temp, bytes, chunkRows, stored, starts>>
      /\ received' = [x \in Requests |-> {}]
      /\ up' = [x \in Requests |-> IF up[x] = "none" THEN "none" ELSE "ended"]
  BY DEF Crash, disk, rows
<1>2. \A x \in Requests : req'[x].pc \in {"free", "over"} /\ ~req'[x].insertChunk
  BY CrashLeaves DEF Typed, Holding, Pending
<1>3. \A x \in Requests : up'[x] \notin {"queued", "open"} /\ (up'[x] = "none" <=> up[x] = "none")
  BY <1>1
<1>4. starts = {} => BeforeStart'
  BY <1>1, <1>2, <1>3 DEF FirstInv, BeforeStart, InTemp
<1>5. Alone(starts) => OnlyOne'
  BY <1>1, <1>3 DEF FirstInv, Alone, OnlyOne, StoredWhole
<1> QED
  BY <1>1, <1>4, <1>5 DEF FirstInv, Alone

LEMMA NextCancelSeen == CancelSeen /\ [Next]_vars => CancelSeen'
<1> SUFFICES ASSUME CancelSeen, [Next]_vars PROVE CancelSeen'
  OBVIOUS
<1>1. \/ cancelPc' = cancelPc \/ cancelPc' = "idle" \/ "cancel" \in seen'
      \/ (cancelPc # "idle" /\ cancelPc' # "idle")
  <2>1. CASE UNCHANGED vars \/ StartSession \/ AllSent \/ Poll \/ GivesUp \/ Leave \/ Cancel \/ CancelStep
             \/ Forget \/ Expire \/ Crash
    BY <2>1 DEF vars, env, StartSession, AllSent, Poll, GivesUp, Leave, Cancel, Forget, CancelStep, Expire, Crash,
                Happens
  <2>2. CASE \E r \in Requests : (\E c \in Chunks : Send(r, c)) \/ LoseAnswer(r) \/ RequestStep(r)
    BY <2>2 DEF env, Send, LoseAnswer, RequestStep, Enter, Load, Open, Write,
                Mark, RunsInsertTask, RunsInsertChunk, RunsPurgeChunks, RunsPurgeTask
  <2>3. CASE \E r \in Requests : UploadStep(r) \/ UploadFails(r)
    BY <2>3 DEF env, UploadStep, UploadFails, UploadOpens, UploadStores, UploadMissesFile,
                UploadRemoves, Ends
  <2> QED
    BY <2>1, <2>2, <2>3 DEF Next, SendAny
<1> QED
  BY <1>1, SeenGrows DEF CancelSeen

LEMMA NextFirst == Typed /\ CancelSeen /\ FirstInv /\ [Next]_vars => FirstInv'
<1> SUFFICES ASSUME Typed, CancelSeen, FirstInv, [Next]_vars, Plain'
             PROVE  FirstInv'
  BY DEF FirstInv
<1>1. Plain
  BY SeenGrows DEF Plain
<1>2. ~CancelStep /\ ~Expire
  <2>1. "cancel" \notin seen /\ "expire" \notin seen'
    BY <1>1 DEF Plain
  <2> QED
    BY <2>1 DEF CancelStep, CancelSeen, Expire, Happens
<1>3. CASE UNCHANGED vars \/ StartSession \/ AllSent \/ Poll \/ GivesUp \/ Leave \/ Cancel \/ Forget
  BY <1>1, <1>3, FirstClient
<1>4. CASE Crash
  BY <1>1, <1>4, FirstCrash
<1>5. CASE SendAny \/ \E r \in Requests : LoseAnswer(r)
  BY <1>1, <1>5, FirstSend DEF SendAny
<1>6. CASE \E r \in Requests : UploadStep(r) \/ UploadFails(r)
  BY <1>1, <1>6, FirstUpload
<1>7. CASE \E r \in Requests : RequestStep(r)
  BY <1>1, <1>7, FirstEnter, FirstOpen, FirstWrite, FirstMark, FirstGoroutine DEF RequestStep
<1> QED
  BY <1>2, <1>3, <1>4, <1>5, <1>6, <1>7 DEF Next

-----------------------------------------------------------------------------
(* Done is stored *)

\* A step that keeps what is in flight, and receives nothing.
LEMMA DoneFrame ==
  ASSUME Typed, DoneInv, Steady,
         UNCHANGED <<client, session, stored>>, task' = "absent" => task = "absent",
         task' = "done" => task = "done" \/ stored # {},
         todo \subseteq todo',
         \A c \in chunkRows' : c \in chunkRows \/ \E x \in Requests : req[x].insertChunk,
         \A x \in Requests : \A c \in received'[x] : c \in received[x] \/ c \in chunkRows,
         \A x \in Requests :
           /\ req'[x].insertChunk => req[x].insertChunk
           /\ req'[x].pc = "free" => req[x].pc = "free" /\ req'[x].lost = req[x].lost
           /\ x \in InFlight => \/ req[x].chunk \in todo'
                                \/ /\ req'[x].pc \notin {"free", "over"} /\ ~req'[x].lost
                                   /\ req'[x].session = req[x].session
                                   /\ req'[x].chunk = req[x].chunk
  PROVE  DoneInv'
<1>1. ASSUME task' = "absent", stored' = {} PROVE Untouched'
  <2>1. Untouched
    BY <1>1 DEF DoneInv
  <2>2. chunkRows' = {} /\ (\A x \in Requests : ~req'[x].insertChunk)
    BY <2>1 DEF Untouched
  <2>3. \A x \in Requests : received'[x] = {}
    BY <2>1 DEF Untouched
  <2>4. ASSUME client = "sending", NEW c \in Chunks
        PROVE  c \in todo' \/ \E x \in InFlight' : req'[x].chunk = c
    <3>1. c \in todo \/ \E x \in InFlight : req[x].chunk = c
      BY <2>1, <2>4 DEF Untouched
    <3>2. ASSUME NEW x \in InFlight, req[x].chunk = c, c \notin todo'
          PROVE  x \in InFlight' /\ req'[x].chunk = c
      <4>1. x \in Requests /\ req[x].session = session
        BY DEF InFlight, Busy
      <4>2. /\ req'[x].pc \notin {"free", "over"} /\ ~req'[x].lost
            /\ req'[x].session = req[x].session /\ req'[x].chunk = req[x].chunk
        BY <3>2, <4>1
      <4> QED
        BY <3>2, <4>1, <4>2 DEF InFlight, Busy
    <3> QED
      BY <3>1, <3>2
  <2> QED
    BY <2>1, <2>2, <2>3, <2>4 DEF Untouched
<1>2. task' = "done" \/ client' = "done" => stored' # {}
  BY DEF DoneInv
<1>3. \A x \in Requests : req'[x].pc = "free" => ~req'[x].lost
  BY DEF DoneInv
<1> QED
  BY <1>1, <1>2, <1>3 DEF DoneInv

LEMMA DoneClient ==
  ASSUME Typed, DoneInv, Steady, StartSession \/ AllSent \/ Poll \/ GivesUp \/ Leave
  PROVE  DoneInv'
<1>1. UNCHANGED <<req, received, chunkRows, task, stored>>
  BY DEF StartSession, AllSent, Poll, GivesUp, Leave, trackerVars, rows, uploads
<1>2. \A x \in Requests : req'[x].pc = "free" => ~req'[x].lost
  BY <1>1 DEF DoneInv
<1>3. task' = "absent" /\ stored' = {} => Untouched'
  <2> SUFFICES ASSUME task = "absent", stored = {} PROVE Untouched'
    BY <1>1
  <2>1. Untouched
    BY DEF DoneInv
  <2>2. CASE StartSession
    <3>1. CheckAnswer = {}
      BY <2>1 DEF CheckAnswer, Untouched, Typed, TypeOK
    <3> QED
      BY <1>1, <2>1, <2>2, <3>1 DEF StartSession, Untouched
  <2>3. ~AllSent
    BY <2>1, ConstantsOK DEF AllSent, Untouched
  <2>4. ~Poll /\ ~GivesUp
    BY <2>1 DEF Poll, GivesUp, Untouched
  <2>5. CASE Leave
    BY <1>1, <2>1, <2>5 DEF Leave, Untouched
  <2> QED
    BY <2>2, <2>3, <2>4, <2>5
<1>4. ASSUME task' = "done" \/ client' = "done" PROVE stored' # {}
  <2>1. CASE task = "done"
    BY <1>1, <2>1 DEF DoneInv
  <2>2. CASE task # "done"
    <3>1. client' = "done" /\ Poll
      BY <1>1, <1>4, <2>2 DEF StartSession, AllSent, GivesUp, Leave, DoneInv
    <3>2. client = "polling" /\ task = "absent"
      BY <2>2, <3>1 DEF Poll, PollShows
    <3> QED
      BY <1>1, <3>2 DEF DoneInv, Untouched
  <2> QED
    BY <2>1, <2>2
<1> QED
  BY <1>2, <1>3, <1>4 DEF DoneInv

LEMMA DoneSend ==
  ASSUME Typed, DoneInv, Steady, NEW r \in Requests, NEW c \in Chunks, Send(r, c)
  PROVE  DoneInv'
<1>1. /\ UNCHANGED <<client, session, received, chunkRows, task, stored>> /\ todo' = todo \ {c}
  BY DEF Send, trackerVars, rows, uploads
<1>2. /\ req[r].pc = "free" /\ req'[r].pc = "sent"
      /\ req'[r].chunk = c /\ req'[r].session = session
      /\ req'[r].lost = req[r].lost /\ req'[r].insertChunk = req[r].insertChunk
      /\ \A x \in Requests : x # r => req'[x] = req[x]
  BY SendMoves DEF Others
<1>3. \A x \in Requests : req'[x].pc = "free" => ~req'[x].lost
  BY <1>2 DEF DoneInv
<1>4. r \in InFlight' /\ \A x \in InFlight : x \in InFlight' /\ req'[x].chunk = req[x].chunk
  <2>1. ~req'[r].lost
    BY <1>2 DEF DoneInv
  <2> QED
    BY <1>1, <1>2, <2>1 DEF InFlight, Busy
<1>5. task = "absent" /\ stored = {} => Untouched'
  <2> SUFFICES ASSUME task = "absent", stored = {} PROVE Untouched'
    OBVIOUS
  <2>1. Untouched
    BY DEF DoneInv
  <2>2. \A x \in Requests : ~req'[x].insertChunk
    BY <1>2, <2>1 DEF Untouched
  <2>3. client = "sending" => \A d \in Chunks : d \in todo' \/ \E x \in InFlight' : req'[x].chunk = d
    BY <1>1, <1>2, <1>4, <2>1 DEF Untouched
  <2> QED
    BY <1>1, <2>1, <2>2, <2>3 DEF Untouched
<1> QED
  BY <1>1, <1>3, <1>5 DEF DoneInv

LEMMA DoneLose ==
  ASSUME Typed, DoneInv, Steady, NEW r \in Requests, LoseAnswer(r)
  PROVE  DoneInv'
<1>1. /\ UNCHANGED <<client, session, received, chunkRows, task, stored>>
      /\ todo' = todo \cup {req[r].chunk} /\ r \in InFlight
  BY DEF LoseAnswer, trackerVars, rows, uploads
<1>2. /\ \A x \in Requests : x # r => req'[x] = req[x]
      /\ req'[r].pc = req[r].pc /\ req'[r].insertChunk = req[r].insertChunk /\ req[r].pc # "free"
  BY <1>1, SendMoves DEF Others, InFlight, Busy
<1> QED
  BY <1>1, <1>2, DoneFrame DEF InFlight, Busy

LEMMA DoneRequest ==
  ASSUME Typed, DoneInv, Steady, NEW r \in Requests, Enter(r) \/ Load(r) \/ Open(r) \/ Write(r)
  PROVE  DoneInv'
<1>1. UNCHANGED <<client, session, todo, chunkRows, task, stored>>
  BY DEF Enter, Load, Open, Write, clientVars, rows, uploads
<1>2. /\ \A x \in Requests : x # r => req'[x] = req[x]
      /\ req'[r].chunk = req[r].chunk /\ req'[r].session = req[r].session
      /\ req'[r].lost = req[r].lost /\ req'[r].insertChunk = req[r].insertChunk
      /\ req'[r].pc \notin {"free", "over"}
  BY Moves DEF Others, SameRequest
<1>3. \A s \in Requests : \A c \in received'[s] : c \in received[s] \/ c \in chunkRows
  <2>1. CASE ~Load(r)
    BY <2>1 DEF Enter, Open, Write, trackerVars
  <2>2. CASE Load(r)
    <3>1. received' = [received EXCEPT ![req[r].state] = @ \cup chunkRows]
      BY <2>2 DEF Load, LoadRows
    <3>2. received \in [Requests -> SUBSET Chunks]
      BY DEF Typed, TypeOK
    <3> QED
      BY <3>1, <3>2
  <2> QED
    BY <2>1, <2>2
<1> QED
  BY <1>1, <1>2, <1>3, DoneFrame DEF InFlight, Busy

LEMMA DoneMark ==
  ASSUME Typed, DoneInv, Steady, NEW r \in Requests, Mark(r)
  PROVE  DoneInv'
<1>1. UNCHANGED <<client, stored>> /\ task' # "absent" /\ (task' = "done" => task = "done")
  BY DEF Mark, Progress, clientVars
<1>2. \A x \in Requests : req'[x].pc = "free" => ~req'[x].lost
  BY MarkLeaves DEF DoneInv
<1> QED
  BY <1>1, <1>2 DEF DoneInv

LEMMA DoneGoroutine ==
  ASSUME Typed, DoneInv, Steady, NEW r \in Requests,
         RunsInsertTask(r) \/ RunsInsertChunk(r) \/ RunsPurgeChunks(r) \/ RunsPurgeTask(r)
  PROVE  DoneInv'
<1>1. /\ UNCHANGED <<client, session, todo, received, task, stored>>
      /\ \A c \in chunkRows' : c \in chunkRows \/ \E x \in Requests : req[x].insertChunk
  BY DEF RunsInsertTask, RunsInsertChunk, RunsPurgeChunks, RunsPurgeTask, clientVars, trackerVars, uploads
<1>2. \A x \in Requests : /\ req'[x].pc = req[x].pc /\ req'[x].session = req[x].session
                          /\ req'[x].lost = req[x].lost
                          /\ req'[x].insertChunk => req[x].insertChunk
                          /\ req'[x].chunk = req[x].chunk \/ req[x].pc = "over"
  BY GoroutineTyped
<1> QED
  BY <1>1, <1>2, DoneFrame DEF InFlight, Busy

LEMMA DoneUpload ==
  ASSUME Typed, DoneInv, Steady, NEW r \in Requests, UploadStep(r) \/ UploadFails(r)
  PROVE  DoneInv'
<1>1. UNCHANGED <<client, session, todo, req, received, chunkRows>>
  BY DEF UploadStep, UploadFails, UploadOpens, UploadStores, UploadMissesFile, UploadRemoves, Ends,
         clientVars, trackerVars, rows
<1>2. CASE UploadStores(r)
  <2>1. task' = "done" /\ stored' # {}
    BY <1>2 DEF UploadStores, Reports
  <2> QED
    BY <1>1, <2>1 DEF DoneInv
<1>3. CASE ~UploadStores(r)
  <2>1. UNCHANGED stored /\ (task' = task \/ task' \notin {"absent", "done"})
    BY <1>3 DEF UploadStep, UploadFails, UploadOpens, UploadMissesFile, UploadRemoves, Ends, Progress,
       Reports
  <2> QED
    BY <1>1, <2>1, DoneFrame DEF InFlight, Busy
<1> QED
  BY <1>2, <1>3

\* An entry is forgotten after a terminal report; without a failure that was a stored file.
LEMMA DoneForget ==
  ASSUME Typed, DoneInv, UnfailedInv, Steady, Steady', Forget
  PROVE  DoneInv'
<1>1. UNCHANGED <<client, req, stored>> /\ task' = "absent" /\ timers # 0
  BY DEF Forget, clientVars
<1>2. "fail" \notin seen
  BY DEF Forget, Happens, Steady
<1>3. stored # {}
  BY <1>1, <1>2 DEF UnfailedInv, Unfailed
<1> QED
  BY <1>1, <1>3 DEF DoneInv

LEMMA NextDone == Typed /\ CancelSeen /\ DoneInv /\ UnfailedInv /\ [Next]_vars => DoneInv'
<1> SUFFICES ASSUME Typed, CancelSeen, DoneInv, UnfailedInv, [Next]_vars, Steady'
             PROVE  DoneInv'
  BY DEF DoneInv
<1>1. Steady
  BY SeenGrows DEF Steady
<1>2. ~CancelStep /\ ~Cancel /\ ~Crash
  <2>1. seen' \cap {"crash", "restart", "cancel"} = {} /\ "cancel" \notin seen
    BY <1>1 DEF Steady
  <2> QED
    BY <2>1 DEF CancelStep, CancelSeen, Cancel, Crash, Happens
<1>3. CASE UNCHANGED vars \/ Expire
  <2>1. UNCHANGED <<client, session, todo, req, received, chunkRows, task, stored>>
    BY <1>3 DEF vars, Expire, clientVars, trackerVars, rows, uploads
  <2> QED
    BY <1>1, <2>1, DoneFrame DEF InFlight, Busy
<1>4. CASE StartSession \/ AllSent \/ Poll \/ GivesUp \/ Leave \/ Forget
  BY <1>1, <1>4, DoneClient, DoneForget
<1>5. CASE SendAny \/ \E r \in Requests : LoseAnswer(r)
  BY <1>1, <1>5, DoneSend, DoneLose DEF SendAny
<1>6. CASE \E r \in Requests : UploadStep(r) \/ UploadFails(r)
  BY <1>1, <1>6, DoneUpload
<1>7. CASE \E r \in Requests : RequestStep(r)
  BY <1>1, <1>7, DoneRequest, DoneMark, DoneGoroutine DEF RequestStep
<1> QED
  BY <1>2, <1>3, <1>4, <1>5, <1>6, <1>7 DEF Next

LEMMA StoredGrows == ASSUME [Next]_vars PROVE stored \subseteq stored'
<1>1. CASE UNCHANGED vars \/ StartSession \/ AllSent \/ Poll \/ GivesUp \/ Leave \/ Cancel \/ CancelStep
             \/ Forget \/ Expire \/ Crash
  BY <1>1 DEF vars, StartSession, AllSent, Poll, GivesUp, Leave, Cancel, Forget, CancelStep, Expire,
              Crash, uploads
<1>2. CASE \E r \in Requests : (\E c \in Chunks : Send(r, c)) \/ LoseAnswer(r) \/ RequestStep(r)
  BY <1>2 DEF Send, LoseAnswer, RequestStep, Enter, Load, Open, Write, Mark, RunsInsertTask,
              RunsInsertChunk, RunsPurgeChunks, RunsPurgeTask, uploads
<1>3. CASE \E r \in Requests : UploadStep(r) \/ UploadFails(r)
  BY <1>3 DEF UploadStep, UploadFails, UploadOpens, UploadStores, UploadMissesFile, UploadRemoves, Ends
<1> QED
  BY <1>1, <1>2, <1>3 DEF Next, SendAny

LEMMA UnfailedRequest ==
  ASSUME Typed, Unfailed, NEW r \in Requests,
         (\E c \in Chunks : Send(r, c)) \/ LoseAnswer(r) \/ RequestStep(r)
  PROVE  Unfailed'
<1>1. CASE (\E c \in Chunks : Send(r, c)) \/ LoseAnswer(r)
  <2>1. UNCHANGED <<timers, up, temp>>
    BY <1>1 DEF Send, LoseAnswer, uploads, disk
  <2>2. \A x \in Requests : req'[x].pc \in {"write", "mark"} => req[x].pc \in {"write", "mark"}
    BY <1>1, SendMoves DEF Others
  <2> QED
    BY <2>1, <2>2 DEF Unfailed
<1>2. CASE Enter(r) \/ Load(r) \/ Write(r)
  <2>1. UNCHANGED <<timers, up, temp>>
    BY <1>2 DEF Enter, Load, Write, uploads, disk
  <2>2. \A x \in Requests : req'[x].pc \in {"write", "mark"} => req[x].pc \in {"write", "mark"}
    BY <1>2, Moves DEF Others
  <2> QED
    BY <2>1, <2>2 DEF Unfailed
<1>3. CASE Open(r)
  <2>1. UNCHANGED <<timers, up>> /\ temp' # Nothing
    BY <1>3, ConstantsOK DEF Open, Created, uploads
  <2> QED
    BY <2>1 DEF Unfailed
<1>4. CASE Mark(r)
  <2>1. UNCHANGED <<timers, temp>> /\ temp # Nothing
    BY <1>4 DEF Mark, Progress, Unfailed, disk
  <2>2. up' = up \/ up' = [up EXCEPT ![r] = "queued"]
    BY <1>4 DEF Mark
  <2>3. up \in [Requests -> {"none", "queued", "open", "removing", "ended"}]
    BY DEF Typed, TypeOK
  <2> QED
    BY <2>1, <2>2, <2>3 DEF Unfailed
<1>5. CASE RunsInsertTask(r) \/ RunsInsertChunk(r) \/ RunsPurgeChunks(r) \/ RunsPurgeTask(r)
  <2>1. UNCHANGED <<timers, up, temp>>
    BY <1>5 DEF RunsInsertTask, RunsInsertChunk, RunsPurgeChunks, RunsPurgeTask, uploads, disk
  <2>2. \A x \in Requests : req'[x].pc = req[x].pc
    BY <1>5, GoroutineTyped
  <2> QED
    BY <2>1, <2>2 DEF Unfailed
<1> QED
  BY <1>1, <1>2, <1>3, <1>4, <1>5 DEF RequestStep

LEMMA NextUnfailed == Typed /\ CancelSeen /\ UnfailedInv /\ [Next]_vars => UnfailedInv'
<1> SUFFICES ASSUME Typed, CancelSeen, UnfailedInv, [Next]_vars,
                    Steady', stored' = {}, "fail" \notin seen'
             PROVE  Unfailed'
  BY DEF UnfailedInv
<1>1. Steady /\ stored = {} /\ "fail" \notin seen
  BY SeenGrows, StoredGrows DEF Steady
<1>2. Unfailed
  BY <1>1 DEF UnfailedInv
<1>3. ~CancelStep /\ ~Cancel /\ ~Crash /\ ~Forget
  <2>1. seen' \cap {"crash", "restart", "cancel"} = {} /\ "cancel" \notin seen
    BY <1>1 DEF Steady
  <2> QED
    <3>1. ~Forget
      BY <1>2 DEF Forget, Unfailed
    <3> QED
      BY <2>1, <3>1 DEF CancelStep, CancelSeen, Cancel, Crash, Happens
<1>4. CASE UNCHANGED vars \/ StartSession \/ AllSent \/ Poll \/ GivesUp \/ Leave
  <2>1. UNCHANGED <<timers, up, req, temp>>
    BY <1>4 DEF vars, StartSession, AllSent, Poll, GivesUp, Leave, uploads, disk
  <2> QED
    BY <1>2, <2>1 DEF Unfailed
<1>5. CASE Expire
  <2>1. UNCHANGED <<timers, up, req>>
    BY <1>5 DEF Expire, uploads
  <2>2. \A x \in Requests : req[x].pc \notin {"write", "mark"} /\ up[x] # "queued"
    BY <1>5 DEF Expire, Busy, Running
  <2> QED
    BY <1>2, <2>1, <2>2 DEF Unfailed
<1>6. ASSUME NEW r \in Requests, UploadStep(r) \/ UploadFails(r) PROVE Unfailed'
  <2>1. UploadOpens(r)
    BY <1>1, <1>2, <1>6 DEF UploadStep, UploadFails, UploadStores, UploadMissesFile, UploadRemoves,
       Happens, Unfailed, Steady
  <2>2. UNCHANGED <<timers, req, temp>> /\ up' = [up EXCEPT ![r] = "open"]
    BY <2>1 DEF UploadOpens, Progress, disk
  <2>3. up \in [Requests -> {"none", "queued", "open", "removing", "ended"}]
    BY DEF Typed, TypeOK
  <2> QED
    BY <1>2, <2>2, <2>3 DEF Unfailed
<1>7. CASE \E r \in Requests : (\E c \in Chunks : Send(r, c)) \/ LoseAnswer(r) \/ RequestStep(r)
  BY <1>2, <1>7, UnfailedRequest
<1> QED
  BY <1>3, <1>4, <1>5, <1>6, <1>7 DEF Next, SendAny

-----------------------------------------------------------------------------
(* The theorems *)

LEMMA InitIInv == Init => IInv
<1> SUFFICES ASSUME Init PROVE IInv
  OBVIOUS
<1>1. Typed
  BY InitTyped
<1>2. \A r \in Requests : req[r] = FreeRequest
  BY DEF Init
<1>3. /\ FreeRequest.pc = "free" /\ FreeRequest.lost = FALSE /\ FreeRequest.insertChunk = FALSE
  BY DEF FreeRequest
<1>4. StatesUsed /\ OncePerState /\ CancelSeen
  BY <1>2, <1>3 DEF Init, StatesUsed, Active, OncePerState, CancelSeen
<1>5. FirstInv
  BY <1>2, <1>3 DEF Init, FirstInv, BeforeStart, OnlyOne, StoredWhole
<1>6. DoneInv
  BY <1>2, <1>3 DEF Init, DoneInv, Untouched
<1>7. UnfailedInv
  BY <1>2, <1>3 DEF Init, UnfailedInv, Unfailed
<1> QED
  BY <1>1, <1>4, <1>5, <1>6, <1>7 DEF IInv

\* The inductive invariant of a chunked upload: the types, the states that have been used
\* up, what is in the temp file before and during the first upload, what a task the server
\* does not show has received, and that nothing is terminal before something is stored.
THEOREM ChunkInvariant == Spec => []IInv
<1>1. IInv /\ [Next]_vars => IInv'
  BY NextTyped, NextOnce, NextCancelSeen, NextFirst, NextDone, NextUnfailed DEF IInv
<1> QED
  BY <1>1, InitIInv, PTL DEF Spec

\* Type correctness of the requests, the tracker, the temp file and the tables; a request
\* writes to a file it has opened.
THEOREM ChunkTypeCorrect == Spec => []TypeOK
<1>1. IInv => TypeOK
  BY DEF IInv, Typed
<1> QED
  BY <1>1, ChunkInvariant, PTL

\* One chunkState starts one upload: requests that share it, LoadOrStore races, crashes and
\* chunks sent twice do not make a second one (handlePostUpload, uploadStarted).
THEOREM OneUploadPerState == Spec => []OncePerState
<1>1. IInv => OncePerState
  BY DEF IInv
<1> QED
  BY <1>1, ChunkInvariant, PTL

\* The first upload of a task stores every chunk, through any number of closed pages, crashes,
\* lost answers and failures, and for any number of chunks and concurrent requests.
THEOREM FirstUploadIsWhole == Spec => []FirstWhole
<1>1. IInv => FirstWhole
  <2> SUFFICES ASSUME IInv, Plain, Cardinality(starts) = 1 PROVE StoredWhole
    BY DEF FirstWhole, Plain
  <2>1. IsFiniteSet(starts)
    BY DEF IInv, Typed, Holding
  <2>2. \E x : starts = {x}
    BY <2>1, FS_Singleton
  <2> QED
    BY <2>2 DEF IInv, FirstInv, OnlyOne
<1> QED
  BY <1>1, ChunkInvariant, PTL

\* A chunk that the server tells a returning client to skip is in the temp file, until an
\* upload has started: memory, tables and file agree through crashes at any step.
THEOREM CheckTellsTheTruth == Spec => []CheckTruthful
<1>1. IInv => CheckTruthful
  <2> SUFFICES ASSUME IInv, Plain, starts = {}, NEW c \in CheckAnswer PROVE InTemp(c)
    BY DEF CheckTruthful, Plain, InTemp
  <2>1. BeforeStart
    BY DEF IInv, FirstInv
  <2>2. tracker \in Requests \cup {Nothing}
    BY DEF IInv, Typed, TypeOK
  <2> QED
    BY <2>1, <2>2 DEF CheckAnswer, BeforeStart
<1> QED
  BY <1>1, ChunkInvariant, PTL

\* What the page calls done has been stored, while the server runs, nobody cancels, and no
\* failed upload is forgotten after its hour: the poller, which takes a task that the server
\* does not show for done, never looks before one chunk at least has been received, and what
\* is forgotten (scheduleTaskCleanup) was stored.  Failures that are not forgotten, and
\* entries of stored files that are, do no harm.
THEOREM DoneMeansIsStored == Spec => []DoneIsStored
<1>1. IInv => DoneIsStored
  BY DEF IInv, DoneInv, Steady, DoneIsStored, DoneMeansStored
<1> QED
  BY <1>1, ChunkInvariant, PTL
=============================================================================
