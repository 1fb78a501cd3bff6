---------------------------- MODULE ReaderProofs ----------------------------
(***************************************************************************)
(* Theorems of Reader.  First tgFileReader: what its goroutines fetch, and *)
(* the slots they hold.  Then multiPartReader: which part is read.         *)
(***************************************************************************)
EXTENDS Reader, FiniteSetTheorems, WellFoundedInduction, TLAPS

-----------------------------------------------------------------------------
(* The inductive invariant of Prefetch *)

Tracked == {"fetch", "fetched", "stored"}       \* steps at which inflight has the goroutine
Fetching(j) == job[j].step \in {"fetch", "fetched"}
Steps == {"free", "left", "closed", "half"} \cup Tracked
Chunk == 0..Chunks - 1
Goroutine == [step: Steps, chunk: Chunk, gen: Nat]

PrefetchTyped ==
  /\ at \in 0..Chunks /\ held \in 0..Chunks
  /\ read \in [pc: Places, i: 1..Depth + 1]
  /\ buffer \in SUBSET Chunk /\ cached \in SUBSET Chunk
  /\ inflight \in [Chunk -> 0..Depth]
  /\ job \in [Jobs -> Goroutine]
  /\ gen \in Nat /\ own \in Nat
  /\ budget \in [mine: Nat, others: Nat] /\ budget.mine + budget.others <= Budget

\* Where Read is: it looks for the chunk behind the one it holds, and once it has found
\* the chunk neither in the buffer nor on its way, no goroutine brings it any more.
WhereRead ==
  /\ Looking => at < Chunks /\ (held = NoChunk \/ at = held + 1)
  /\ read.pc = "top up" => held < Chunks
  /\ held = NoChunk \/ at = held \/ at = held + 1
  /\ read.pc = "wait" => read.i \in Jobs /\ inflight[at] \in {0, read.i}
  /\ read.pc \in {"look", "fetch"} => inflight[at] = 0 /\ at \notin buffer

\* prefetchInflight holds the goroutines that have not left it, each under its chunk.
Entries ==
  /\ \A j \in Jobs : job[j].step \in Tracked => inflight[job[j].chunk] = j
  /\ \A c \in Chunk :
       inflight[c] # 0 => job[inflight[c]].chunk = c /\ job[inflight[c]].step \in Tracked

\* What is being fetched for the current position lies in the window and is not there yet.
Fetches ==
  \A j \in Jobs :
    /\ job[j].step = "free" => job[j] = Free
    /\ job[j].gen <= gen
    /\ Fetching(j) => job[j].chunk \notin buffer
    /\ Fetching(j) /\ job[j].gen = gen =>
         First <= job[j].chunk /\ job[j].chunk <= at + Depth

PrefetchInv ==
  PrefetchTyped /\ WhereRead /\ Entries /\ Fetches /\ BufferInWindow /\ SlotsReturned

LEMMA Sizes == /\ Chunks \in Nat \ {0} /\ Depth \in Nat \ {0} /\ Budget \in Nat \ {0}
               /\ 0 \in Chunk /\ NoChunk \notin Chunk
  BY PrefetchAssumption DEF Chunk, NoChunk

-----------------------------------------------------------------------------
(* The slots *)

Running == {j \in Jobs : job[j] # Free}
Charged == {j \in Jobs : job[j].step \notin {"free", "half"}}

LEMMA JobsFinite ==
  /\ IsFiniteSet(Jobs) /\ Cardinality(Jobs) = Depth
  /\ \A S \in SUBSET Jobs : /\ IsFiniteSet(S) /\ Cardinality(S) \in Nat
                            /\ Cardinality(S) <= Depth
                            /\ Cardinality(S) = Depth => S = Jobs
<1>1. IsFiniteSet(Jobs) /\ Cardinality(Jobs) = Depth
  BY Sizes, FS_Interval DEF Jobs
<1>2. ASSUME NEW S \in SUBSET Jobs
      PROVE  /\ IsFiniteSet(S) /\ Cardinality(S) \in Nat
             /\ Cardinality(S) <= Depth
             /\ Cardinality(S) = Depth => S = Jobs
  BY <1>1, FS_Subset, FS_CardinalityType
<1> QED
  BY <1>1, <1>2

\* A goroutine is free while a slot of prefetchSem is.
LEMMA FreeSlot ==
  ASSUME PrefetchInv, own < Depth
  PROVE  LET j == CHOOSE k \in Jobs : job[k] = Free IN j \in Jobs /\ job[j] = Free
<1>0. own = Cardinality(Running) /\ Depth \in Nat /\ own \in Nat
  BY Sizes DEF PrefetchInv, PrefetchTyped, SlotsReturned, Running
<1>1. Running # Jobs
  BY <1>0, JobsFinite
<1> QED
  BY <1>1 DEF Running

\* One more, or one fewer.
LEMMA OneMore ==
  ASSUME NEW S \in SUBSET Jobs, NEW j \in Jobs
  PROVE  /\ j \notin S => Cardinality(S \cup {j}) = Cardinality(S) + 1
         /\ j \in S => /\ Cardinality(S \ {j}) = Cardinality(S) - 1
                       /\ Cardinality(S) > 0
<1>1. IsFiniteSet(S) /\ Cardinality(S) \in Nat /\ Cardinality(S \ {j}) \in Nat
  BY JobsFinite
<1>2. Cardinality(S \cup {j}) = IF j \in S THEN Cardinality(S) ELSE Cardinality(S) + 1
  BY <1>1, FS_AddElement
<1>3. Cardinality(S \ {j}) = IF j \in S THEN Cardinality(S) - 1 ELSE Cardinality(S)
  BY <1>1, FS_RemoveElement
<1> QED
  BY <1>1, <1>2, <1>3

\* A goroutine starts, for a chunk nobody fetches and the buffer does not have.
LEMMA StartStep ==
  ASSUME PrefetchInv, NEW c \in Nat, TriggerPrefetch(c)
  PROVE  \/ UNCHANGED <<job, inflight, own, budget>>
         \/ \E j \in Jobs :
              /\ job[j] = Free /\ c \in Chunk /\ c \notin buffer /\ inflight[c] = 0
              /\ job' = [job EXCEPT ![j] = [step |-> "fetch", chunk |-> c, gen |-> gen]]
              /\ inflight' = [inflight EXCEPT ![c] = j]
              /\ own' = own + 1 /\ budget' = [budget EXCEPT !.mine = @ + 1]
              /\ budget.mine + budget.others < Budget
<1>1. CASE Wanted(c) /\ own < Depth /\ budget.mine + budget.others < Budget
  <2>1. Start(c) /\ c \in Chunk /\ c \notin buffer /\ inflight[c] = 0
    BY <1>1, Sizes DEF TriggerPrefetch, Wanted, Chunk
  <2> QED
    BY <1>1, <2>1, FreeSlot DEF Start
<1>2. CASE ~(Wanted(c) /\ own < Depth /\ budget.mine + budget.others < Budget)
  BY <1>2 DEF TriggerPrefetch
<1> QED
  BY <1>1, <1>2

LEMMA StartSlots ==
  ASSUME PrefetchInv, NEW j \in Jobs, job[j] = Free, NEW c \in Chunk, NEW g \in Nat,
         job' = [job EXCEPT ![j] = [step |-> "fetch", chunk |-> c, gen |-> g]],
         own' = own + 1, budget' = [budget EXCEPT !.mine = @ + 1]
  PROVE  SlotsReturned'
<1>1. Running' = Running \cup {j} /\ j \notin Running
  BY DEF Running, PrefetchInv, PrefetchTyped, Goroutine, Free
<1>2. Charged' = Charged \cup {j} /\ j \notin Charged
  BY DEF Charged, PrefetchInv, PrefetchTyped, Goroutine, Free
<1>3. own = Cardinality(Running) /\ budget.mine = Cardinality(Charged)
  BY DEF PrefetchInv, SlotsReturned, Running, Charged
<1>4. Running \in SUBSET Jobs /\ Charged \in SUBSET Jobs
  BY DEF Running, Charged
<1>5. own' = Cardinality(Running') /\ budget'.mine = Cardinality(Charged')
  BY <1>1, <1>2, <1>3, <1>4, OneMore DEF PrefetchInv, PrefetchTyped
<1> QED
  BY <1>5 DEF SlotsReturned, Running, Charged

-----------------------------------------------------------------------------
(* Steps of Read *)

ReadAt == [pc: Places, i: 1..Depth + 1]

LEMMA GoesToType ==
  /\ \A p \in Places : [pc |-> p, i |-> 1] \in ReadAt
  /\ \A i \in Jobs : [pc |-> "wait", i |-> i] \in ReadAt
  /\ {"idle", "top up", "fill", "get", "look", "fetch"} \subseteq Places
<1>1. 1 \in 1..Depth + 1 /\ \A i \in Jobs : i \in 1..Depth + 1
  BY Sizes DEF Jobs
<1> QED
  BY <1>1 DEF ReadAt, Places

\* A step that leaves the goroutines and the position alone.
LEMMA WindowKept ==
  ASSUME PrefetchInv, First' = First, UNCHANGED <<at, inflight, job, own, budget, gen>>,
         buffer' \in SUBSET buffer
  PROVE  Entries' /\ Fetches' /\ BufferInWindow' /\ SlotsReturned'
<1>1. Entries' /\ SlotsReturned'
  BY DEF PrefetchInv, Entries, SlotsReturned
<1>2. Fetches'
  BY DEF PrefetchInv, Fetches, Fetching
<1>3. BufferInWindow'
  BY DEF PrefetchInv, BufferInWindow
<1> QED
  BY <1>1, <1>2, <1>3

\* Read has the chunk at the position: it is served, and the window begins behind it.
LEMMA ServedStep ==
  ASSUME PrefetchInv, at < Chunks, Served(at), UNCHANGED <<inflight, job, own, budget, gen>>,
         cached' \in SUBSET Chunk, buffer' \in SUBSET buffer,
         \/ read.pc = "idle" /\ held = at
         \/ /\ Looking /\ at \notin buffer'
            /\ \A j \in Jobs : Fetching(j) => job[j].chunk # at
  PROVE  PrefetchInv'
<1>0. at \in Nat /\ Chunks \in Nat /\ Depth \in Nat /\ at # NoChunk
  BY Sizes DEF PrefetchInv, PrefetchTyped, NoChunk
<1>r. held' = at /\ read' = [pc |-> "top up", i |-> 1]
  BY Zenon DEF Served, GoesTo
<1>p. ~Looking' /\ read'.pc = "top up" /\ read'.i = 1
  BY <1>r DEF Looking
<1>a. at' \in {at, at + 1}
  BY Zenon DEF Served
<1>1. /\ at \in Nat /\ Chunks \in Nat /\ Depth \in Nat
      /\ at' = at \/ at' = at + 1
      /\ held' = at
  BY <1>0, <1>r, <1>a
<1>2. /\ First' = at + 1
      /\ \/ First = at + 1 /\ ~Looking
         \/ First = at /\ Looking
  <2>1. First' = at + 1
    BY <1>0, <1>r, <1>p DEF First
  <2>2. read.pc = "idle" => ~Looking
    BY DEF Looking
  <2>3. held = at => held # NoChunk
    BY <1>0
  <2> QED
    BY <2>1, <2>2, <2>3 DEF First
<1>3. PrefetchTyped'
  <2>1. read' \in ReadAt
    BY <1>r, GoesToType
  <2>2. at' \in 0..Chunks /\ held' \in 0..Chunks
    BY <1>1
  <2> QED
    BY <2>1, <2>2 DEF PrefetchInv, PrefetchTyped, ReadAt
<1>4. WhereRead'
  BY <1>1, <1>p DEF WhereRead
<1>5. Entries' /\ SlotsReturned'
  BY DEF PrefetchInv, Entries, SlotsReturned
<1>6. ASSUME NEW j \in Jobs, Fetching(j), job[j].gen = gen
      PROVE  at + 1 <= job[j].chunk /\ job[j].chunk <= at' + Depth
  <2>1. /\ First <= job[j].chunk /\ job[j].chunk <= at + Depth
        /\ job[j].chunk \in Nat
    BY <1>6 DEF PrefetchInv, Fetches, PrefetchTyped, Goroutine, Chunk
  <2>2. Looking => job[j].chunk # at
    BY <1>6 DEF Looking
  <2> QED
    BY <1>1, <1>2, <2>1, <2>2, SMT
<1>7. Fetches'
  BY <1>2, <1>6 DEF PrefetchInv, Fetches, Fetching
<1>8. ASSUME NEW c \in buffer'
      PROVE  at + 1 <= c /\ c <= at' + Depth
  <2>1. First <= c /\ c <= at + Depth /\ c \in Nat
    BY <1>8 DEF PrefetchInv, BufferInWindow, PrefetchTyped, Chunk
  <2>2. Looking => c # at
    BY <1>8 DEF Looking
  <2> QED
    BY <1>1, <1>2, <2>1, <2>2
<1>9. BufferInWindow'
  BY <1>2, <1>8 DEF BufferInWindow
<1> QED
  BY <1>3, <1>4, <1>5, <1>7, <1>9 DEF PrefetchInv

\* Read goes on looking, or gives up, with what it held.
LEMMA SearchStep ==
  ASSUME PrefetchInv, UNCHANGED <<at, held, buffer, inflight, job, own, budget, gen, cached>>,
         read' \in ReadAt, Looking,
         \/ read'.pc \in {"idle", "get"}
         \/ read'.pc = "wait" /\ read'.i \in Jobs /\ inflight[at] \in {0, read'.i}
         \/ read'.pc \in {"look", "fetch"} /\ inflight[at] = 0 /\ at \notin buffer
  PROVE  PrefetchInv'
<1>1. First' = First
  BY DEF First, Looking, PrefetchInv, WhereRead, NoChunk
<1>2. PrefetchTyped'
  BY DEF PrefetchInv, PrefetchTyped, ReadAt
<1>3. WhereRead'
  BY DEF PrefetchInv, WhereRead, Looking, NoChunk
<1> QED
  BY <1>1, <1>2, <1>3, WindowKept DEF PrefetchInv

LEMMA ReadStartsStep ==
  ASSUME PrefetchInv, ReadStarts
  PROVE  PrefetchInv'
<1>1. CASE held = at
  BY <1>1, ServedStep DEF ReadStarts, PrefetchInv, PrefetchTyped, fetchVars
<1>2. CASE held # at
  <2>1. /\ read' = [pc |-> "fill", i |-> 1] /\ read.pc = "idle" /\ at < Chunks
        /\ UNCHANGED <<at, held, buffer, inflight, job, own, budget, gen, cached>>
    BY <1>2 DEF ReadStarts, GoesTo, fetchVars
  <2>2. First' = First
    <3>1. held = NoChunk \/ at = held + 1
      BY <1>2, <2>1 DEF PrefetchInv, WhereRead
    <3>2. ~Looking /\ Looking'
      BY <2>1 DEF Looking
    <3> QED
      BY <2>1, <3>1, <3>2 DEF First
  <2>3. PrefetchTyped'
    <3>1. read' \in ReadAt
      BY <2>1, GoesToType
    <3> QED
      BY <2>1, <3>1 DEF PrefetchInv, PrefetchTyped, ReadAt
  <2>4. WhereRead'
    BY <1>2, <2>1 DEF PrefetchInv, WhereRead, Looking, NoChunk
  <2> QED
    BY <2>1, <2>2, <2>3, <2>4, WindowKept DEF PrefetchInv
<1> QED
  BY <1>1, <1>2

\* Nobody fetches a chunk that is in the buffer, nor one without an entry.
LEMMA NotOnItsWay ==
  ASSUME PrefetchInv, NEW c \in Chunk, c \in buffer \/ inflight[c] = 0
  PROVE  \A j \in Jobs : Fetching(j) => job[j].chunk # c
  BY DEF PrefetchInv, Fetches, Entries, Fetching, Tracked, Jobs

LEMMA GetStep ==
  ASSUME PrefetchInv, Get
  PROVE  PrefetchInv'
<1>1. Looking /\ at \in Chunk /\ at < Chunks
  BY Sizes DEF Get, Looking, PrefetchInv, WhereRead, PrefetchTyped, Chunk
<1>2. CASE at \in buffer
  BY <1>1, <1>2, NotOnItsWay, ServedStep DEF Get, PrefetchInv, PrefetchTyped
<1>3. CASE at \notin buffer
  <2>1. inflight[at] \in 0..Depth /\ Depth \in Nat
    BY <1>1, Sizes DEF PrefetchInv, PrefetchTyped
  <2>2. /\ UNCHANGED <<at, held, buffer, inflight, job, own, budget, gen, cached>>
        /\ read' = IF inflight[at] # 0 THEN [pc |-> "wait", i |-> inflight[at]]
                                       ELSE [pc |-> "look", i |-> 1]
    BY <1>3 DEF Get
  <2>3. CASE inflight[at] # 0
    <3>1. inflight[at] \in Jobs
      BY <2>1, <2>3 DEF Jobs
    <3>2. read' = [pc |-> "wait", i |-> inflight[at]]
      BY <2>2, <2>3
    <3>3. read' \in ReadAt /\ read'.pc = "wait" /\ read'.i = inflight[at]
      BY <3>1, <3>2, GoesToType
    <3> QED
      BY <1>1, <2>2, <3>1, <3>3, SearchStep
  <2>4. CASE inflight[at] = 0
    <3>1. read' = [pc |-> "look", i |-> 1]
      BY <2>2, <2>4
    <3>2. read' \in ReadAt /\ read'.pc = "look"
      BY <3>1, GoesToType
    <3> QED
      BY <1>1, <1>3, <2>2, <2>4, <3>2, SearchStep
  <2> QED
    BY <2>3, <2>4
<1> QED
  BY <1>2, <1>3

LEMMA WakesStep ==
  ASSUME PrefetchInv, Wakes
  PROVE  PrefetchInv'
<1>1. Looking /\ at \in Chunk /\ at < Chunks /\ read.i \in Jobs
  BY Sizes DEF Wakes, Looking, PrefetchInv, WhereRead, PrefetchTyped, Chunk
<1>2. inflight[at] = 0
  <2>1. job[read.i].step \notin Tracked
    BY DEF Wakes, Tracked
  <2> QED
    BY <1>1, <2>1 DEF Wakes, PrefetchInv, WhereRead, Entries, Jobs
<1>3. CASE at \in buffer
  BY <1>1, <1>3, NotOnItsWay, ServedStep DEF Wakes, PrefetchInv, PrefetchTyped
<1>4. CASE at \notin buffer
  <2>1. /\ UNCHANGED <<at, held, buffer, inflight, job, own, budget, gen, cached>>
        /\ read' = [pc |-> "look", i |-> 1]
    BY <1>4 DEF Wakes, GoesTo
  <2>2. read' \in ReadAt /\ read'.pc = "look"
    BY <2>1, GoesToType
  <2> QED
    BY <1>1, <1>2, <1>4, <2>1, <2>2, SearchStep
<1> QED
  BY <1>3, <1>4

LEMMA LookStep ==
  ASSUME PrefetchInv, Look \/ Fetched
  PROVE  PrefetchInv'
<1>0. read.pc \in {"look", "fetch"} /\ UNCHANGED <<buffer, inflight, job, own, budget, gen>>
  BY DEF Look, Fetched, fetchVars
<1>1. /\ Looking /\ at \in Chunk /\ at < Chunks
      /\ inflight[at] = 0 /\ at \notin buffer
      /\ UNCHANGED <<buffer, inflight, job, own, budget, gen>>
  <2>1. Looking
    BY <1>0 DEF Looking
  <2>2. at < Chunks /\ inflight[at] = 0 /\ at \notin buffer
    BY <1>0, <2>1 DEF PrefetchInv, WhereRead
  <2>3. at \in Chunk
    BY <2>2, Sizes DEF PrefetchInv, PrefetchTyped, Chunk
  <2> QED
    BY <1>0, <2>1, <2>2, <2>3
<1>2. CASE Served(at)
  <2>1. cached' \in SUBSET Chunk
    BY <1>1 DEF Look, Fetched, PrefetchInv, PrefetchTyped
  <2> QED
    BY <1>1, <1>2, <2>1, NotOnItsWay, ServedStep
<1>3. CASE ~Served(at)
  <2>1. UNCHANGED <<at, held, cached>> /\ read' = [pc |-> "fetch", i |-> 1]
    BY <1>3 DEF Look, Fetched, GoesTo
  <2>2. read' \in ReadAt /\ read'.pc = "fetch"
    BY <2>1, GoesToType
  <2> QED
    BY <1>1, <2>1, <2>2, SearchStep
<1> QED
  BY <1>2, <1>3

LEMMA ReadFailsStep ==
  ASSUME PrefetchInv, ReadFails
  PROVE  PrefetchInv'
<1>1. /\ Looking /\ read' = [pc |-> "idle", i |-> 1]
      /\ UNCHANGED <<at, held, buffer, inflight, job, own, budget, gen, cached>>
  BY DEF ReadFails, Looking, Idle, fetchVars
<1>2. read' \in ReadAt /\ read'.pc = "idle"
  BY <1>1, GoesToType
<1> QED
  BY <1>1, <1>2, SearchStep

\* A goroutine that starts fetches a chunk of the window.
LEMMA StartedStep ==
  ASSUME PrefetchInv, NEW j \in Jobs, NEW c \in Chunk,
         job[j] = Free, c \notin buffer, inflight[c] = 0,
         First <= c, c <= at + Depth,
         job' = [job EXCEPT ![j] = [step |-> "fetch", chunk |-> c, gen |-> gen]],
         inflight' = [inflight EXCEPT ![c] = j],
         First' = First, UNCHANGED <<at, gen, buffer>>
  PROVE  Entries' /\ Fetches' /\ BufferInWindow'
<1> USE DEF PrefetchInv, PrefetchTyped
<1>1. /\ \A k \in Jobs : k # j => job'[k] = job[k]
      /\ job'[j].step = "fetch" /\ job'[j].chunk = c /\ job'[j].gen = gen
      /\ \A d \in Chunk : d # c => inflight'[d] = inflight[d]
      /\ inflight'[c] = j
      /\ j # 0
  BY DEF Jobs
<1>2. job[j].step = "free"
  BY DEF Free
<1>3. \A k \in Jobs : job[k].step \in Tracked => job[k].chunk # c /\ job[k].chunk \in Chunk
  <2>1. \A k \in Jobs : job[k].chunk \in Chunk /\ k # 0
    BY DEF Jobs, Goroutine
  <2> QED
    BY <2>1 DEF Entries
<1>4. Entries'
  <2>1. ASSUME NEW k \in Jobs, job'[k].step \in Tracked
        PROVE  inflight'[job'[k].chunk] = k
    BY <1>1, <1>3, <2>1 DEF Entries
  <2>2. ASSUME NEW d \in Chunk, inflight'[d] # 0
        PROVE  job'[inflight'[d]].chunk = d /\ job'[inflight'[d]].step \in Tracked
    <3>1. CASE d = c
      BY <1>1, <3>1 DEF Tracked
    <3>2. CASE d # c
      <4>1. inflight[d] \in Jobs /\ inflight'[d] = inflight[d]
        BY <1>1, <2>2, <3>2, Sizes DEF Jobs
      <4>2. job[inflight[d]].chunk = d /\ job[inflight[d]].step \in Tracked
        BY <2>2, <4>1 DEF Entries
      <4>3. inflight[d] # j
        BY <1>2, <4>2 DEF Tracked
      <4> QED
        BY <1>1, <4>1, <4>2, <4>3
    <3> QED
      BY <3>1, <3>2
  <2> QED
    BY <2>1, <2>2 DEF Entries
<1>5. Fetches'
  <2> SUFFICES ASSUME NEW k \in Jobs
               PROVE  /\ job'[k].step = "free" => job'[k] = Free
                      /\ job'[k].gen <= gen
                      /\ Fetching(k)' => job'[k].chunk \notin buffer
                      /\ Fetching(k)' /\ job'[k].gen = gen =>
                           First <= job'[k].chunk /\ job'[k].chunk <= at + Depth
    BY DEF Fetches
  <2>1. CASE k = j
    BY <1>1, <2>1
  <2>2. CASE k # j
    BY <1>1, <2>2 DEF Fetches, Fetching
  <2> QED
    BY <2>1, <2>2
<1>6. BufferInWindow'
  BY DEF BufferInWindow
<1> QED
  BY <1>4, <1>5, <1>6

LEMMA FillStep ==
  ASSUME PrefetchInv, FillWindow
  PROVE  PrefetchInv'
<1>a. UNCHANGED <<at, held, buffer, gen, cached>> /\ (read.pc = "fill" \/ read.pc = "top up")
  BY DEF FillWindow
<1>b. read.i \in Nat \ {0} /\ Depth \in Nat /\ at \in Nat /\ held \in Nat
  BY Sizes DEF PrefetchInv, PrefetchTyped
<1>1. /\ at' = at /\ held' = held /\ buffer' = buffer /\ gen' = gen /\ cached' = cached
      /\ read.pc = "fill" \/ read.pc = "top up"
  BY <1>a
<1>2. CASE read.i <= Depth
  <2> DEFINE c == (IF read.pc = "fill" THEN at ELSE held) + read.i
  <2>1. TriggerPrefetch(c) /\ read' = [read EXCEPT !.i = @ + 1] /\ c \in Nat
    <3>1. TriggerPrefetch(c) /\ read' = [read EXCEPT !.i = @ + 1]
      BY <1>2, Zenon DEF FillWindow
    <3> QED
      BY <1>b, <3>1
  <2>2. read' \in ReadAt /\ read'.pc = read.pc
    <3>1. read \in ReadAt
      BY DEF PrefetchInv, PrefetchTyped, ReadAt
    <3>2. read.i + 1 \in 1..Depth + 1
      BY <1>b, <1>2
    <3> QED
      BY <2>1, <3>1, <3>2 DEF ReadAt
  <2>3. First' = First
    BY <1>1, <2>2 DEF First, Looking
  <2>4. WhereRead'
    BY <1>1, <2>2 DEF PrefetchInv, WhereRead, Looking
  <2>5. First <= c /\ c <= at + Depth
    <3>1. CASE read.pc = "fill"
      <4>1. Looking
        BY <3>1 DEF Looking
      <4>2. First = at /\ c = at + read.i
        BY <3>1, <4>1 DEF First
      <4> QED
        BY <1>b, <1>2, <4>2
    <3>2. CASE read.pc = "top up"
      <4>1. ~Looking
        BY <3>2 DEF Looking
      <4>2. held < Chunks /\ (held = NoChunk \/ at = held \/ at = held + 1)
        BY <3>2 DEF PrefetchInv, WhereRead
      <4>3. held # NoChunk
        BY <1>b, <4>2, Sizes DEF NoChunk
      <4>4. First = held + 1 /\ c = held + read.i
        BY <3>2, <4>1, <4>3 DEF First
      <4> QED
        BY <1>b, <1>2, <4>2, <4>3, <4>4
    <3> QED
      BY <1>1, <3>1, <3>2
  <2> HIDE DEF c
  <2>6. CASE UNCHANGED <<job, inflight, own, budget>>
    <3>1. PrefetchTyped'
      BY <1>1, <2>2, <2>6 DEF PrefetchInv, PrefetchTyped, ReadAt
    <3> QED
      BY <1>1, <2>3, <2>4, <2>6, <3>1, WindowKept DEF PrefetchInv
  <2>7. ASSUME NEW j \in Jobs, job[j] = Free, c \in Chunk, c \notin buffer, inflight[c] = 0,
               job' = [job EXCEPT ![j] = [step |-> "fetch", chunk |-> c, gen |-> gen]],
               inflight' = [inflight EXCEPT ![c] = j],
               own' = own + 1, budget' = [budget EXCEPT !.mine = @ + 1],
               budget.mine + budget.others < Budget
        PROVE  PrefetchInv'
    <3>1. PrefetchTyped'
      <4>1. job' \in [Jobs -> Goroutine]
        <5>1. [step |-> "fetch", chunk |-> c, gen |-> gen] \in Goroutine
          BY <2>7 DEF PrefetchInv, PrefetchTyped, Goroutine, Steps, Tracked
        <5> QED
          BY <2>7, <5>1 DEF PrefetchInv, PrefetchTyped
      <4>2. inflight' \in [Chunk -> 0..Depth]
        BY <1>b, <2>7 DEF PrefetchInv, PrefetchTyped, Jobs
      <4>3. /\ budget' \in [mine: Nat, others: Nat] /\ budget'.mine + budget'.others <= Budget
            /\ own' \in Nat
        BY <2>7, Sizes DEF PrefetchInv, PrefetchTyped
      <4> QED
        BY <1>1, <2>2, <4>1, <4>2, <4>3 DEF PrefetchInv, PrefetchTyped, ReadAt
    <3>2. SlotsReturned'
      <4>1. gen \in Nat
        BY DEF PrefetchInv, PrefetchTyped
      <4> QED
        BY <2>7, <4>1, StartSlots
    <3>3. Entries' /\ Fetches' /\ BufferInWindow'
      BY <1>1, <2>3, <2>5, <2>7, StartedStep
    <3> QED
      BY <2>4, <3>1, <3>2, <3>3 DEF PrefetchInv
  <2> QED
    BY <2>1, <2>6, <2>7, StartStep
<1>3. CASE ~(read.i <= Depth)
  <2>1. /\ read' = [pc |-> IF read.pc = "fill" THEN "get" ELSE "idle", i |-> 1]
        /\ UNCHANGED <<job, inflight, own, budget>>
    BY <1>3 DEF FillWindow, GoesTo
  <2>2. read' \in ReadAt /\ read'.pc = IF read.pc = "fill" THEN "get" ELSE "idle"
    BY <2>1, GoesToType
  <2>3. CASE read.pc = "fill"
    BY <1>1, <2>1, <2>2, <2>3, SearchStep DEF Looking
  <2>4. CASE read.pc = "top up"
    <3>1. ~Looking /\ ~Looking' /\ read'.pc = "idle"
      BY <2>2, <2>4 DEF Looking
    <3>2. First' = First
      BY <1>1, <3>1 DEF First
    <3>3. WhereRead'
      BY <1>1, <3>1 DEF PrefetchInv, WhereRead
    <3>4. PrefetchTyped'
      BY <1>1, <2>1, <2>2 DEF PrefetchInv, PrefetchTyped, ReadAt
    <3> QED
      BY <1>1, <2>1, <3>2, <3>3, <3>4, WindowKept DEF PrefetchInv
  <2> QED
    BY <1>1, <2>3, <2>4
<1> QED
  BY <1>2, <1>3

-----------------------------------------------------------------------------
(* Seek, the goroutines, and what is around the reader *)

LEMMA SeekStep ==
  ASSUME PrefetchInv, NEW c \in 0..Chunks, Seek(c)
  PROVE  PrefetchInv'
<1>0. gen \in Nat /\ Chunks \in Nat
  BY Sizes DEF PrefetchInv, PrefetchTyped
<1>1. /\ at' = c /\ held' = NoChunk /\ buffer' = {} /\ gen' = gen + 1
      /\ UNCHANGED <<read, inflight, job, own, budget, cached>>
      /\ read.pc = "idle"
  BY DEF Seek
<1>2. PrefetchTyped'
  BY <1>0, <1>1 DEF PrefetchInv, PrefetchTyped, NoChunk
<1>3. WhereRead'
  BY <1>1 DEF WhereRead, Looking
<1>4. Entries' /\ SlotsReturned'
  BY <1>1 DEF PrefetchInv, Entries, SlotsReturned
<1>5. Fetches'
  <2>1. \A j \in Jobs : job[j].gen \in Nat
    BY DEF PrefetchInv, PrefetchTyped, Goroutine
  <2>2. \A j \in Jobs : job[j].gen <= gen /\ (job[j].step = "free" => job[j] = Free)
    BY DEF PrefetchInv, Fetches
  <2>3. \A j \in Jobs : job[j].gen <= gen' /\ job[j].gen # gen'
    BY <1>0, <1>1, <2>1, <2>2
  <2> QED
    BY <1>1, <2>2, <2>3 DEF Fetches
<1>6. BufferInWindow'
  BY <1>1 DEF BufferInWindow
<1> QED
  BY <1>2, <1>3, <1>4, <1>5, <1>6 DEF PrefetchInv

\* A goroutine takes a step: its chunk and generation stay.
LEMMA StepsType ==
  ASSUME PrefetchInv, NEW j \in Jobs, NEW to \in Steps, Step(j, to)
  PROVE  /\ job' \in [Jobs -> Goroutine]
         /\ job'[j].step = to /\ job'[j].chunk = job[j].chunk /\ job'[j].gen = job[j].gen
         /\ \A k \in Jobs : k # j => job'[k] = job[k]
<1>1. job \in [Jobs -> Goroutine] /\ job[j] \in Goroutine
  BY DEF PrefetchInv, PrefetchTyped
<1>2. job' = [job EXCEPT ![j] = [@ EXCEPT !.step = to]]
  BY DEF Step
<1> QED
  BY <1>1, <1>2 DEF Goroutine

\* It goes on between two steps that inflight, the two slots and the window do not tell
\* apart.
LEMMA GoesOn ==
  ASSUME PrefetchInv, NEW j \in Jobs, NEW to \in Steps, Step(j, to),
         UNCHANGED <<at, held, read, buffer, gen, inflight, own, budget>>,
         cached' \in SUBSET Chunk,
         job[j].step \in Tracked <=> to \in Tracked,
         job[j].step # "free" /\ to # "free",
         job[j].step # "half" <=> to # "half",
         to \in {"fetch", "fetched"} => Fetching(j)
  PROVE  PrefetchInv'
<1>1. /\ job' \in [Jobs -> Goroutine]
      /\ job'[j].step = to /\ job'[j].chunk = job[j].chunk /\ job'[j].gen = job[j].gen
      /\ \A k \in Jobs : k # j => job'[k] = job[k]
  BY StepsType
<1>2. First' = First /\ WhereRead'
  BY DEF First, Looking, PrefetchInv, WhereRead
<1>3. PrefetchTyped'
  BY <1>1 DEF PrefetchInv, PrefetchTyped
<1>4. Entries'
  <2>1. \A k \in Jobs : /\ job'[k].step \in Tracked <=> job[k].step \in Tracked
                        /\ job'[k].chunk = job[k].chunk
    BY <1>1
  <2>2. \A c \in Chunk : inflight[c] # 0 => inflight[c] \in Jobs
    BY Sizes DEF PrefetchInv, PrefetchTyped, Jobs
  <2> QED
    BY <2>1, <2>2 DEF PrefetchInv, Entries
<1>5. Fetches'
  <2>1. \A k \in Jobs : /\ Fetching(k)' => Fetching(k)
                        /\ job'[k].chunk = job[k].chunk /\ job'[k].gen = job[k].gen
                        /\ job'[k].step = "free" => job'[k] = job[k] /\ job[k].step = "free"
    BY <1>1 DEF Fetching
  <2> QED
    BY <1>2, <2>1 DEF PrefetchInv, Fetches
<1>6. BufferInWindow'
  BY <1>2 DEF PrefetchInv, BufferInWindow
<1>7. SlotsReturned'
  <2>1. \A k \in Jobs : job'[k] # Free <=> job[k] # Free
    BY <1>1 DEF Free
  <2>2. \A k \in Jobs : job'[k].step \notin {"free", "half"} <=> job[k].step \notin {"free", "half"}
    BY <1>1
  <2>3. Running' = Running /\ Charged' = Charged
    BY <2>1, <2>2 DEF Running, Charged
  <2> QED
    BY <2>3 DEF PrefetchInv, SlotsReturned, Running, Charged
<1> QED
  BY <1>2, <1>3, <1>4, <1>5, <1>6, <1>7 DEF PrefetchInv

LEMMA PrefetchDoneStep ==
  ASSUME PrefetchInv, NEW j \in Jobs, PrefetchDone(j)
  PROVE  PrefetchInv'
<1>1. /\ job[j].step = "fetch"
      /\ UNCHANGED <<at, held, read, buffer, gen, inflight, own, budget>>
      /\ Step(j, "fetched") \/ Step(j, "stored")
  BY DEF PrefetchDone
<1>2. cached' \in SUBSET Chunk
  BY DEF PrefetchDone, PrefetchInv, PrefetchTyped, Goroutine
<1> QED
  BY <1>1, <1>2, GoesOn DEF Steps, Tracked, Fetching

LEMMA LeaveClosed ==
  ASSUME PrefetchInv, NEW j \in Jobs, Leave(j), job[j].step = "left"
  PROVE  PrefetchInv'
<1>1. /\ Step(j, "closed")
      /\ UNCHANGED <<at, held, read, buffer, gen, inflight, own, budget, cached>>
  BY DEF Leave
<1>2. cached' \in SUBSET Chunk
  BY <1>1 DEF PrefetchInv, PrefetchTyped
<1> QED
  BY <1>1, <1>2, GoesOn DEF Steps, Tracked, Fetching

\* The chunk goes into the buffer, if it was fetched for the position.
LEMMA StoreStep ==
  ASSUME PrefetchInv, NEW j \in Jobs, Store(j)
  PROVE  PrefetchInv'
<1>1. /\ job[j].step = "fetched" /\ Step(j, "stored")
      /\ buffer' = buffer \cup {c \in {job[j].chunk} : job[j].gen = gen}
      /\ UNCHANGED <<at, held, read, inflight, gen, own, budget, cached>>
  BY DEF Store
<1>2. /\ job' \in [Jobs -> Goroutine]
      /\ job'[j].step = "stored" /\ job'[j].chunk = job[j].chunk /\ job'[j].gen = job[j].gen
      /\ \A k \in Jobs : k # j => job'[k] = job[k]
  BY <1>1, StepsType DEF Steps, Tracked
<1>3. \A k \in Jobs : job[k].chunk \in Chunk /\ k # 0
  BY DEF PrefetchInv, PrefetchTyped, Goroutine, Jobs
<1>4. First' = First
  BY <1>1 DEF First, Looking
<1>5. PrefetchTyped'
  BY <1>1, <1>2, <1>3 DEF PrefetchInv, PrefetchTyped
<1>6. WhereRead'
  <2>1. read.pc \in {"look", "fetch"} => at # job[j].chunk
    <3>1. inflight[job[j].chunk] = j /\ j # 0
      BY <1>1, <1>3 DEF PrefetchInv, Entries, Tracked
    <3>2. read.pc \in {"look", "fetch"} => inflight[at] = 0
      BY DEF PrefetchInv, WhereRead
    <3> QED
      BY <3>1, <3>2
  <2> QED
    BY <1>1, <2>1 DEF PrefetchInv, WhereRead, Looking
<1>7. Entries'
  <2>1. \A k \in Jobs : /\ job'[k].step \in Tracked <=> job[k].step \in Tracked
                        /\ job'[k].chunk = job[k].chunk
    BY <1>1, <1>2 DEF Tracked
  <2>2. \A c \in Chunk : inflight[c] # 0 => inflight[c] \in Jobs
    BY Sizes DEF PrefetchInv, PrefetchTyped, Jobs
  <2> QED
    BY <1>1, <2>1, <2>2 DEF PrefetchInv, Entries
<1>8. Fetches'
  <2>1. \A k \in Jobs : /\ Fetching(k)' => Fetching(k) /\ k # j
                        /\ job'[k].chunk = job[k].chunk /\ job'[k].gen = job[k].gen
                        /\ job'[k].step = "free" => job'[k] = job[k] /\ job[k].step = "free"
    BY <1>2 DEF Fetching
  <2>2. \A k \in Jobs : Fetching(k) /\ k # j => job[k].chunk # job[j].chunk
    BY <1>1, <1>3 DEF PrefetchInv, Entries, Fetching, Tracked
  <2> QED
    BY <1>1, <1>4, <2>1, <2>2 DEF PrefetchInv, Fetches
<1>9. BufferInWindow'
  <2>1. job[j].gen = gen => First <= job[j].chunk /\ job[j].chunk <= at + Depth
    BY <1>1 DEF PrefetchInv, Fetches, Fetching
  <2> QED
    BY <1>1, <1>4, <2>1 DEF PrefetchInv, BufferInWindow
<1>a. SlotsReturned'
  <2>1. \A k \in Jobs : job'[k] # Free <=> job[k] # Free
    BY <1>1, <1>2 DEF Free
  <2>2. \A k \in Jobs : job'[k].step \notin {"free", "half"} <=> job[k].step \notin {"free", "half"}
    BY <1>1, <1>2
  <2>3. Running' = Running /\ Charged' = Charged
    BY <2>1, <2>2 DEF Running, Charged
  <2> QED
    BY <1>1, <2>3 DEF PrefetchInv, SlotsReturned, Running, Charged
<1> QED
  BY <1>5, <1>6, <1>7, <1>8, <1>9, <1>a DEF PrefetchInv

LEMMA LeaveEntry ==
  ASSUME PrefetchInv, NEW j \in Jobs, Leave(j), job[j].step = "stored"
  PROVE  PrefetchInv'
<1> DEFINE c == job[j].chunk
<1>1. /\ Step(j, "left")
      /\ inflight' = [inflight EXCEPT ![c] = IF @ = j THEN 0 ELSE @]
      /\ UNCHANGED <<at, held, read, buffer, gen, own, budget, cached>>
  BY DEF Leave
<1>2. /\ job' \in [Jobs -> Goroutine]
      /\ job'[j].step = "left" /\ job'[j].chunk = c /\ job'[j].gen = job[j].gen
      /\ \A k \in Jobs : k # j => job'[k] = job[k]
  BY <1>1, StepsType DEF Steps
<1>3. c \in Chunk /\ inflight[c] = j /\ j \in 1..Depth /\ Depth \in Nat
  BY Sizes DEF PrefetchInv, PrefetchTyped, Goroutine, Entries, Tracked, Jobs
<1>4. /\ inflight' \in [Chunk -> 0..Depth] /\ inflight'[c] = 0
      /\ \A d \in Chunk : d # c => inflight'[d] = inflight[d]
  BY <1>1, <1>3 DEF PrefetchInv, PrefetchTyped
<1> HIDE DEF c
<1>5. First' = First
  BY <1>1 DEF First, Looking
<1>6. PrefetchTyped'
  BY <1>1, <1>2, <1>4 DEF PrefetchInv, PrefetchTyped
<1>7. WhereRead'
  <2>1. Looking => at \in Chunk
    <3>1. Looking => at < Chunks
      BY DEF PrefetchInv, WhereRead
    <3>2. at \in 0..Chunks
      BY DEF PrefetchInv, PrefetchTyped
    <3> QED
      BY <3>1, <3>2, Sizes DEF Chunk
  <2>2. Looking => inflight'[at] \in {0, inflight[at]}
    BY <1>4, <2>1
  <2>3. read.pc \in {"wait", "look", "fetch"} => Looking
    BY DEF Looking
  <2> QED
    BY <1>1, <2>2, <2>3 DEF PrefetchInv, WhereRead, Looking
<1>8. Entries'
  <2>1. ASSUME NEW k \in Jobs, job'[k].step \in Tracked
        PROVE  inflight'[job'[k].chunk] = k
    <3>1. k # j /\ job'[k] = job[k]
      BY <1>2, <2>1 DEF Tracked
    <3>2. inflight[job[k].chunk] = k /\ job[k].chunk \in Chunk
      BY <2>1, <3>1 DEF PrefetchInv, PrefetchTyped, Entries, Goroutine
    <3> QED
      BY <1>3, <1>4, <3>1, <3>2
  <2>2. ASSUME NEW d \in Chunk, inflight'[d] # 0
        PROVE  job'[inflight'[d]].chunk = d /\ job'[inflight'[d]].step \in Tracked
    <3>1. inflight'[d] = inflight[d] /\ d # c /\ inflight[d] \in Jobs
      BY <1>3, <1>4, <2>2 DEF PrefetchInv, PrefetchTyped, Jobs
    <3>2. job[inflight[d]].chunk = d /\ job[inflight[d]].step \in Tracked
      BY <2>2, <3>1 DEF PrefetchInv, Entries
    <3>3. inflight[d] # j
      BY <3>1, <3>2 DEF c
    <3> QED
      BY <1>2, <3>1, <3>2, <3>3
  <2> QED
    BY <2>1, <2>2 DEF Entries
<1>9. Fetches'
  <2>1. \A k \in Jobs : /\ Fetching(k)' => Fetching(k)
                        /\ job'[k].chunk = job[k].chunk /\ job'[k].gen = job[k].gen
                        /\ job'[k].step = "free" => job'[k] = job[k] /\ job[k].step = "free"
    BY <1>2 DEF Fetching, c
  <2> QED
    BY <1>1, <1>5, <2>1 DEF PrefetchInv, Fetches
<1>a. BufferInWindow'
  BY <1>1, <1>5 DEF PrefetchInv, BufferInWindow
<1>b. SlotsReturned'
  <2>1. \A k \in Jobs : job'[k] # Free <=> job[k] # Free
    BY <1>2 DEF Free
  <2>2. \A k \in Jobs : job'[k].step \notin {"free", "half"} <=> job[k].step \notin {"free", "half"}
    BY <1>2
  <2>3. Running' = Running /\ Charged' = Charged
    BY <2>1, <2>2 DEF Running, Charged
  <2> QED
    BY <1>1, <2>3 DEF PrefetchInv, SlotsReturned, Running, Charged
<1> QED
  BY <1>6, <1>7, <1>8, <1>9, <1>a, <1>b DEF PrefetchInv

\* The slots are given back, that of the program first.
LEMMA LeaveSlots ==
  ASSUME PrefetchInv, NEW j \in Jobs, Leave(j), job[j].step \in {"closed", "half"}
  PROVE  PrefetchInv'
<1>1. /\ UNCHANGED <<at, held, read, buffer, gen, cached, inflight>>
      /\ \/ /\ job[j].step = "closed" /\ Step(j, "half")
            /\ budget' = [budget EXCEPT !.mine = @ - 1] /\ UNCHANGED own
         \/ /\ job[j].step = "half" /\ job' = [job EXCEPT ![j] = Free]
            /\ own' = own - 1 /\ UNCHANGED budget
  BY DEF Leave
<1>2. /\ job' \in [Jobs -> Goroutine]
      /\ \/ job[j].step = "closed" /\ job'[j].step = "half" /\ job'[j].gen = job[j].gen
         \/ job[j].step = "half" /\ job'[j] = Free
      /\ \A k \in Jobs : k # j => job'[k] = job[k]
  <2>1. CASE Step(j, "half") /\ job[j].step = "closed"
    BY <2>1, StepsType DEF Steps
  <2>2. CASE job' = [job EXCEPT ![j] = Free] /\ job[j].step = "half"
    <3>1. Free \in Goroutine
      BY Sizes DEF Free, Goroutine, Steps
    <3> QED
      BY <2>2, <3>1 DEF PrefetchInv, PrefetchTyped
  <2> QED
    BY <1>1, <2>1, <2>2
<1>3. First' = First /\ WhereRead'
  BY <1>1 DEF First, Looking, PrefetchInv, WhereRead
<1>4. Entries'
  <2>1. \A c \in Chunk : inflight[c] # 0 => inflight[c] \in Jobs
    BY Sizes DEF PrefetchInv, PrefetchTyped, Jobs
  <2>2. job[j].step \notin Tracked /\ job'[j].step \notin Tracked
    BY <1>2 DEF Tracked, Free
  <2> QED
    BY <1>1, <1>2, <2>1, <2>2 DEF PrefetchInv, Entries
<1>5. Fetches'
  <2>1. ~Fetching(j)' /\ job'[j].gen <= gen /\ (job'[j].step = "free" => job'[j] = Free)
    <3>1. job[j].gen <= gen /\ 0 <= gen
      BY DEF PrefetchInv, Fetches, PrefetchTyped
    <3> QED
      BY <1>2, <3>1 DEF Fetching, Free
  <2>2. \A k \in Jobs : k # j => (Fetching(k)' <=> Fetching(k))
    BY <1>2 DEF Fetching
  <2> QED
    BY <1>1, <1>2, <1>3, <2>1, <2>2 DEF PrefetchInv, Fetches
<1>6. BufferInWindow'
  BY <1>1, <1>3 DEF PrefetchInv, BufferInWindow
<1>7. own = Cardinality(Running) /\ budget.mine = Cardinality(Charged)
  BY DEF PrefetchInv, SlotsReturned, Running, Charged
<1>8. Running \in SUBSET Jobs /\ Charged \in SUBSET Jobs /\ own \in Nat
      /\ budget \in [mine: Nat, others: Nat] /\ budget.mine + budget.others <= Budget
      /\ Budget \in Nat
  BY Sizes DEF Running, Charged, PrefetchInv, PrefetchTyped
<1>9. CASE job[j].step = "closed"
  <2>1. Running' = Running
    BY <1>2, <1>9 DEF Running, Free
  <2>2. Charged' = Charged \ {j} /\ j \in Charged
    BY <1>2, <1>9 DEF Charged
  <2>3. budget' = [budget EXCEPT !.mine = @ - 1] /\ own' = own
    BY <1>1, <1>9
  <2>4. Cardinality(Charged') = budget.mine - 1 /\ budget.mine > 0
    BY <1>7, <1>8, <2>2, OneMore
  <2>5. /\ budget' \in [mine: Nat, others: Nat] /\ budget'.mine + budget'.others <= Budget
        /\ budget'.mine = budget.mine - 1
    BY <1>8, <2>3, <2>4
  <2>6. SlotsReturned'
    BY <1>7, <2>1, <2>3, <2>4, <2>5 DEF SlotsReturned, Running, Charged
  <2>7. PrefetchTyped'
    BY <1>1, <1>2, <2>3, <2>5 DEF PrefetchInv, PrefetchTyped
  <2> QED
    BY <1>3, <1>4, <1>5, <1>6, <2>6, <2>7 DEF PrefetchInv
<1>a. CASE job[j].step = "half"
  <2>1. Running' = Running \ {j} /\ j \in Running
    BY <1>2, <1>a DEF Running, Free
  <2>2. Charged' = Charged
    BY <1>2, <1>a DEF Charged, Free
  <2>3. own' = own - 1 /\ budget' = budget
    BY <1>1, <1>a
  <2>4. Cardinality(Running') = own - 1 /\ own > 0
    BY <1>7, <1>8, <2>1, OneMore
  <2>6. SlotsReturned'
    BY <1>7, <2>2, <2>3, <2>4 DEF SlotsReturned, Running, Charged
  <2>7. PrefetchTyped'
    BY <1>1, <1>2, <1>8, <2>3, <2>4 DEF PrefetchInv, PrefetchTyped
  <2> QED
    BY <1>3, <1>4, <1>5, <1>6, <2>6, <2>7 DEF PrefetchInv
<1> QED
  BY <1>9, <1>a

LEMMA AroundStep ==
  ASSUME PrefetchInv, Others \/ Close \/ UNCHANGED readerVars
  PROVE  PrefetchInv'
<1>1. UNCHANGED <<at, held, read, buffer, inflight, job, gen, own>>
  BY DEF Others, Close, readerVars, fetchVars
<1>2. cached' \in SUBSET Chunk
  BY DEF Others, Close, readerVars, fetchVars, PrefetchInv, PrefetchTyped, Chunk
<1>3. /\ budget' \in [mine: Nat, others: Nat] /\ budget'.mine = budget.mine
      /\ budget'.mine + budget'.others <= Budget
  <2>1. /\ budget \in [mine: Nat, others: Nat] /\ budget.mine + budget.others <= Budget
        /\ Budget \in Nat
    BY Sizes DEF PrefetchInv, PrefetchTyped
  <2>2. CASE UNCHANGED budget
    BY <2>1, <2>2
  <2>3. ASSUME NEW n \in 0..Budget - budget.mine, budget' = [budget EXCEPT !.others = n]
        PROVE  /\ budget' \in [mine: Nat, others: Nat] /\ budget'.mine = budget.mine
               /\ budget'.mine + budget'.others <= Budget
    BY <2>1, <2>3
  <2> QED
    BY <2>2, <2>3 DEF Others, Close, readerVars, fetchVars
<1>4. PrefetchTyped'
  BY <1>1, <1>2, <1>3 DEF PrefetchInv, PrefetchTyped
<1>5. WhereRead' /\ Entries' /\ Fetches' /\ BufferInWindow'
  BY <1>1 DEF PrefetchInv, WhereRead, Looking, Entries, Fetches, Fetching, First, BufferInWindow
<1>6. SlotsReturned'
  BY <1>1, <1>3 DEF PrefetchInv, SlotsReturned
<1> QED
  BY <1>4, <1>5, <1>6 DEF PrefetchInv

LEMMA InitPrefetch == ReaderInit => PrefetchInv
<1> SUFFICES ASSUME ReaderInit PROVE PrefetchInv
  OBVIOUS
<1>1. PrefetchTyped
  <2>1. read \in ReadAt
    BY GoesToType DEF ReaderInit, Idle
  <2>2. job \in [Jobs -> Goroutine]
    BY Sizes DEF ReaderInit, Free, Goroutine, Steps
  <2>3. inflight \in [Chunk -> 0..Depth]
    BY Sizes DEF ReaderInit, Chunk
  <2>4. at \in 0..Chunks /\ held \in 0..Chunks /\ gen \in Nat /\ own \in Nat
    BY Sizes DEF ReaderInit, NoChunk
  <2>5. budget \in [mine: Nat, others: Nat] /\ budget.mine + budget.others <= Budget
    BY Sizes DEF ReaderInit
  <2> QED
    BY <2>1, <2>2, <2>3, <2>4, <2>5 DEF ReaderInit, PrefetchTyped, ReadAt
<1>2. WhereRead /\ Entries /\ BufferInWindow
  <2>1. \A c \in Chunk : inflight[c] = 0
    BY DEF ReaderInit, Chunk
  <2> QED
    BY <2>1 DEF ReaderInit, WhereRead, Looking, Idle, Entries, Tracked, Free, BufferInWindow
<1>3. Fetches
  <2>1. \A j \in Jobs : job[j] = Free /\ ~Fetching(j)
    BY DEF ReaderInit, Fetching, Free
  <2>2. gen = 0 /\ Free.gen = 0
    BY DEF ReaderInit, Free
  <2> QED
    BY <2>1, <2>2 DEF Fetches
<1>4. SlotsReturned
  <2>1. {j \in Jobs : job[j] # Free} = {} /\ {j \in Jobs : job[j].step \notin {"free", "half"}} = {}
    BY DEF ReaderInit, Free
  <2> QED
    BY <2>1, FS_EmptySet DEF ReaderInit, SlotsReturned
<1> QED
  BY <1>1, <1>2, <1>3, <1>4 DEF PrefetchInv

LEMMA NextPrefetch == PrefetchInv /\ [Next]_vars => PrefetchInv'
<1> SUFFICES ASSUME PrefetchInv, [Next]_vars PROVE PrefetchInv'
  OBVIOUS
<1>1. ReaderNext \/ UNCHANGED readerVars
  BY DEF Next, GetTelegramFileReader, vars
<1>2. CASE UNCHANGED readerVars \/ Others \/ Close
  BY <1>2, AroundStep
<1>3. CASE ReadStarts \/ FillWindow \/ Get \/ Wakes \/ Look \/ Fetched \/ ReadFails
  BY <1>3, ReadStartsStep, FillStep, GetStep, WakesStep, LookStep, ReadFailsStep
<1>4. ASSUME NEW c \in 0..Chunks, Seek(c) PROVE PrefetchInv'
  BY <1>4, SeekStep
<1>5. ASSUME NEW j \in Jobs, PrefetchDone(j) \/ Store(j) PROVE PrefetchInv'
  BY <1>5, PrefetchDoneStep, StoreStep
<1>6. ASSUME NEW j \in Jobs, Leave(j) PROVE PrefetchInv'
  <2>1. job[j].step \in {"stored", "left", "closed", "half"}
    BY <1>6 DEF Leave
  <2> QED
    BY <1>6, <2>1, LeaveEntry, LeaveClosed, LeaveSlots
<1> QED
  BY <1>1, <1>2, <1>3, <1>4, <1>5, <1>6 DEF ReaderNext

LEMMA PrefetchInvariant == Spec => []PrefetchInv
<1>1. Init => PrefetchInv
  BY InitPrefetch DEF Init
<1> QED
  BY <1>1, NextPrefetch, PTL DEF Spec

\* The buffer of tgFileReader holds only chunks of the window behind the position: what a
\* goroutine fetched for a position that Seek has left is not stored, and what Read has
\* served is not kept, whatever the number of chunks, goroutines and seeks.
THEOREM BufferFollowsSeeks == Spec => []BufferInWindow
<1>1. PrefetchInv => BufferInWindow
  BY DEF PrefetchInv
<1> QED
  BY <1>1, PrefetchInvariant, PTL

-----------------------------------------------------------------------------
(* Where the parts start *)

\* Induction over the elements of a set.
LEMMA SetInduction ==
  ASSUME NEW S, 0 \in S, \A n \in Nat : n \in S => n + 1 \in S
  PROVE  Nat \subseteq S
<1> DEFINE R == OpToRel(<, Nat)
<1> DEFINE T == {n \in Nat : n \notin S}
<1> SUFFICES ASSUME T # {} PROVE FALSE
  OBVIOUS
<1>1. PICK k \in T : \A j \in T : ~(<<j, k>> \in R)
  <2> HIDE DEF R
  <2>1. IsWellFoundedOn(R, Nat)
    BY NatLessThanWellFounded DEF R
  <2>2. T \subseteq Nat /\ T # {}
    OBVIOUS
  <2> QED
    BY <2>1, <2>2, WFMin
<1>2. k \in Nat /\ k # 0
  OBVIOUS
<1>3. k - 1 \in Nat /\ k - 1 < k /\ (k - 1) + 1 = k
  BY <1>2
<1>4. <<k - 1, k>> \in R
  BY <1>2, <1>3 DEF OpToRel
<1>5. k - 1 \in S
  BY <1>1, <1>3, <1>4
<1> QED
  BY <1>3, <1>5

LEMMA PartSizes ==
  /\ Parts \in Nat \ {0} /\ PartNumbers = 0..Parts - 1
  /\ \A i \in PartNumbers : Size[i] \in Nat \ {0}
<1>1. Parts \in Nat
  BY PartAssumption, FS_CardinalityType DEF Parts, PartNumbers
<1> QED
  BY <1>1, PartAssumption DEF Parts, PartNumbers

\* The starts of the first parts, up to part n.
Starts(g, n) == g = [i \in 0..n |-> IF i = 0 THEN 0 ELSE g[i - 1] + Size[i - 1]]

LEMMA StartsExist == \E g : Starts(g, Parts)
<1> DEFINE S == {n \in Nat : n <= Parts => \E g : Starts(g, n)}
<1>1. 0 \in S
  <2>1. Starts([i \in 0..0 |-> 0], 0)
    BY DEF Starts
  <2> QED
    BY <2>1
<1>2. ASSUME NEW n \in Nat, n \in S
      PROVE  n + 1 \in S
  <2> SUFFICES ASSUME n + 1 <= Parts
               PROVE  \E g : Starts(g, n + 1)
    OBVIOUS
  <2>1. PICK g : Starts(g, n)
    BY <1>2, PartSizes
  <2> DEFINE h == [i \in 0..n + 1 |-> IF i = n + 1 THEN g[n] + Size[n] ELSE g[i]]
  <2>2. ASSUME NEW i \in 0..n + 1
        PROVE  h[i] = IF i = 0 THEN 0 ELSE h[i - 1] + Size[i - 1]
    <3>1. CASE i = n + 1
      BY <3>1
    <3>2. CASE i # n + 1
      <4>1. i \in 0..n
        BY <3>2
      <4>2. g[i] = IF i = 0 THEN 0 ELSE g[i - 1] + Size[i - 1]
        BY <2>1, <4>1 DEF Starts
      <4>3. i # 0 => i - 1 \in 0..n /\ i - 1 # n + 1
        BY <4>1
      <4> QED
        BY <3>2, <4>2, <4>3
    <3> QED
      BY <3>1, <3>2
  <2>3. h = [i \in 0..n + 1 |-> IF i = 0 THEN 0 ELSE h[i - 1] + Size[i - 1]]
    <3>1. h = [i \in 0..n + 1 |-> h[i]]
      OBVIOUS
    <3> HIDE DEF h
    <3> QED
      BY <2>2, <3>1
  <2> HIDE DEF h
  <2> QED
    BY <2>3 DEF Starts
<1> HIDE DEF S
<1>3. Nat \subseteq S
  BY <1>1, <1>2, SetInduction
<1> QED
  BY <1>3, PartSizes DEF S

LEMMA StartOfEquation ==
  /\ StartOf[0] = 0
  /\ \A i \in PartNumbers : StartOf[i + 1] = StartOf[i] + Size[i]
<1>1. StartOf = CHOOSE g : Starts(g, Parts)
  BY DEF StartOf, Starts
<1>2. Starts(StartOf, Parts)
  BY <1>1, StartsExist
<1> QED
  BY <1>2, PartSizes DEF Starts

LEMMA StartOfType == \A i \in 0..Parts : StartOf[i] \in Nat
<1> DEFINE S == {n \in Nat : n <= Parts => StartOf[n] \in Nat}
<1>1. 0 \in S
  BY StartOfEquation
<1>2. ASSUME NEW n \in Nat, n \in S
      PROVE  n + 1 \in S
  <2>1. CASE n + 1 <= Parts
    <3>1. n \in PartNumbers /\ n <= Parts
      BY <2>1, PartSizes
    <3>2. StartOf[n + 1] = StartOf[n] + Size[n] /\ StartOf[n] \in Nat /\ Size[n] \in Nat
      BY <1>2, <3>1, StartOfEquation, PartSizes
    <3> QED
      BY <3>2
  <2>2. CASE ~(n + 1 <= Parts)
    BY <2>2
  <2> QED
    BY <2>1, <2>2
<1> HIDE DEF S
<1>3. Nat \subseteq S
  BY <1>1, <1>2, SetInduction
<1> QED
  BY <1>3, PartSizes DEF S

\* A part that comes later starts later.
LEMMA StartOfOrder ==
  ASSUME NEW i \in 0..Parts, NEW j \in 0..Parts, i < j
  PROVE  StartOf[i] < StartOf[j]
<1> DEFINE S == {n \in Nat : i < n /\ n <= Parts => StartOf[i] < StartOf[n]}
<1>0. Parts \in Nat /\ i \in Nat /\ j \in Nat /\ j <= Parts
  BY PartSizes
<1>1. 0 \in S
  BY <1>0
<1>2. ASSUME NEW n \in Nat, n \in S
      PROVE  n + 1 \in S
  <2> SUFFICES ASSUME i < n + 1, n + 1 <= Parts
               PROVE  StartOf[i] < StartOf[n + 1]
    OBVIOUS
  <2>1. n \in PartNumbers /\ n \in 0..Parts
    BY <1>0, PartSizes
  <2>2. StartOf[n + 1] = StartOf[n] + Size[n] /\ Size[n] \in Nat \ {0}
    BY <2>1, StartOfEquation, PartSizes
  <2>3. StartOf[n] \in Nat /\ StartOf[i] \in Nat
    BY <2>1, StartOfType
  <2>4. i = n \/ StartOf[i] < StartOf[n]
    BY <1>0, <1>2
  <2> QED
    BY <2>2, <2>3, <2>4
<1> HIDE DEF S
<1>3. Nat \subseteq S
  BY <1>1, <1>2, SetInduction
<1> QED
  BY <1>0, <1>3 DEF S

Holds(i, o) == StartOf[i] <= o /\ o < StartOf[i + 1]

LEMMA PartFound ==
  ASSUME NEW o \in Nat, o < Total
  PROVE  \E i \in PartNumbers : Holds(i, o)
<1> DEFINE S == {n \in Nat : n <= Parts /\ o < StartOf[n] => \E i \in PartNumbers : Holds(i, o)}
<1>1. 0 \in S
  BY StartOfEquation
<1>2. ASSUME NEW n \in Nat, n \in S
      PROVE  n + 1 \in S
  <2> SUFFICES ASSUME n + 1 <= Parts, o < StartOf[n + 1]
               PROVE  \E i \in PartNumbers : Holds(i, o)
    OBVIOUS
  <2>1. n \in PartNumbers /\ n \in 0..Parts /\ n <= Parts
    BY PartSizes
  <2>2. CASE o < StartOf[n]
    BY <1>2, <2>1, <2>2
  <2>3. CASE ~(o < StartOf[n])
    <3>1. StartOf[n] <= o
      BY <2>1, <2>3, StartOfType
    <3> QED
      BY <2>1, <3>1 DEF Holds
  <2> QED
    BY <2>2, <2>3
<1> HIDE DEF S
<1>3. Nat \subseteq S
  BY <1>1, <1>2, SetInduction
<1> QED
  BY <1>3, PartSizes DEF S, Total

\* The part of an offset, and only that one, holds it.
LEMMA PartAtHolds ==
  ASSUME NEW o \in Nat, o < Total
  PROVE  /\ PartAt(o) \in PartNumbers /\ Holds(PartAt(o), o)
         /\ \A i \in PartNumbers : Holds(i, o) => PartAt(o) = i
<1>1. PartAt(o) \in PartNumbers /\ Holds(PartAt(o), o)
  BY PartFound DEF PartAt, Holds
<1>2. ASSUME NEW i \in PartNumbers, NEW j \in PartNumbers, Holds(i, o), Holds(j, o)
      PROVE  ~(i < j)
  <2> SUFFICES ASSUME i < j PROVE FALSE
    OBVIOUS
  <2>1. i + 1 \in 0..Parts /\ j \in 0..Parts /\ (i + 1 < j \/ i + 1 = j)
    BY PartSizes
  <2>2. StartOf[i + 1] <= StartOf[j] /\ StartOf[i + 1] \in Nat /\ StartOf[j] \in Nat
    BY <2>1, StartOfOrder, StartOfType
  <2>3. o < StartOf[i + 1] /\ StartOf[j] <= o
    BY <1>2 DEF Holds
  <2> QED
    BY <2>2, <2>3
<1>3. ASSUME NEW i \in PartNumbers, Holds(i, o)
      PROVE  PartAt(o) = i
  <2>1. ~(i < PartAt(o)) /\ ~(PartAt(o) < i)
    BY <1>1, <1>2, <1>3
  <2>2. i \in Nat /\ PartAt(o) \in Nat
    BY <1>1, PartSizes
  <2> QED
    BY <2>1, <2>2
<1> QED
  BY <1>1, <1>3

-----------------------------------------------------------------------------
(* The inductive invariant of PartReader *)

PartTyped ==
  /\ offset \in 0..Total /\ index \in 0..Parts /\ remaining \in Int /\ seeks \in Nat
  /\ current \in [part: {-1} \cup PartNumbers, rel: Nat]
  /\ current = None \/ (current.part \in PartNumbers /\ current.rel <= Size[current.part])
  /\ next \in [reader: {-1} \cup PartNumbers, index: {-1} \cup PartNumbers, init: BOOLEAN]
  /\ ahead \in [PartNumbers -> Nat]
  /\ late \in BOOLEAN /\ over2 \in BOOLEAN
  /\ call \in {"idle", "choose", "open", "serve", "closed"}

\* What a call under way has found out, and what Close leaves.
Calls ==
  /\ call \in {"choose", "open"} => current = None
  /\ call = "serve" => current # None
  /\ call \in {"choose", "open", "serve"} => offset < Total
  /\ current # None => index < Parts
  /\ call = "closed" => next.reader = -1 /\ next.index = -1

\* The current reader stands at offset, in the part of currentIndex; while there is none,
\* a part that is opened ahead still means that offset is the start of the part of
\* currentIndex; and the reader opened ahead is the one of nextPartIndex, the part after.
InOrder ==
  /\ current # None => current.part = index /\ StartOf[index] + current.rel = offset
  /\ current = None /\ next.index # -1 => offset = StartOf[index]
  /\ next.reader # -1 =>
       /\ next.reader = next.index
       /\ next.reader > index \/ (next.reader = index /\ current = None /\ call \in {"idle", "choose"})
  /\ next.index <= index + 1
  /\ ReadsInOrder

PartInv == PartTyped /\ Calls /\ (late \/ InOrder)

LEMMA Ranges ==
  /\ Parts \in Nat \ {0} /\ PartNumbers = 0..Parts - 1
  /\ \A i \in PartNumbers : i \in 0..Parts /\ i + 1 \in 0..Parts /\ Size[i] \in Nat \ {0}
  /\ Total \in Nat /\ 0 < Total
<1>1. Total \in Nat /\ StartOf[0] < Total
  BY PartSizes, StartOfType, StartOfOrder DEF Total
<1> QED
  BY <1>1, PartSizes, StartOfEquation

LEMMA InitPart == PartInit => PartInv
<1> SUFFICES ASSUME PartInit PROVE PartInv
  OBVIOUS
<1>1. PartAt(0) = 0
  <2>1. Holds(0, 0) /\ 0 \in PartNumbers
    BY Ranges, StartOfEquation DEF Holds
  <2> QED
    BY <2>1, Ranges, PartAtHolds
<1>2. PartTyped
  <2>1. current \in [part: {-1} \cup PartNumbers, rel: Nat]
    BY DEF PartInit, None
  <2>2. next \in [reader: {-1} \cup PartNumbers, index: {-1} \cup PartNumbers, init: BOOLEAN]
    BY Ranges DEF PartInit
  <2>3. ahead \in [PartNumbers -> Nat]
    BY DEF PartInit
  <2>4. offset \in 0..Total /\ index \in 0..Parts /\ remaining \in Int
    BY Ranges DEF PartInit
  <2>5. seeks \in Nat
    BY DEF PartInit
  <2> QED
    BY <2>1, <2>2, <2>3, <2>4, <2>5 DEF PartInit, PartTyped
<1>3. Calls
  BY DEF PartInit, Calls
<1>4. InOrder
  BY <1>1, Ranges, StartOfEquation DEF PartInit, InOrder, ReadsInOrder
<1> QED
  BY <1>2, <1>3, <1>4 DEF PartInv

-----------------------------------------------------------------------------
(* Its steps *)

LEMMA ReadPartStep == ASSUME PartInv, ReadPart \/ PartFails PROVE PartInv'
<1>1. /\ UNCHANGED <<offset, current, index, remaining, next, ahead, over2, seeks, last, late>>
      /\ call \in {"idle", "serve"}
      /\ \/ call' = "idle"
         \/ call' = "choose" /\ current = None /\ offset < Total
         \/ call' = "serve" /\ current # None /\ offset < Total
  BY DEF ReadPart, PartFails
<1>2. PartTyped'
  BY <1>1 DEF PartInv, PartTyped
<1>3. Calls'
  BY <1>1 DEF PartInv, Calls
<1>4. InOrder => InOrder'
  BY <1>1 DEF InOrder, ReadsInOrder
<1> QED
  BY <1>1, <1>2, <1>3, <1>4 DEF PartInv

LEMMA ChooseStep == ASSUME PartInv, ChooseReader PROVE PartInv'
<1>1. /\ call = "choose" /\ current = None
      /\ UNCHANGED <<offset, index, ahead, over2, seeks, last, late>>
      /\ next' = [next EXCEPT !.reader = -1, !.init = FALSE]
  BY DEF ChooseReader, PartInv, Calls
<1>2. /\ next' \in [reader: {-1} \cup PartNumbers, index: {-1} \cup PartNumbers, init: BOOLEAN]
      /\ next'.reader = -1 /\ next'.index = next.index
  BY <1>1 DEF PartInv, PartTyped
<1>3. CASE next.reader # -1 /\ next.index = index
  <2>1. /\ current' = [part |-> next.reader, rel |-> 0] /\ remaining' = Size[index]
        /\ call' = "serve"
    BY <1>3 DEF ChooseReader
  <2>2. index \in PartNumbers /\ next.reader \in PartNumbers /\ index \in Nat
    BY <1>3, Ranges DEF PartInv, PartTyped
  <2>3. current' \in [part: {-1} \cup PartNumbers, rel: Nat] /\ current' # None
        /\ current'.part = next.reader /\ current'.rel = 0
    BY <2>1, <2>2, Ranges DEF None
  <2>4. PartTyped'
    <3>1. remaining' \in Int
      BY <2>1, <2>2, Ranges
    <3>2. current'.part \in PartNumbers /\ current'.rel <= Size[current'.part]
      BY <2>2, <2>3, Ranges
    <3> QED
      BY <1>1, <1>2, <2>1, <2>3, <3>1, <3>2 DEF PartInv, PartTyped
  <2>5. Calls'
    BY <1>1, <2>1, <2>2, <2>3, Ranges DEF PartInv, Calls
  <2>6. InOrder => InOrder'
    <3> SUFFICES ASSUME InOrder PROVE InOrder'
      OBVIOUS
    <3>1. next.reader = index /\ offset = StartOf[index]
      BY <1>1, <1>3, <2>2, Ranges DEF InOrder
    <3>2. StartOf[index] \in Nat
      BY StartOfType, Ranges, <2>2
    <3>3. StartOf[index'] + current'.rel = offset'
      BY <1>1, <2>3, <3>1, <3>2
    <3> QED
      BY <1>1, <1>2, <2>3, <3>1, <3>3 DEF InOrder, ReadsInOrder
  <2> QED
    BY <1>1, <2>4, <2>5, <2>6 DEF PartInv
<1>4. CASE ~(next.reader # -1 /\ next.index = index)
  <2>1. call' = "open" /\ UNCHANGED <<current, remaining>>
    BY <1>4 DEF ChooseReader
  <2>2. PartTyped'
    BY <1>1, <1>2, <2>1 DEF PartInv, PartTyped
  <2>3. Calls'
    BY <1>1, <2>1 DEF PartInv, Calls
  <2>4. InOrder => InOrder'
    BY <1>1, <1>2, <2>1 DEF InOrder, ReadsInOrder
  <2> QED
    BY <1>1, <2>2, <2>3, <2>4 DEF PartInv
<1> QED
  BY <1>3, <1>4

LEMMA OpenStep == ASSUME PartInv, OpenPart PROVE PartInv'
<1> DEFINE part == PartAt(offset)
           rel == offset - StartOf[part]
<1>1. /\ call = "open" /\ index' = part
      /\ \/ /\ call' = "serve" /\ current' = [part |-> part, rel |-> rel]
            /\ remaining' = Size[part] - rel
         \/ call' = "idle" /\ UNCHANGED <<current, remaining>>
      /\ UNCHANGED <<offset, next, ahead, over2, seeks, last, late>>
  BY DEF OpenPart
<1>2. current = None /\ offset < Total /\ offset \in Nat
  BY <1>1, Ranges DEF PartInv, PartTyped, Calls
<1>3. part \in PartNumbers /\ Holds(part, offset)
  BY <1>2, PartAtHolds
<1>4. /\ part \in 0..Parts /\ part < Parts
      /\ StartOf[part] \in Nat /\ Size[part] \in Nat
      /\ rel \in Nat /\ rel <= Size[part] /\ Size[part] - rel \in Int
      /\ StartOf[part] + rel = offset
  <2>1. StartOf[part] \in Nat /\ Size[part] \in Nat /\ part \in 0..Parts /\ part < Parts
    BY <1>3, Ranges, StartOfType
  <2>2. StartOf[part + 1] = StartOf[part] + Size[part]
    BY <1>3, StartOfEquation
  <2>3. StartOf[part] <= offset /\ offset < StartOf[part + 1]
    BY <1>3 DEF Holds
  <2> QED
    BY <1>2, <2>1, <2>2, <2>3
<1>5. InOrder /\ next.index # -1 => part = index
  <2> SUFFICES ASSUME InOrder, next.index # -1 PROVE part = index
    OBVIOUS
  <2>1. offset = StartOf[index] /\ index \in 0..Parts
    BY <1>2 DEF InOrder, PartInv, PartTyped
  <2>2. index \in PartNumbers
    BY <1>2, <2>1, Ranges DEF Total
  <2>3. Holds(index, offset)
    BY <1>2, <2>1, <2>2, Ranges, StartOfEquation DEF Holds
  <2> QED
    BY <1>2, <2>2, <2>3, PartAtHolds
<1> HIDE DEF part, rel
<1>6. CASE call' = "serve" /\ current' = [part |-> part, rel |-> rel]
           /\ remaining' = Size[part] - rel
  <2>1. current' \in [part: {-1} \cup PartNumbers, rel: Nat] /\ current' # None
        /\ current'.part = part /\ current'.rel = rel
    BY <1>3, <1>4, <1>6, Ranges DEF None
  <2>2. PartTyped'
    <3>1. remaining' \in Int /\ index' \in 0..Parts
      BY <1>1, <1>4, <1>6
    <3>2. current'.part \in PartNumbers /\ current'.rel <= Size[current'.part]
      BY <1>3, <1>4, <2>1
    <3> QED
      BY <1>1, <1>6, <2>1, <3>1, <3>2 DEF PartInv, PartTyped
  <2>3. Calls'
    BY <1>1, <1>2, <1>4, <1>6, <2>1 DEF PartInv, Calls
  <2>4. InOrder => InOrder'
    <3> SUFFICES ASSUME InOrder PROVE InOrder'
      OBVIOUS
    <3>1. next.index # -1 => part = index
      BY <1>5
    <3>2. next'.reader # -1 => next'.reader = next'.index /\ next'.reader > index'
      BY <1>1, <3>1 DEF InOrder
    <3>3. next'.index <= index' + 1
      BY <1>1, <1>4, <3>1 DEF InOrder
    <3> QED
      BY <1>1, <1>4, <2>1, <3>2, <3>3 DEF InOrder, ReadsInOrder
  <2> QED
    BY <1>1, <2>2, <2>3, <2>4 DEF PartInv
<1>7. CASE call' = "idle" /\ UNCHANGED <<current, remaining>>
  <2>2. PartTyped'
    BY <1>1, <1>4, <1>7 DEF PartInv, PartTyped
  <2>3. Calls'
    BY <1>1, <1>2, <1>7 DEF PartInv, Calls
  <2>4. InOrder => InOrder'
    <3> SUFFICES ASSUME InOrder PROVE InOrder'
      OBVIOUS
    <3>1. next.index # -1 => part = index
      BY <1>5
    <3>2. next'.reader # -1 => next'.reader = next'.index /\ next'.reader > index'
      BY <1>1, <3>1 DEF InOrder
    <3>3. next'.index <= index' + 1
      BY <1>1, <1>4, <3>1 DEF InOrder
    <3>4. next'.index # -1 => offset' = StartOf[index']
      BY <1>1, <1>2, <3>1 DEF InOrder
    <3> QED
      BY <1>1, <1>2, <1>7, <3>2, <3>3, <3>4 DEF InOrder, ReadsInOrder
  <2> QED
    BY <1>1, <2>2, <2>3, <2>4 DEF PartInv
<1> QED
  BY <1>1, <1>6, <1>7

LEMMA ServeStep == ASSUME PartInv, ServePart PROVE PartInv'
<1>1. /\ call = "serve" /\ current.rel < Size[current.part]
      /\ last' = [for |-> offset, part |-> current.part, rel |-> current.rel]
      /\ offset' = offset + 1 /\ remaining' = remaining - 1
      /\ current' = [current EXCEPT !.rel = @ + 1]
      /\ call' = "idle"
      /\ UNCHANGED <<index, over2, seeks, late>>
      /\ \/ /\ next' = [next EXCEPT !.index = index + 1, !.init = TRUE] /\ index + 1 < Parts
            /\ ahead' = [ahead EXCEPT ![index + 1] = @ + 1]
         \/ UNCHANGED <<next, ahead>>
  BY DEF ServePart, OpensNext
<1>2. /\ current # None /\ offset < Total /\ index < Parts
      /\ current.part \in PartNumbers /\ current.rel \in Nat
      /\ index \in PartNumbers /\ offset \in Nat /\ remaining \in Int
  <2>1. current # None /\ offset < Total /\ index < Parts
    BY <1>1 DEF PartInv, Calls
  <2>2. current.part \in PartNumbers /\ current.rel \in Nat
    BY <2>1 DEF PartInv, PartTyped
  <2>3. index \in 0..Parts /\ offset \in 0..Total /\ remaining \in Int
    BY DEF PartInv, PartTyped
  <2> QED
    BY <2>1, <2>2, <2>3, Ranges
<1>3. /\ current' \in [part: {-1} \cup PartNumbers, rel: Nat]
      /\ current'.part = current.part /\ current'.rel = current.rel + 1
      /\ current'.part \in PartNumbers /\ current'.rel <= Size[current'.part]
      /\ current' # None
  <2>1. current \in [part: {-1} \cup PartNumbers, rel: Nat]
    BY DEF PartInv, PartTyped
  <2>2. /\ current' \in [part: {-1} \cup PartNumbers, rel: Nat]
        /\ current'.part = current.part /\ current'.rel = current.rel + 1
    BY <1>1, <1>2, <2>1
  <2>3. Size[current.part] \in Nat /\ current.part # -1 /\ None.part = -1
    BY <1>2, Ranges DEF None
  <2>4. current.rel + 1 <= Size[current.part]
    BY <1>1, <1>2, <2>3
  <2> QED
    BY <1>2, <2>2, <2>3, <2>4
<1>4. /\ next' \in [reader: {-1} \cup PartNumbers, index: {-1} \cup PartNumbers, init: BOOLEAN]
      /\ next'.reader = next.reader
      /\ next'.index = next.index \/ next'.index = index + 1
  <2>1. index + 1 < Parts => index + 1 \in PartNumbers
    BY <1>2, Ranges
  <2> QED
    BY <1>1, <2>1 DEF PartInv, PartTyped
<1>5. ahead' \in [PartNumbers -> Nat]
  <2>1. ahead \in [PartNumbers -> Nat]
    BY DEF PartInv, PartTyped
  <2> QED
    BY <1>1, <2>1
<1>6. PartTyped'
  <2>1. offset' \in 0..Total /\ remaining' \in Int
    <3>1. offset' = offset + 1 /\ remaining' = remaining - 1
      BY <1>1
    <3>2. offset < Total /\ offset \in Nat /\ remaining \in Int /\ Total \in Nat
      BY <1>2, Ranges
    <3> QED
      BY <3>1, <3>2
  <2>2. next' \in [reader: {-1} \cup PartNumbers, index: {-1} \cup PartNumbers, init: BOOLEAN]
    BY <1>4
  <2> QED
    BY <1>1, <1>3, <2>2, <1>5, <2>1 DEF PartInv, PartTyped
<1>7. Calls'
  BY <1>1, <1>2 DEF Calls
<1>8. InOrder => InOrder'
  <2> SUFFICES ASSUME InOrder PROVE InOrder'
    OBVIOUS
  <2>1. current.part = index /\ StartOf[index] + current.rel = offset
    BY <1>2 DEF InOrder
  <2>2. StartOf[index] \in Nat
    BY <1>2, Ranges, StartOfType
  <2>3. StartOf[index'] + current'.rel = offset' /\ current'.part = index'
    BY <1>1, <1>2, <1>3, <2>1, <2>2
  <2>4. ReadsInOrder'
    BY <1>1, <2>1 DEF ReadsInOrder
  <2>i. index \in Int /\ index' = index
    BY <1>1, <1>2, Ranges
  <2>5. next'.index <= index' + 1
    <3>1. next'.index = next.index \/ next'.index = index + 1
      BY <1>4
    <3>2. next.index <= index + 1
      BY DEF InOrder
    <3> QED
      BY <2>i, <3>1, <3>2
  <2>6. ASSUME next'.reader # -1
        PROVE  next'.reader = next'.index /\ next'.reader > index'
    <3>1. next.reader = next.index /\ next.reader > index /\ next.index <= index + 1
      BY <1>2, <1>4, <2>6 DEF InOrder
    <3>2. next.reader \in Int
      BY Ranges DEF PartInv, PartTyped
    <3>3. next.reader = index + 1 /\ next.index = index + 1
      BY <2>i, <3>1, <3>2
    <3>4. next'.reader = next.reader /\ next'.index = index + 1
      BY <1>4, <3>3
    <3> QED
      BY <2>i, <3>1, <3>3, <3>4
  <2> QED
    BY <1>3, <2>3, <2>4, <2>5, <2>6 DEF InOrder
<1> QED
  BY <1>1, <1>6, <1>7, <1>8 DEF PartInv

LEMMA EndsStep == ASSUME PartInv, PartEnds PROVE PartInv'
<1>1. /\ call = "serve" /\ current.rel = Size[current.part]
      /\ current' = None /\ index' = index + 1 /\ remaining' = 0
      /\ call' = IF index + 1 < Parts THEN "choose" ELSE "idle"
      /\ UNCHANGED <<offset, next, ahead, over2, seeks, last, late>>
  BY DEF PartEnds
<1>2. current # None /\ offset < Total /\ index \in PartNumbers
  <2>1. current # None /\ offset < Total /\ index < Parts
    BY <1>1 DEF PartInv, Calls
  <2>2. index \in 0..Parts
    BY DEF PartInv, PartTyped
  <2> QED
    BY <2>1, <2>2, Ranges
<1>3. PartTyped'
  <2>1. None \in [part: {-1} \cup PartNumbers, rel: Nat]
    BY DEF None
  <2>2. index' \in 0..Parts /\ remaining' \in Int
    BY <1>1, <1>2, Ranges
  <2> QED
    BY <1>1, <2>1, <2>2 DEF PartInv, PartTyped
<1>4. Calls'
  BY <1>1, <1>2 DEF Calls
<1>5. InOrder => InOrder'
  <2> SUFFICES ASSUME InOrder PROVE InOrder'
    OBVIOUS
  <2>1. offset' = StartOf[index']
    <3>1. current.part = index /\ StartOf[index] + current.rel = offset
      BY <1>2 DEF InOrder
    <3> QED
      BY <1>1, <1>2, <3>1, StartOfEquation
  <2>2. next'.index <= index' + 1
    <3>1. next.index <= index + 1 /\ next.index \in Int /\ index \in Int
      BY <1>2, Ranges DEF InOrder, PartInv, PartTyped
    <3> QED
      BY <1>1, <3>1
  <2>3. ASSUME next'.reader # -1
        PROVE  next'.reader = next'.index /\ next'.reader = index' /\ call' = "choose"
    <3>1. next.reader = next.index /\ next.reader > index /\ next.index <= index + 1
      BY <1>1, <1>2, <2>3 DEF InOrder
    <3>2. next.reader \in PartNumbers
      BY <1>1, <2>3 DEF PartInv, PartTyped
    <3>3. next.reader = index + 1 /\ index + 1 < Parts
      BY <1>2, <3>1, <3>2, Ranges
    <3> QED
      BY <1>1, <3>1, <3>3
  <2> QED
    BY <1>1, <2>1, <2>2, <2>3 DEF InOrder, ReadsInOrder
<1> QED
  BY <1>1, <1>3, <1>4, <1>5 DEF PartInv

\* Seek and Close let go of the readers.
LEMMA LetGoStep ==
  ASSUME PartInv, (\E o \in 0..Total : SeekPart(o)) \/ CloseParts
  PROVE  PartInv'
<1>1. /\ call = "idle" /\ next'.reader = -1 /\ next'.index = -1
      /\ next' \in [reader: {-1} \cup PartNumbers, index: {-1} \cup PartNumbers, init: BOOLEAN]
      /\ UNCHANGED <<index, remaining, ahead, over2, last, late>>
  <2>1. ASSUME NEW b \in BOOLEAN
        PROVE  [reader |-> -1, index |-> -1, init |-> b]
                 \in [reader: {-1} \cup PartNumbers, index: {-1} \cup PartNumbers, init: BOOLEAN]
    OBVIOUS
  <2>2. \E b \in BOOLEAN : next' = [reader |-> -1, index |-> -1, init |-> b]
    BY DEF SeekPart, CloseParts
  <2>3. call = "idle" /\ UNCHANGED <<index, remaining, ahead, over2, last, late>>
    BY DEF SeekPart, CloseParts
  <2> QED
    BY <2>1, <2>2, <2>3
<1>2. /\ offset' \in 0..Total /\ seeks' \in Nat
      /\ \/ current' = None /\ call' = "idle"
         \/ current' = current /\ call' = "closed" /\ offset' = offset
  BY DEF SeekPart, CloseParts, PartInv, PartTyped
<1>3. PartTyped'
  <2>1. None \in [part: {-1} \cup PartNumbers, rel: Nat]
    BY DEF None
  <2> QED
    BY <1>1, <1>2, <2>1 DEF PartInv, PartTyped
<1>4. Calls'
  BY <1>1, <1>2 DEF PartInv, Calls
<1>5. InOrder => InOrder'
  <2>1. -1 <= index + 1
    BY Ranges DEF PartInv, PartTyped
  <2> QED
    BY <1>1, <1>2, <2>1 DEF InOrder, ReadsInOrder
<1> QED
  BY <1>1, <1>3, <1>4, <1>5 DEF PartInv

LEMMA OpenedStep ==
  ASSUME PartInv, NEW i \in PartNumbers, OpenedAhead(i)
  PROVE  PartInv'
<1>1. /\ ahead[i] > 0 /\ ahead' = [ahead EXCEPT ![i] = @ - 1]
      /\ UNCHANGED <<offset, current, index, remaining, call, over2, seeks, last>>
      /\ UNCHANGED <<next, late>> \/ (next.index = i /\ Installs(i))
  BY DEF OpenedAhead
<1>2. i \in Nat
  BY Ranges
<1>3. ahead' \in [PartNumbers -> Nat]
  <2>1. ahead \in [PartNumbers -> Nat]
    BY DEF PartInv, PartTyped
  <2> QED
    BY <1>1, <2>1
<1>4. /\ next' \in [reader: {-1} \cup PartNumbers, index: {-1} \cup PartNumbers, init: BOOLEAN]
      /\ next'.index = next.index
      /\ late' \in BOOLEAN /\ (late => late')
      /\ \/ next'.reader = next.reader
         \/ next.index = i /\ next'.reader = i /\ late' = (late \/ ~InTurn(i))
  <2>1. /\ next \in [reader: {-1} \cup PartNumbers, index: {-1} \cup PartNumbers, init: BOOLEAN]
        /\ late \in BOOLEAN
    BY DEF PartInv, PartTyped
  <2>2. CASE UNCHANGED <<next, late>>
    BY <2>1, <2>2
  <2>3. CASE next.index = i /\ next' = [next EXCEPT !.reader = i] /\ late' = (late \/ ~InTurn(i))
    BY <2>1, <2>3
  <2>4. CASE next' = [next EXCEPT !.init = FALSE] /\ UNCHANGED late
    BY <2>1, <2>4
  <2> QED
    BY <1>1, <2>2, <2>3, <2>4 DEF Installs
<1>5. PartTyped'
  BY <1>1, <1>3, <1>4 DEF PartInv, PartTyped
<1>6. Calls'
  <2>1. call = "closed" => next'.reader = -1 /\ next'.index = -1
    BY <1>2, <1>4 DEF PartInv, Calls
  <2> QED
    BY <1>1, <2>1 DEF PartInv, Calls
<1>7. InOrder /\ ~late' => InOrder'
  <2> SUFFICES ASSUME InOrder, ~late' PROVE InOrder'
    OBVIOUS
  <2>1. next'.reader # -1 =>
          /\ next'.reader = next'.index
          /\ next'.reader > index \/ (next'.reader = index /\ current = None /\ call \in {"idle", "choose"})
    BY <1>4 DEF InOrder, InTurn
  <2> QED
    BY <1>1, <1>4, <2>1 DEF InOrder, ReadsInOrder
<1> QED
  BY <1>4, <1>5, <1>6, <1>7 DEF PartInv

LEMMA StillStep == ASSUME PartInv, CancelParts \/ UNCHANGED partVars PROVE PartInv'
<1>1. /\ UNCHANGED <<offset, current, index, remaining, next, ahead, call, seeks, last, late>>
      /\ over2' \in BOOLEAN
  BY DEF CancelParts, partVars, PartInv, PartTyped
<1> QED
  BY <1>1 DEF PartInv, PartTyped, Calls, InOrder, ReadsInOrder

LEMMA NextPart == PartInv /\ [Next]_vars => PartInv'
<1> SUFFICES ASSUME PartInv, [Next]_vars PROVE PartInv'
  OBVIOUS
<1>1. PartNext \/ UNCHANGED partVars
  BY DEF Next, GetTelegramFileReader, vars
<1>2. CASE ReadPart \/ ChooseReader \/ OpenPart \/ ServePart \/ PartEnds \/ PartFails
  BY <1>2, ReadPartStep, ChooseStep, OpenStep, ServeStep, EndsStep
<1>3. CASE (\E o \in 0..Total : SeekPart(o)) \/ CloseParts
  BY <1>3, LetGoStep
<1>4. CASE CancelParts \/ UNCHANGED partVars
  BY <1>4, StillStep
<1>5. CASE \E i \in PartNumbers : OpenedAhead(i)
  BY <1>5, OpenedStep
<1> QED
  BY <1>1, <1>2, <1>3, <1>4, <1>5 DEF PartNext

LEMMA PartInvariant == Spec => []PartInv
<1>1. Init => PartInv
  BY InitPart DEF Init
<1> QED
  BY <1>1, NextPart, PTL DEF Spec

-----------------------------------------------------------------------------
(* The theorems *)

\* Whatever the caller reads and seeks, whatever fails and however late a goroutine gets its
\* answer, each unit multiPartReader returns is the one at the offset it was asked for, as
\* long as no part was opened ahead after Read had begun to open it: for any number of parts,
\* of any sizes.
THEOREM PartsAreReadInOrder == Spec => []ReadsOwnPart
<1>1. PartInv => ReadsOwnPart
  BY DEF PartInv, InOrder, ReadsOwnPart
<1> QED
  BY <1>1, PartInvariant, PTL

\* Both readers give back what they took: the slots of a read-ahead that has ended, in both
\* semaphores, and the reader opened ahead of a stream that is closed.
THEOREM AllIsGivenBack == Spec => []GivesBack
<1>1. PrefetchInv /\ PartInv => GivesBack
  BY DEF PrefetchInv, PartInv, Calls, GivesBack, ClosedHoldsNone
<1> QED
  BY <1>1, PrefetchInvariant, PartInvariant, PTL

\* Type correctness of both readers: offsets stay in the file and its parts, and neither
\* semaphore is taken beyond its capacity.
THEOREM ReaderTypeCorrect == Spec => []TypeOK
<1>1. PrefetchInv => ReaderTypeOK
  <2> SUFFICES ASSUME PrefetchInv PROVE ReaderTypeOK
    OBVIOUS
  <2>1. own \in 0..Depth
    BY JobsFinite, Sizes DEF PrefetchInv, PrefetchTyped, SlotsReturned
  <2>2. budget.mine + budget.others \in 0..Budget
    BY Sizes DEF PrefetchInv, PrefetchTyped
  <2> QED
    BY <2>1, <2>2 DEF PrefetchInv, PrefetchTyped, ReaderTypeOK, Chunk
<1>2. PartInv => PartTypeOK
  <2> SUFFICES ASSUME PartInv PROVE PartTypeOK
    OBVIOUS
  <2>1. current = None \/ (current.part \in PartNumbers /\ current.rel \in 0..Size[current.part])
    BY Ranges DEF PartInv, PartTyped
  <2>2. {late, over2, next.init} \subseteq BOOLEAN
    BY DEF PartInv, PartTyped
  <2> QED
    BY <2>1, <2>2 DEF PartInv, PartTyped, PartTypeOK
<1>3. Init => reader \in {"one", "parts"}
  BY DEF Init
<1>4. reader \in {"one", "parts"} /\ [Next]_vars => (reader \in {"one", "parts"})'
  BY DEF Next, vars
<1>5. Spec => [](reader \in {"one", "parts"})
  BY <1>3, <1>4, PTL DEF Spec
<1>6. reader \in {"one", "parts"} /\ PrefetchInv /\ PartInv => TypeOK
  BY <1>1, <1>2 DEF TypeOK
<1> QED
  BY <1>5, <1>6, PrefetchInvariant, PartInvariant, PTL
=============================================================================
