------------------------------ MODULE Prefetch ------------------------------
(***************************************************************************)
(* tgFileReader: reads one message of Telegram chunk by chunk, and has up  *)
(* to Depth goroutines fetch the chunks after the one that is read.  The   *)
(* caller reads and seeks one call at a time; goroutines, other streams    *)
(* and the end of the request come in between.  A fetch returns the whole  *)
(* chunk or an error.                                                      *)
(***************************************************************************)
EXTENDS Naturals, FiniteSets

CONSTANTS
  Chunks,    \* chunks of the message
  Depth,     \* prefetchDepth
  Budget,    \* capacity of globalPrefetchSem
  MaxSeeks   \* bound on seeks

ASSUME PrefetchAssumption ==
  /\ {Chunks, Depth, Budget} \subseteq Nat \ {0} /\ MaxSeeks \in Nat

VARIABLES
  at,        \* the chunk of offset; Chunks at the end
  held,      \* the chunk of chunkData, NoChunk for nil
  read,      \* the call of Read under way: where it is, and its loop variable
  buffer,    \* prefetchChunks
  inflight,  \* prefetchInflight: the goroutine that fetches a chunk, or 0
  job,       \* goroutines: where they are, their chunk and generation
  gen,       \* prefetchGen
  own,       \* slots taken of prefetchSem
  budget,    \* slots of globalPrefetchSem taken by this reader, and by others
  cached,    \* chunks of this message in globalChunkCache
  over       \* the context is cancelled

readerVars == <<at, held, read, buffer, inflight, job, gen, own, budget, cached, over>>
fetchVars == <<buffer, inflight, job, own, budget>>

NoChunk == Chunks
Jobs == 1..Depth
Free == [step |-> "free", chunk |-> 0, gen |-> 0]
Idle == [pc |-> "idle", i |-> 1]

ReaderInit ==
  /\ at = 0 /\ held = NoChunk /\ read = Idle
  /\ buffer = {} /\ inflight = [c \in 0..Chunks - 1 |-> 0]
  /\ job = [j \in Jobs |-> Free] /\ gen = 0
  /\ own = 0 /\ budget = [mine |-> 0, others |-> 0]
  /\ cached = {} /\ over = FALSE

-----------------------------------------------------------------------------
(* Read *)

GoesTo(pc) == read' = [pc |-> pc, i |-> 1]

\* Read copies what it holds of the chunk, or looks for the chunk after it has started to
\* fetch those behind it.
Served(c) ==
  /\ held' = c /\ at' \in {at, at + 1}
  /\ GoesTo("top up")
ReadStarts ==
  /\ read.pc = "idle" /\ at < Chunks
  /\ IF held = at THEN Served(at) ELSE GoesTo("fill") /\ UNCHANGED <<held, at>>
  /\ UNCHANGED <<fetchVars, gen, cached, over>>

\* triggerPrefetch of the chunk c: it is dropped when the chunk is there or on its way, or one
\* of the two semaphores is full.
Wanted(c) == c < Chunks /\ c \notin cached \cup buffer /\ inflight[c] = 0
Start(c) ==
  LET j == CHOOSE k \in Jobs : job[k] = Free IN
  /\ job' = [job EXCEPT ![j] = [step |-> "fetch", chunk |-> c, gen |-> gen]]
  /\ inflight' = [inflight EXCEPT ![c] = j]
  /\ own' = own + 1 /\ budget' = [budget EXCEPT !.mine = @ + 1]
TriggerKeepingSlot(c) ==                                                    \* a mutant
  IF Wanted(c) /\ own < Depth
    THEN IF budget.mine + budget.others < Budget THEN Start(c)
         ELSE own' = own + 1 /\ UNCHANGED <<job, inflight, budget>>
    ELSE UNCHANGED <<job, inflight, own, budget>>
TriggerOverBudget(c) ==                                                     \* a mutant
  IF Wanted(c) /\ own < Depth THEN Start(c) ELSE UNCHANGED <<job, inflight, own, budget>>
TriggerPrefetch(c) ==
  IF Wanted(c) /\ own < Depth /\ budget.mine + budget.others < Budget THEN Start(c)
  ELSE UNCHANGED <<job, inflight, own, budget>>

\* fillPrefetchWindow, before and after the chunk is served.
FillWindow ==
  /\ read.pc \in {"fill", "top up"}
  /\ IF read.i <= Depth
       THEN /\ TriggerPrefetch((IF read.pc = "fill" THEN at ELSE held) + read.i)
            /\ read' = [read EXCEPT !.i = @ + 1]
       ELSE /\ GoesTo(IF read.pc = "fill" THEN "get" ELSE "idle")
            /\ UNCHANGED <<job, inflight, own, budget>>
  /\ UNCHANGED <<at, held, buffer, gen, cached, over>>

\* getChunk: the buffer, then a fetch under way, then the cache, then a fetch of its own.
Get ==
  /\ read.pc = "get"
  /\ IF at \in buffer THEN Served(at) /\ buffer' = buffer \ {at}
     ELSE /\ read' = IF inflight[at] # 0 THEN [pc |-> "wait", i |-> inflight[at]]
                                         ELSE [pc |-> "look", i |-> 1]
          /\ UNCHANGED <<at, held, buffer>>
  /\ UNCHANGED <<inflight, job, own, budget, gen, cached, over>>
\* The goroutine has closed its channel, and stored its chunk before.
Wakes ==
  /\ read.pc = "wait" /\ job[read.i].step \in {"closed", "half", "free"}
  /\ IF at \in buffer THEN Served(at) /\ buffer' = buffer \ {at}
                      ELSE GoesTo("look") /\ UNCHANGED <<at, held, buffer>>
  /\ UNCHANGED <<inflight, job, own, budget, gen, cached, over>>
Look ==
  /\ read.pc = "look"
  /\ IF at \in cached THEN Served(at) ELSE GoesTo("fetch") /\ UNCHANGED <<at, held>>
  /\ UNCHANGED <<fetchVars, gen, cached, over>>
Fetched ==
  /\ read.pc = "fetch" /\ ~over
  /\ cached' = cached \cup {at} /\ Served(at)
  /\ UNCHANGED <<fetchVars, gen, over>>
\* An error, or the context: Read returns and leaves what it held.
ReadFails ==
  /\ read.pc = "fetch" \/ (read.pc = "wait" /\ over)
  /\ read' = Idle
  /\ UNCHANGED <<at, held, fetchVars, gen, cached, over>>

\* Seek to another offset, also to one in the same chunk.
Seek(c) ==
  /\ read.pc = "idle" /\ gen < MaxSeeks
  /\ at' = c /\ held' = NoChunk
  /\ buffer' = {} /\ gen' = gen + 1
  /\ UNCHANGED <<read, inflight, job, own, budget, cached, over>>

-----------------------------------------------------------------------------
(* A goroutine of triggerPrefetch *)

Step(j, step) == job' = [job EXCEPT ![j].step = step]
PrefetchDone(j) ==
  /\ job[j].step = "fetch"
  /\ \/ ~over /\ cached' = cached \cup {job[j].chunk} /\ Step(j, "fetched")
     \/ UNCHANGED cached /\ Step(j, "stored")
  /\ UNCHANGED <<at, held, read, buffer, inflight, gen, own, budget, over>>
\* What was fetched for a position that was left is not put into the buffer.
StoreAlways(j) ==                                                           \* a mutant
  /\ job[j].step = "fetched" /\ Step(j, "stored")
  /\ buffer' = buffer \cup {job[j].chunk}
  /\ UNCHANGED <<at, held, read, inflight, gen, own, budget, cached, over>>
Store(j) ==
  /\ job[j].step = "fetched" /\ Step(j, "stored")
  /\ buffer' = buffer \cup {c \in {job[j].chunk} : job[j].gen = gen}
  /\ UNCHANGED <<at, held, read, inflight, gen, own, budget, cached, over>>
\* The deferred function: the entry, the channel, the two slots.
Leave(j) ==
  /\ CASE job[j].step = "stored" -> /\ Step(j, "left")
                                    /\ inflight' = [inflight EXCEPT ![job[j].chunk] = IF @ = j THEN 0 ELSE @]
                                    /\ UNCHANGED <<own, budget>>
       [] job[j].step = "left" -> Step(j, "closed") /\ UNCHANGED <<inflight, own, budget>>
       [] job[j].step = "closed" -> /\ Step(j, "half") /\ budget' = [budget EXCEPT !.mine = @ - 1]
                                    /\ UNCHANGED <<inflight, own>>
       [] job[j].step = "half" -> /\ job' = [job EXCEPT ![j] = Free] /\ own' = own - 1
                                  /\ UNCHANGED <<inflight, budget>>
       [] OTHER -> FALSE
  /\ UNCHANGED <<at, held, read, buffer, gen, cached, over>>

-----------------------------------------------------------------------------
(* Around the reader *)

\* Other streams take and give back slots; they cache chunks, and have some evicted.
Others ==
  /\ \/ /\ \E n \in 0..Budget - budget.mine : n # budget.others /\ budget' = [budget EXCEPT !.others = n]
        /\ UNCHANGED cached
     \/ /\ \E c \in 0..Chunks - 1 :
             cached' = IF c \in cached THEN cached \ {c} ELSE cached \cup {c}
        /\ UNCHANGED budget
  /\ UNCHANGED <<at, held, read, buffer, inflight, job, gen, own, over>>
\* Close, or the end of the request.
Close ==
  /\ ~over /\ over' = TRUE
  /\ UNCHANGED <<at, held, read, fetchVars, gen, cached>>

ReaderNext ==
  \/ ReadStarts \/ FillWindow \/ Get \/ Wakes \/ Look \/ Fetched \/ ReadFails
  \/ \E c \in 0..Chunks : Seek(c)
  \/ \E j \in Jobs : PrefetchDone(j) \/ Store(j) \/ Leave(j)
  \/ Others \/ Close

Places == {"idle", "fill", "get", "wait", "look", "fetch", "top up"}
ReaderTypeOK ==
  /\ at \in 0..Chunks /\ held \in 0..Chunks
  /\ read.pc \in Places /\ read.i \in 1..Depth + 1
  /\ buffer \cup cached \subseteq 0..Chunks - 1
  /\ inflight \in [0..Chunks - 1 -> 0..Depth]
  /\ own \in 0..Depth /\ budget.mine + budget.others \in 0..Budget

\* The buffer holds none but the Depth chunks behind the one that is read, and that one
\* while Read looks for it: chunks of a position that was left by Seek do not pile up, and
\* none is kept that was served already.
Looking == read.pc \in {"fill", "get", "wait", "look", "fetch"}
First == IF Looking \/ held = NoChunk THEN at ELSE held + 1
BufferInWindow == \A c \in buffer : First <= c /\ c <= at + Depth

\* The slots of both semaphores are those of goroutines that still run: each gives both
\* back, and a chunk that is not fetched for want of a slot takes none.
SlotsReturned ==
  /\ own = Cardinality({j \in Jobs : job[j] # Free})
  /\ budget.mine = Cardinality({j \in Jobs : job[j].step \notin {"free", "half"}})
=============================================================================
