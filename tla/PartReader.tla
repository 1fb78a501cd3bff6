----------------------------- MODULE PartReader -----------------------------
(***************************************************************************)
(* multiPartReader: reads a file kept as several messages.  It opens the   *)
(* reader of a part when it comes to it, or takes the one that a goroutine *)
(* opened while the end of the part before it was read.  Opening takes     *)
(* time and may fail.  The caller reads, seeks and closes one call at a    *)
(* time; bytes are counted in units, and a Read returns one.               *)
(***************************************************************************)
EXTENDS Integers, FiniteSets

CONSTANTS
  Size,          \* the parts' sizes: a function from 0..n-1 to the positive numbers
  Threshold,     \* prefetchThreshold
  MaxPartSeeks   \* bound on seeks

ASSUME PartAssumption ==
  /\ IsFiniteSet(DOMAIN Size) /\ DOMAIN Size = 0..Cardinality(DOMAIN Size) - 1
  /\ 0 \in DOMAIN Size /\ \A i \in DOMAIN Size : Size[i] \in Nat \ {0}
  /\ Threshold \in Nat /\ MaxPartSeeks \in Nat

VARIABLES
  offset,     \* offset
  current,    \* currentReader: the part it reads, and how far it is
  index,      \* currentIndex
  remaining,  \* currentPartRemaining
  next,       \* nextReader (the part it reads, or None), nextPartIndex, nextInitialized
  ahead,      \* how many goroutines open a part
  call,       \* the call under way
  over2,      \* the context is cancelled
  seeks,      \* seeks made
  last,       \* history: the unit served last, and the offset it was served for
  late        \* history: a part was opened ahead after Read had begun to open it itself

partVars == <<offset, current, index, remaining, next, ahead, call, over2, seeks, last, late>>

PartNumbers == DOMAIN Size
Parts == Cardinality(PartNumbers)
None == [part |-> -1, rel |-> 0]
StartOf[i \in 0..Parts] == IF i = 0 THEN 0 ELSE StartOf[i - 1] + Size[i - 1]
Total == StartOf[Parts]
PartAt(o) == CHOOSE i \in PartNumbers : StartOf[i] <= o /\ o < StartOf[i + 1]

PartInit ==
  /\ offset = 0 /\ current = None /\ index = 0 /\ remaining = 0
  /\ next = [reader |-> -1, index |-> 0, init |-> FALSE]
  /\ ahead = [i \in PartNumbers |-> 0]
  /\ call = "idle" /\ over2 = FALSE /\ seeks = 0
  /\ last = [for |-> 0, part |-> PartAt(0), rel |-> 0] /\ late = FALSE

-----------------------------------------------------------------------------
(* Read *)

ReadPart ==
  /\ call = "idle" /\ offset < Total
  /\ call' = IF current = None THEN "choose" ELSE "serve"
  /\ UNCHANGED <<offset, current, index, remaining, next, ahead, over2, seeks, last, late>>

\* The reader opened ahead, when it is the one of this part; otherwise one is opened.
ChooseReader ==
  /\ call = "choose"
  /\ next' = [next EXCEPT !.reader = -1, !.init = FALSE]
  /\ IF next.reader # -1 /\ next.index = index
       THEN /\ current' = [part |-> next.reader, rel |-> 0]
            /\ remaining' = Size[index] /\ call' = "serve"
       ELSE call' = "open" /\ UNCHANGED <<current, remaining>>
  /\ UNCHANGED <<offset, index, ahead, over2, seeks, last, late>>
OpenPart ==
  LET part == PartAt(offset)
      rel == offset - StartOf[part] IN
  /\ call = "open" /\ index' = part
  /\ \/ /\ ~over2 /\ call' = "serve"
        /\ current' = [part |-> part, rel |-> rel] /\ remaining' = Size[part] - rel
     \/ call' = "idle" /\ UNCHANGED <<current, remaining>>
  /\ UNCHANGED <<offset, next, ahead, over2, seeks, last, late>>

\* A unit is read: when the part is about to end, a goroutine opens the one after it.
OpensNext == ~next.init /\ remaining' <= Threshold /\ index + 1 < Parts
ServePart ==
  /\ call = "serve" /\ current.rel < Size[current.part]
  /\ last' = [for |-> offset, part |-> current.part, rel |-> current.rel]
  /\ offset' = offset + 1 /\ remaining' = remaining - 1
  /\ current' = [current EXCEPT !.rel = @ + 1]
  /\ IF OpensNext
       THEN /\ next' = [next EXCEPT !.index = index + 1, !.init = TRUE]
            /\ ahead' = [ahead EXCEPT ![index + 1] = @ + 1]
       ELSE UNCHANGED <<next, ahead>>
  /\ call' = "idle"
  /\ UNCHANGED <<index, over2, seeks, late>>
PartEnds ==
  /\ call = "serve" /\ current.rel = Size[current.part]
  /\ current' = None /\ index' = index + 1 /\ remaining' = 0
  /\ call' = IF index + 1 < Parts THEN "choose" ELSE "idle"
  /\ UNCHANGED <<offset, next, ahead, over2, seeks, last, late>>
\* The part's reader fails, or the request has ended.
PartFails ==
  /\ call = "serve" /\ call' = "idle"
  /\ UNCHANGED <<offset, current, index, remaining, next, ahead, over2, seeks, last, late>>

-----------------------------------------------------------------------------
(* Seek, Close and the goroutines *)

SeekPart(o) ==
  /\ call = "idle" /\ seeks < MaxPartSeeks /\ o # offset
  /\ offset' = o /\ current' = None /\ seeks' = seeks + 1
  /\ next' = [reader |-> -1, index |-> -1, init |-> FALSE]
  /\ UNCHANGED <<index, remaining, ahead, call, over2, last, late>>

\* Close lets go of the readers, then cancels the context.
CloseParts ==
  /\ call = "idle" /\ call' = "closed"
  /\ next' = [reader |-> -1, index |-> -1, init |-> TRUE]
  /\ UNCHANGED <<offset, current, index, remaining, ahead, over2, seeks, last, late>>
CancelParts ==
  /\ ~over2 /\ over2' = TRUE
  /\ UNCHANGED <<offset, current, index, remaining, next, ahead, call, seeks, last, late>>

\* The goroutine that opens part i has its answer: it drops the reader when the stream has
\* ended, or another part is expected next.
InTurn(i) == i > index \/ (i = index /\ current = None /\ call \in {"idle", "choose"})
Installs(i) ==
  \/ next' = [next EXCEPT !.reader = i] /\ late' = (late \/ ~InTurn(i))
  \/ next' = [next EXCEPT !.init = FALSE] /\ UNCHANGED late
OpenedAheadUnchecked(i) ==                                                  \* a mutant
  /\ ahead[i] > 0 /\ ahead' = [ahead EXCEPT ![i] = @ - 1]
  /\ IF over2 THEN UNCHANGED <<next, late>> ELSE Installs(i)
  /\ UNCHANGED <<offset, current, index, remaining, call, over2, seeks, last>>
OpenedAhead(i) ==
  /\ ahead[i] > 0 /\ ahead' = [ahead EXCEPT ![i] = @ - 1]
  /\ IF over2 \/ next.index # i THEN UNCHANGED <<next, late>> ELSE Installs(i)
  /\ UNCHANGED <<offset, current, index, remaining, call, over2, seeks, last>>

PartNext ==
  \/ ReadPart \/ ChooseReader \/ OpenPart \/ ServePart \/ PartEnds \/ PartFails
  \/ \E o \in 0..Total : SeekPart(o)
  \/ CloseParts \/ CancelParts
  \/ \E i \in PartNumbers : OpenedAhead(i)

PartTypeOK ==
  /\ offset \in 0..Total /\ index \in 0..Parts /\ remaining \in Int
  /\ current = None \/ (current.part \in PartNumbers /\ current.rel \in 0..Size[current.part])
  /\ next.reader \in {-1} \cup PartNumbers /\ next.index \in {-1} \cup PartNumbers
  /\ ahead \in [PartNumbers -> Nat] /\ {late, over2, next.init} \subseteq BOOLEAN
  /\ call \in {"idle", "choose", "open", "serve", "closed"}

\* Every unit a Read returns is the one at the offset it is returned for, whatever part the
\* reader was opened for and whenever ("Use pre-initialized nextReader if available and
\* matches").
ReadsInOrder == StartOf[last.part] + last.rel = last.for

\* They are in order as long as no part is opened ahead after Read has begun to open it: seeks,
\* failures and retries between the goroutines' steps do not mix up the parts.
ReadsOwnPart == late \/ ReadsInOrder

\* A closed stream holds no reader that was opened ahead, and takes none later.
ClosedHoldsNone == call = "closed" => next.reader = -1
=============================================================================
