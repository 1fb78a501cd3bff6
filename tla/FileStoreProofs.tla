--------------------------- MODULE FileStoreProofs ---------------------------
(***************************************************************************)
(* Proofs about FileStore, for every number of uploads, purges,            *)
(* directories and names, every job mix, and with or without the unique    *)
(* index: the types, and the invariant behind the two facts the purges     *)
(* rely on (PurgeListSound and RefsWriteOnce).                             *)
(***************************************************************************)
EXTENDS FileStore, WellFoundedInduction, TLAPS

-----------------------------------------------------------------------------
(* Operators on the tables *)

\* Deleting rows leaves the others as they were.
LEMMA WithoutType ==
  ASSUME NEW f, NEW ids, f \in [DOMAIN f -> Row]
  PROVE  /\ Without(f, ids) \in [DOMAIN f \ ids -> Row]
         /\ DOMAIN Without(f, ids) = DOMAIN f \ ids
         /\ \A r \in DOMAIN f \ ids : Without(f, ids)[r] = f[r]
  BY DEF Without

\* The messages an upload has sent are messages of its own.
LEMMA MessagesType ==
  ASSUME TypeOK, NEW u \in Uploads
  PROVE  /\ Messages(u) \in SUBSET Msg
         /\ \A m \in Messages(u) : m[1] = u
         /\ <<u, 1>> \in Msg
  BY DEF Messages, Msg, TypeOK

\* The writes of a finalization touch the upload's own row only.
LEMMA SetType ==
  ASSUME NEW f, f \in [DOMAIN f -> Row], NEW u \in Uploads, TypeOK
  PROVE  /\ SetHead(f, u) \in [DOMAIN f -> Row]
         /\ TakeOver(f, u) \in [DOMAIN f -> Row]
         /\ SetParts(f, u) \in [DOMAIN f -> Row]
<1>1. /\ <<u, 1>> \in Msg
      /\ Messages(u) \in SUBSET Msg
  BY MessagesType
<1>2. Base(u) \in Bases
  BY ConstantsOK DEF TypeOK, Base
<1>3. SetHead(f, u) \in [DOMAIN f -> Row]
  BY <1>1 DEF SetHead, Row
<1>4. TakeOver(f, u) \in [DOMAIN f -> Row]
  BY <1>1, <1>2 DEF TakeOver, Row
<1>5. SetParts(f, u) \in [DOMAIN f -> Row]
  BY <1>1 DEF SetParts, Row
<1> QED
  BY <1>3, <1>4, <1>5

LEMMA FinalizedType ==
  ASSUME TypeOK, NEW u \in Uploads
  PROVE  /\ DOMAIN Finalized(u) \subseteq Rows
         /\ Finalized(u) \in [DOMAIN Finalized(u) -> Row]
<1> DEFINE g == SetParts(file, u)
           h == Without(g, {old[u]})
<1>1. file \in [DOMAIN file -> Row]
  BY DEF TypeOK, Rows
<1>2. g \in [DOMAIN file -> Row]
  BY <1>1, SetType
<1>3. SetHead(g, u) \in [DOMAIN file -> Row]
  <2>1. DOMAIN g = DOMAIN file
    BY <1>2
  <2> HIDE DEF g
  <2> QED
    BY <1>2, <2>1, SetType
<1>4. h \in [DOMAIN file \ {old[u]} -> Row]
  <2>1. DOMAIN g = DOMAIN file
    BY <1>2
  <2> HIDE DEF g
  <2> QED
    BY <1>2, <2>1, WithoutType
<1>5. TakeOver(h, u) \in [DOMAIN file \ {old[u]} -> Row]
  <2>1. DOMAIN h = DOMAIN file \ {old[u]}
    BY <1>4
  <2> HIDE DEF h
  <2> QED
    BY <1>4, <2>1, SetType
<1>6. CASE Overwrites(u)
  <2>1. Finalized(u) = TakeOver(h, u)
    BY <1>6 DEF Finalized, Swap
  <2> QED
    BY <2>1, <1>5 DEF Rows
<1>7. CASE ~Overwrites(u)
  <2>1. Finalized(u) = SetHead(g, u)
    BY <1>7 DEF Finalized
  <2> QED
    BY <2>1, <1>3 DEF Rows
<1> QED
  BY <1>6, <1>7

\* A nonempty set of numbers has a least one.
LEMMA LeastNumber ==
  ASSUME NEW S, S \subseteq Nat, S # {}
  PROVE  \E k \in S : \A j \in S : k <= j
<1> DEFINE R == OpToRel(<, Nat)
<1>1. \E k \in S : \A j \in S : ~(<<j, k>> \in R)
  <2> HIDE DEF R
  <2>1. IsWellFoundedOn(R, Nat)
    BY NatLessThanWellFounded DEF R
  <2> QED
    BY <2>1, WFMin
<1>2. ASSUME NEW k \in S, NEW j \in S, ~(<<j, k>> \in R)
      PROVE  k <= j
  <2>1. <<j, k>> \in Nat \X Nat
    OBVIOUS
  <2>2. ~(j < k)
    BY <1>2, <2>1 DEF OpToRel
  <2> QED
    BY <2>2
<1> QED
  BY <1>1, <1>2

\* GetUniqueFilename returns a counter that is free.
LEMMA UniqueSuffixFree ==
  ASSUME NEW d, NEW b, NEW x, FreeSuffixes(d, b, x) # {}
  PROVE  UniqueSuffix(d, b, x) \in FreeSuffixes(d, b, x)
<1>1. FreeSuffixes(d, b, x) \subseteq Nat
  BY ConstantsOK DEF FreeSuffixes
<1>2. \E k \in FreeSuffixes(d, b, x) : \A j \in FreeSuffixes(d, b, x) : k <= j
  BY <1>1, LeastNumber
<1> QED
  BY <1>2 DEF UniqueSuffix

LEMMA OrphansType ==
  ASSUME TypeOK, NEW ids
  PROVE  Orphans(ids) \in SUBSET Msg
  BY DEF Orphans, Refs, TypeOK, Row, Rows

-----------------------------------------------------------------------------
(* Types *)

LEMMA InitType == Init => TypeOK
<1> SUFFICES ASSUME Init PROVE TypeOK
  OBVIOUS
<1>1. IdlePurge \in Purge
  BY DEF IdlePurge, Purge, PurgeKinds, RowId
<1> QED
  BY <1>1 DEF Init, TypeOK, Rows, RowId

\* Inserting a row of the right type keeps the tables typed and moves the counter.
LEMMA InsertType ==
  ASSUME TypeOK, NEW new \in Row, Insert(new)
  PROVE  /\ nextId' \in RowId
         /\ Rows' \subseteq 1 .. (nextId' - 1)
         /\ Rows' = Rows \cup {nextId}
         /\ file' \in [Rows' -> Row]
         /\ nextId' = nextId + 1
  BY DEF TypeOK, Insert, Rows, RowId

\* Deleting rows keeps the tables typed.
LEMMA DeleteType ==
  ASSUME TypeOK, NEW ids, file' = Without(file, ids), UNCHANGED nextId
  PROVE  /\ Rows' = Rows \ ids
         /\ file' \in [Rows' -> Row]
         /\ Rows' \subseteq 1 .. (nextId' - 1)
<1>1. file \in [DOMAIN file -> Row]
  BY DEF TypeOK, Rows
<1>2. /\ Without(file, ids) \in [DOMAIN file \ ids -> Row]
      /\ DOMAIN Without(file, ids) = DOMAIN file \ ids
  BY <1>1, WithoutType
<1>3. /\ Rows' = Rows \ ids
      /\ file' \in [Rows' -> Row]
  BY <1>2 DEF Rows
<1> QED
  BY <1>3 DEF TypeOK

LEMMA CleanupType ==
  ASSUME TypeOK, NEW u \in Uploads, Cleanup(u), UNCHANGED nextId
  PROVE  /\ pendingDel' \subseteq Msg
         /\ Rows' \subseteq 1 .. (nextId' - 1)
         /\ file' \in [Rows' -> Row]
         /\ pc' \in [Uploads -> {"idle", "ready", "named", "upload", "done", "error", "lost"}]
<1>1. /\ file' \in [Rows' -> Row]
      /\ Rows' \subseteq 1 .. (nextId' - 1)
  BY DeleteType DEF Cleanup
<1>2. pendingDel' \subseteq Msg
  BY MessagesType DEF Cleanup, TypeOK
<1> QED
  BY <1>1, <1>2 DEF Cleanup, Go, TypeOK

\* Steps of an upload.
LEMMA UploadType ==
  ASSUME TypeOK, NEW u \in Uploads,
         Begin(u) \/ UploadStep(u) \/ OpenFails(u) \/ FinalizeFails(u)
  PROVE  TypeOK'
<1> USE DEF tables, uploadVars, bounds
<1>a. Dir(u) \in Dirs /\ Base(u) \in Bases
  BY ConstantsOK DEF TypeOK, Dir, Base
<1>1. CASE Begin(u)
  BY <1>1, <1>a DEF Begin, TypeOK, Go, Rows, RowId
<1>2. CASE LockAndPick(u)
  <2>1. UniqueSuffix(Dir(u), Base(u), 0) \in Nat
    BY <1>2, UniqueSuffixFree, ConstantsOK DEF LockAndPick, FreeSuffixes
  <2> QED
    BY <1>2, <1>a, <2>1 DEF LockAndPick, TypeOK, Go, Rows
<1>3. CASE InsertPlaceholder(u)
  <2>1. NewRow(Dir(u), Base(u), pick[u], {}, {}) \in Row
    BY <1>a DEF NewRow, Row, TypeOK
  <2>2. /\ nextId' \in RowId
        /\ Rows' \subseteq 1 .. (nextId' - 1)
        /\ file' \in [Rows' -> Row]
        /\ nextId' = nextId + 1
    BY <1>3, <2>1, InsertType DEF InsertPlaceholder
  <2>3. nextId \in RowId
    BY DEF TypeOK
  <2>4. row' \in [Uploads -> 0 .. (nextId' - 1)] /\ old' \in [Uploads -> 0 .. (nextId' - 1)]
    BY <1>3, <2>2, <2>3 DEF InsertPlaceholder, TypeOK, RowId
  <2> QED
    BY <1>3, <1>a, <2>2, <2>4 DEF InsertPlaceholder, TypeOK, Go, Rows
<1>4. CASE InsertRefused(u)
  <2>1. UniqueSuffix(Dir(u), Base(u), 0) \in Nat
    BY <1>4, UniqueSuffixFree, ConstantsOK DEF InsertRefused, FreeSuffixes
  <2> QED
    BY <1>4, <1>a, <2>1 DEF InsertRefused, TypeOK, Go, Rows
<1>5. ASSUME NEW i \in Parts(u), SendPart(u, i)
      PROVE  TypeOK'
  <2>1. i \in Nat \ {0}
    BY ConstantsOK DEF Parts, TypeOK
  <2>2. <<u, i>> \in Msg
    BY <2>1 DEF Msg
  <2> QED
    BY <1>5, <2>1, <2>2 DEF SendPart, TypeOK, Rows
<1>6. CASE UploadFails(u)
  BY <1>6, CleanupType DEF UploadFails, TypeOK, Rows
<1>7. CASE Finalize(u)
  <2>1. /\ Rows' \subseteq 1 .. (nextId' - 1)
        /\ file' \in [Rows' -> Row]
    BY <1>7, FinalizedType DEF Finalize, TypeOK, Rows
  <2>2. Replaced(u) \in SUBSET Msg
    BY OrphansType DEF Replaced
  <2> QED
    BY <1>7, <2>1, <2>2 DEF Finalize, TypeOK, Go, Rows
<1>8. CASE FinalizeRefused(u)
  BY <1>8, CleanupType DEF FinalizeRefused, TypeOK, Rows
<1>9. CASE OpenFails(u)
  BY <1>9, ConstantsOK DEF OpenFails, Fault, TypeOK, Go, Rows
<1>10. CASE FinalizeFails(u)
  <2>1. /\ file' \in [Rows' -> Row]
        /\ Rows' \subseteq 1 .. (nextId' - 1)
    BY <1>10, DeleteType DEF FinalizeFails
  <2>2. pendingDel' \subseteq Msg
    BY <1>10, MessagesType, OrphansType DEF FinalizeFails, Replaced, TypeOK
  <2>3. /\ pc' \in [Uploads -> {"idle", "ready", "named", "upload", "done", "error", "lost"}]
        /\ faults' \subseteq FaultKinds
    BY <1>10, ConstantsOK DEF FinalizeFails, Fault, Go, TypeOK
  <2>4. UNCHANGED <<nextId, tg, insertLock, job, old, pick, tries, row, sent, purge, ops, used>>
    BY <1>10 DEF FinalizeFails
  <2> QED
    BY <2>1, <2>2, <2>3, <2>4 DEF TypeOK
<1> QED
  BY <1>1, <1>2, <1>3, <1>4, <1>5, <1>6, <1>7, <1>8, <1>9, <1>10 DEF UploadStep

LEMMA UserOpType ==
  ASSUME TypeOK, UserOp
  PROVE  TypeOK'
<1> USE DEF tables, uploadVars, bounds
<1> PICK r \in Rows :
      \/ \E d \in Dirs : PasteCopy(r, d) \/ PasteMove(r, d)
      \/ \E b \in Bases : Rename(r, b)
      \/ Trash(r)
      \/ Restore(r)
  BY DEF UserOp
<1>a. file[r] \in Row
  BY DEF TypeOK
<1>b. ASSUME NEW d \in Dirs, NEW b \in Bases, NEW x, FreeSuffixes(d, b, x) # {}
      PROVE  UniqueSuffix(d, b, x) \in Nat
  BY <1>b, UniqueSuffixFree, ConstantsOK DEF FreeSuffixes
<1>1. ASSUME NEW d \in Dirs, PasteCopy(r, d)
      PROVE  TypeOK'
  <2>1. NewRow(d, file[r].base, UniqueSuffix(d, file[r].base, 0),
               file[r].head, file[r].parts) \in Row
    BY <1>1, <1>a, <1>b DEF PasteCopy, NewRow, Row
  <2>2. /\ nextId' \in RowId
        /\ Rows' \subseteq 1 .. (nextId' - 1)
        /\ file' \in [Rows' -> Row]
        /\ nextId' = nextId + 1
    BY <1>1, <2>1, InsertType DEF PasteCopy
  <2>3. nextId \in RowId
    BY DEF TypeOK
  <2>4. row' \in [Uploads -> 0 .. (nextId' - 1)] /\ old' \in [Uploads -> 0 .. (nextId' - 1)]
    BY <1>1, <2>2, <2>3 DEF PasteCopy, Op, TypeOK, RowId
  <2> QED
    BY <1>1, <2>2, <2>4, ConstantsOK DEF PasteCopy, Op, TypeOK, Rows
<1>2. ASSUME NEW new \in Row, file' = [file EXCEPT ![r] = new], UNCHANGED nextId,
             NEW kind, Op(kind)
      PROVE  TypeOK'
  BY <1>2, ConstantsOK DEF Op, TypeOK, Rows
<1>3. ASSUME NEW d \in Dirs, PasteMove(r, d)
      PROVE  TypeOK'
  <2>1. [file[r] EXCEPT !.dir = d, !.k = UniqueSuffix(d, file[r].base, r)] \in Row
    BY <1>3, <1>a, <1>b DEF PasteMove, Row
  <2> QED
    BY <1>3, <1>2, <2>1 DEF PasteMove
<1>4. ASSUME NEW b \in Bases, Rename(r, b)
      PROVE  TypeOK'
  <2>1. [file[r] EXCEPT !.base = b, !.k = UniqueSuffix(file[r].dir, b, r)] \in Row
    BY <1>4, <1>a, <1>b DEF Rename, Row
  <2> QED
    BY <1>4, <1>2, <2>1 DEF Rename
<1>5. CASE Trash(r)
  <2>1. [file[r] EXCEPT !.trashed = TRUE] \in Row
    BY <1>a DEF Row
  <2> QED
    BY <1>5, <1>2, <2>1 DEF Trash
<1>6. CASE Restore(r)
  <2>1. [file[r] EXCEPT !.trashed = FALSE, !.k = RestoreSuffix(r)] \in Row
    BY <1>6, <1>a, <1>b DEF Restore, RestoreSuffix, Row
  <2> QED
    BY <1>6, <1>2, <2>1 DEF Restore
<1> QED
  BY <1>1, <1>3, <1>4, <1>5, <1>6

LEMMA PurgeType ==
  ASSUME TypeOK, NEW p \in Purges,
         PurgeStep(p) \/ \E kind \in PurgeKinds : PurgeSelect(p, kind)
  PROVE  TypeOK'
<1> USE DEF tables, uploadVars, bounds
<1>a. purge[p] \in Purge /\ IdlePurge \in Purge
  BY DEF TypeOK, IdlePurge, Purge, PurgeKinds, RowId
<1>b. nextId \in RowId /\ Rows \subseteq RowId
  BY DEF TypeOK, RowId
<1>1. ASSUME NEW kind \in PurgeKinds, PurgeSelect(p, kind)
      PROVE  TypeOK'
  <2>1. \A ids \in Selectable(kind) : ids \subseteq RowId
    BY <1>b DEF Selectable, PurgeKinds
  <2>2. PICK ids \in Selectable(kind) :
          purge' = [purge EXCEPT ![p] =
                     [@ EXCEPT !.pc = "selected", !.kind = kind, !.ids = ids]]
    BY <1>1 DEF PurgeSelect
  <2>3. [purge[p] EXCEPT !.pc = "selected", !.kind = kind, !.ids = ids] \in Purge
    BY <1>a, <2>1 DEF Purge
  <2>4. purge' \in [Purges -> Purge]
    BY <2>2, <2>3 DEF TypeOK
  <2>5. ops' = ops + 1 /\ used' = used \cup {kind}
    BY <1>1, Zenon DEF PurgeSelect
  <2>6. UNCHANGED <<tables, tg, pendingDel, uploadVars, faults>>
    BY <1>1 DEF PurgeSelect
  <2> QED
    BY <2>4, <2>5, <2>6 DEF TypeOK, Rows
<1>2. CASE PurgeCompute(p)
  <2>1. [purge[p] EXCEPT !.pc = "computed", !.orphans = Orphans(purge[p].ids),
                         !.seen = nextId] \in Purge
    BY <1>a, <1>b, OrphansType DEF Purge
  <2>2. purge' \in [Purges -> Purge]
    BY <1>2, <1>a, <2>1 DEF PurgeCompute, TypeOK
  <2> QED
    BY <1>2, <2>2 DEF PurgeCompute, TypeOK, Rows
<1>3. CASE PurgeIssue(p)
  <2>1. [purge[p] EXCEPT !.pc = "issued"] \in Purge
    BY <1>a DEF Purge
  <2>2. purge' \in [Purges -> Purge] /\ purge[p].orphans \subseteq Msg
    BY <1>3, <1>a, <2>1 DEF PurgeIssue, Step, TypeOK, Purge
  <2> QED
    BY <1>3, <2>2 DEF PurgeIssue, TypeOK, Rows
<1>4. CASE PurgeRows(p)
  <2>1. [purge[p] EXCEPT !.pc = "deleted"] \in Purge
    BY <1>a DEF Purge
  <2>2. purge' \in [Purges -> Purge]
    BY <1>4, <1>a, <2>1 DEF PurgeRows, TypeOK
  <2>3. /\ file' \in [Rows' -> Row]
        /\ Rows' \subseteq 1 .. (nextId' - 1)
    BY <1>4, DeleteType DEF PurgeRows
  <2> QED
    BY <1>4, <2>2, <2>3 DEF PurgeRows, TypeOK, Rows
<1>5. CASE PurgeTelegram(p)
  <2>1. purge' \in [Purges -> Purge] /\ purge[p].orphans \subseteq Msg
    BY <1>5, <1>a DEF PurgeTelegram, TypeOK, Purge
  <2> QED
    BY <1>5, <2>1 DEF PurgeTelegram, TypeOK, Rows
<1> QED
  BY <1>1, <1>2, <1>3, <1>4, <1>5 DEF PurgeStep

LEMMA NextType == TypeOK /\ [Next]_vars => TypeOK'
<1> SUFFICES ASSUME TypeOK, [Next]_vars PROVE TypeOK'
  OBVIOUS
<1> USE DEF tables, uploadVars, bounds
<1>1. ASSUME NEW m \in pendingDel, TelegramDeletes(m) \/ TelegramRefuses(m)
      PROVE  TypeOK'
  BY <1>1, ConstantsOK DEF TelegramDeletes, TelegramRefuses, Fault, TypeOK, Rows
<1>2. CASE Crash
  <2>1. IdlePurge \in Purge
    BY DEF IdlePurge, Purge, PurgeKinds, RowId
  <2>2. /\ file' \in [Rows' -> Row]
        /\ Rows' \subseteq 1 .. (nextId' - 1)
    BY <1>2, DeleteType DEF Crash
  <2> QED
    BY <1>2, <2>1, <2>2, ConstantsOK DEF Crash, Fault, TypeOK, Rows
<1>3. CASE UNCHANGED vars
  BY <1>3 DEF vars, TypeOK, Rows
<1> QED
  BY <1>1, <1>2, <1>3, UploadType, UserOpType, PurgeType DEF Next

\* Every variable keeps its type.
THEOREM TypeCorrect == Spec => []TypeOK
<1>1. Init => TypeOK
  BY InitType
<1>2. TypeOK /\ [Next]_vars => TypeOK'
  BY NextType
<1> QED
  BY <1>1, <1>2, PTL DEF Spec

-----------------------------------------------------------------------------
(* The inductive invariant.  Most steps are quiet: they give no row other      *)
(* messages and compute no list of orphans.                                    *)

KeepsRefs ==
  /\ Rows' \subseteq Rows
  /\ \A r \in Rows' : file'[r].head = file[r].head /\ file'[r].parts = file[r].parts

BeforeRow == {"idle", "ready", "named"}
PcForward ==
  \A u \in Uploads :
    /\ pc'[u] \in BeforeRow => pc[u] \in BeforeRow
    /\ pc'[u] = "upload" => pc[u] = "upload"

KeepsLists ==
  \A p \in Purges :
    /\ purge'[p].seen <= nextId
    /\ purge'[p].pc \in {"idle", "selected"} => purge'[p].orphans = {}
    /\ \/ purge'[p].orphans = {}
       \/ /\ purge'[p].orphans = purge[p].orphans
          /\ purge'[p].seen = purge[p].seen
          /\ purge'[p].ids = purge[p].ids

Quiet == KeepsRefs /\ PcForward /\ KeepsLists /\ UNCHANGED <<nextId, row>>

LEMMA QuietStep ==
  ASSUME IInv, TypeOK', Quiet
  PROVE  IInv'
<1> USE DEF IInv, Quiet
<1>1. \A r \in Rows' : r \in Rows /\ Refs(r)' = Refs(r)
  BY DEF KeepsRefs, Refs
<1>2. \A u \in Uploads : pc'[u] \in Pending => pc[u] \in Pending
  BY DEF PcForward, Pending, BeforeRow
<1>3. OwnPlaceholder'
  BY DEF OwnPlaceholder, PcForward, BeforeRow
<1>4. PlaceholderEmpty'
  BY <1>1 DEF PlaceholderEmpty, PcForward
<1>5. FreshMessages'
  <2>1. ASSUME NEW r \in Rows', NEW m \in Refs(r)'
        PROVE  pc'[m[1]] \notin Pending
    <3>1. m \in Msg
      BY <1>1, <2>1 DEF TypeOK, Refs, Row
    <3>2. m[1] \in Uploads
      BY <3>1 DEF Msg
    <3>3. r \in Rows /\ m \in Refs(r)
      BY <1>1, <2>1
    <3> QED
      BY <3>2, <3>3, <1>2 DEF FreshMessages
  <2>2. ASSUME NEW p \in Purges, NEW m \in purge'[p].orphans
        PROVE  pc'[m[1]] \notin Pending
    <3>1. m \in purge[p].orphans
      BY <2>2 DEF KeepsLists
    <3>2. m[1] \in Uploads
      BY <3>1 DEF TypeOK, Purge, Msg
    <3> QED
      BY <3>1, <3>2, <1>2 DEF FreshMessages
  <2> QED
    BY <2>1, <2>2 DEF FreshMessages
<1>6. PurgeSeen'
  BY DEF PurgeSeen, KeepsLists
<1>7. PurgeListSound'
  BY <1>1 DEF PurgeListSound, KeepsLists
<1> QED
  BY <1>3, <1>4, <1>5, <1>6, <1>7

LEMMA SameLists ==
  ASSUME IInv, UNCHANGED purge
  PROVE  KeepsLists
  BY DEF IInv, PurgeSeen, KeepsLists

LEMMA SameTables ==
  ASSUME UNCHANGED file
  PROVE  KeepsRefs
  BY DEF KeepsRefs, Rows

LEMMA DeletedRows ==
  ASSUME TypeOK, NEW ids, file' = Without(file, ids)
  PROVE  KeepsRefs
<1>1. file \in [DOMAIN file -> Row]
  BY DEF TypeOK, Rows
<1>2. /\ DOMAIN Without(file, ids) = DOMAIN file \ ids
      /\ \A r \in DOMAIN file \ ids : Without(file, ids)[r] = file[r]
  BY <1>1, WithoutType
<1> QED
  BY <1>2 DEF KeepsRefs, Rows

\* One upload moves on: to a state it may have come from, or past its INSERT.
LEMMA MovesOn ==
  ASSUME TypeOK, NEW u \in Uploads, NEW to, Go(u, to),
         to \in BeforeRow => pc[u] \in BeforeRow, to # "upload"
  PROVE  PcForward
  BY DEF TypeOK, Go, PcForward

LEMMA QuietUpload ==
  ASSUME IInv, NEW u \in Uploads,
         \/ Begin(u) \/ LockAndPick(u) \/ InsertRefused(u) \/ OpenFails(u)
         \/ (\E i \in Parts(u) : SendPart(u, i))
         \/ UploadFails(u) \/ FinalizeRefused(u) \/ FinalizeFails(u)
  PROVE  Quiet
<1> USE DEF tables, bounds
<1>0. TypeOK
  BY DEF IInv
<1>1. /\ UNCHANGED <<nextId, row>>
      /\ UNCHANGED purge
  BY DEF Begin, LockAndPick, InsertRefused, OpenFails, SendPart, UploadFails,
         FinalizeRefused, FinalizeFails
<1>2. KeepsLists
  BY <1>1, SameLists
<1>3. KeepsRefs
  <2>1. CASE file' = file
    BY <2>1, SameTables
  <2>2. CASE file' = Without(file, {row[u]})
    BY <1>0, <2>2, DeletedRows
  <2> QED
    BY <2>1, <2>2 DEF Begin, LockAndPick, InsertRefused, OpenFails, SendPart,
                      UploadFails, FinalizeRefused, FinalizeFails, Cleanup
<1>4. PcForward
  <2>1. CASE UNCHANGED pc
    BY <2>1 DEF PcForward
  <2>2. CASE Go(u, "error")
    BY <1>0, <2>2, MovesOn DEF BeforeRow
  <2>3. CASE Begin(u)
    BY <1>0, <2>3, MovesOn DEF Begin, BeforeRow
  <2>4. CASE LockAndPick(u)
    BY <1>0, <2>4, MovesOn DEF LockAndPick, BeforeRow
  <2> QED
    BY <2>1, <2>2, <2>3, <2>4 DEF InsertRefused, OpenFails, SendPart, UploadFails,
                                 FinalizeRefused, FinalizeFails, Cleanup
<1> QED
  BY <1>1, <1>2, <1>3, <1>4 DEF Quiet

LEMMA QuietUserOp ==
  ASSUME IInv, NEW r \in Rows,
         \/ \E d \in Dirs : PasteMove(r, d)
         \/ \E b \in Bases : Rename(r, b)
         \/ Trash(r)
         \/ Restore(r)
  PROVE  Quiet
<1>0. /\ file \in [Rows -> Row]
      /\ file[r] \in Row
  BY DEF IInv, TypeOK
<1>1. UNCHANGED <<nextId, row, purge, pc>>
  BY DEF PasteMove, Rename, Trash, Restore, Op, uploadVars
<1>2. PICK new : /\ file' = [file EXCEPT ![r] = new]
                 /\ new.head = file[r].head /\ new.parts = file[r].parts
  BY <1>0 DEF PasteMove, Rename, Trash, Restore, Row
<1>3. KeepsRefs
  BY <1>0, <1>2 DEF KeepsRefs, Rows
<1> QED
  BY <1>1, <1>3, SameLists DEF Quiet, PcForward

LEMMA QuietPurge ==
  ASSUME IInv, NEW p \in Purges,
         \/ \E kind \in PurgeKinds : PurgeSelect(p, kind)
         \/ PurgeIssue(p) \/ PurgeRows(p) \/ PurgeTelegram(p)
  PROVE  Quiet
<1> USE DEF tables, uploadVars
<1>0. TypeOK /\ PurgeSeen
  BY DEF IInv
<1>1. UNCHANGED <<nextId, row, pc>>
  BY DEF PurgeSelect, PurgeIssue, PurgeRows, PurgeTelegram
<1>2. KeepsRefs
  <2>1. CASE PurgeRows(p)
    BY <1>0, <2>1, DeletedRows DEF PurgeRows
  <2>2. CASE file' = file
    BY <2>2, SameTables
  <2> QED
    BY <2>1, <2>2 DEF PurgeSelect, PurgeIssue, PurgeTelegram
<1>3. KeepsLists
  <2>0. /\ purge \in [Purges -> Purge] /\ nextId \in Nat /\ 1 <= nextId
        /\ purge[p] \in Purge
    BY <1>0 DEF TypeOK, RowId
  <2>1. ASSUME NEW new, purge' = [purge EXCEPT ![p] = new],
               new.seen <= nextId,
               new.pc \in {"idle", "selected"} => new.orphans = {},
               new.orphans = {} \/ /\ new.orphans = purge[p].orphans
                                   /\ new.seen = purge[p].seen
                                   /\ new.ids = purge[p].ids
        PROVE  KeepsLists
    BY <1>0, <2>0, <2>1 DEF KeepsLists, PurgeSeen
  <2>2. ASSUME purge' = [purge EXCEPT ![p] = IdlePurge]
        PROVE  KeepsLists
    <3>1. IdlePurge.seen = 1 /\ IdlePurge.orphans = {}
      BY DEF IdlePurge
    <3> QED
      BY <2>0, <2>1, <2>2, <3>1
  <2>3. ASSUME NEW to \in {"issued", "deleted"},
               purge' = [purge EXCEPT ![p] = [@ EXCEPT !.pc = to]]
        PROVE  KeepsLists
    <3> DEFINE new == [purge[p] EXCEPT !.pc = to]
    <3>1. /\ new.seen = purge[p].seen /\ new.orphans = purge[p].orphans
          /\ new.ids = purge[p].ids /\ new.pc = to
      BY <2>0 DEF Purge
    <3>2. new.seen <= nextId
      BY <1>0, <3>1 DEF PurgeSeen
    <3>3. purge' = [purge EXCEPT ![p] = new]
      BY <2>3
    <3>4. new.pc \notin {"idle", "selected"}
      BY <3>1
    <3> HIDE DEF new
    <3> QED
      BY <2>1, <3>1, <3>2, <3>3, <3>4
  <2>4. ASSUME NEW kind \in PurgeKinds, PurgeSelect(p, kind)
        PROVE  KeepsLists
    <3>1. PICK ids : purge' = [purge EXCEPT ![p] =
                       [@ EXCEPT !.pc = "selected", !.kind = kind, !.ids = ids]]
      BY <2>4, Zenon DEF PurgeSelect
    <3>2. purge[p].pc = "idle"
      BY <2>4, Zenon DEF PurgeSelect
    <3> DEFINE new == [purge[p] EXCEPT !.pc = "selected", !.kind = kind, !.ids = ids]
    <3>3. /\ new.seen = purge[p].seen
          /\ new.orphans = {}
      BY <1>0, <2>0, <3>2 DEF Purge, PurgeSeen
    <3>4. new.seen <= nextId
      BY <1>0, <3>3 DEF PurgeSeen
    <3> HIDE DEF new
    <3> QED
      BY <2>1, <3>1, <3>3, <3>4 DEF new
  <2>5. CASE PurgeIssue(p)
    <3>1. purge' = [purge EXCEPT ![p] = [@ EXCEPT !.pc = "issued"]]
      BY <2>5 DEF PurgeIssue, Step
    <3> QED
      BY <3>1, <2>3
  <2>6. CASE PurgeRows(p)
    <3>1. \/ purge' = [purge EXCEPT ![p] = [@ EXCEPT !.pc = "deleted"]]
          \/ purge' = [purge EXCEPT ![p] = IdlePurge]
      BY <2>6 DEF PurgeRows
    <3> QED
      BY <3>1, <2>2, <2>3
  <2>7. CASE PurgeTelegram(p)
    BY <2>7, <2>2 DEF PurgeTelegram
  <2> QED
    BY <2>4, <2>5, <2>6, <2>7
<1> QED
  BY <1>1, <1>2, <1>3 DEF Quiet, PcForward

\* A new row has a fresh id, which no purge has seen.
LEMMA InsertedRow ==
  ASSUME TypeOK, NEW new \in Row, Insert(new)
  PROVE  /\ nextId \notin Rows /\ nextId \in Nat /\ nextId > 0
         /\ \A u \in Uploads : row[u] # nextId
         /\ nextId' = nextId + 1
         /\ Rows' = Rows \cup {nextId}
         /\ \A r \in Rows : Refs(r)' = Refs(r)
         /\ \A n \in Rows' : n \notin Rows => n = nextId /\ Refs(n)' = new.head \cup new.parts
<1>1. nextId \notin Rows /\ nextId \in Nat /\ nextId > 0
  BY DEF TypeOK, RowId
<1>2. \A u \in Uploads : row[u] # nextId
  BY <1>1 DEF TypeOK
<1>3. /\ nextId' = nextId + 1
      /\ Rows' = Rows \cup {nextId}
      /\ \A r \in Rows : file'[r] = file[r]
      /\ file'[nextId] = new
  BY <1>1 DEF Insert, Rows
<1> QED
  BY <1>1, <1>2, <1>3 DEF Refs

LEMMA PlaceholderStep ==
  ASSUME IInv, TypeOK', NEW u \in Uploads, InsertPlaceholder(u)
  PROVE  IInv'
<1> USE DEF IInv
<1> DEFINE new == NewRow(Dir(u), Base(u), pick[u], {}, {})
<1>1. new \in Row /\ new.head = {} /\ new.parts = {}
  BY ConstantsOK DEF NewRow, Row, TypeOK, Dir, Base
<1>2. Insert(new)
  BY DEF InsertPlaceholder
<1> HIDE DEF new
<1>3. /\ nextId \notin Rows /\ nextId \in Nat /\ nextId > 0
      /\ \A v \in Uploads : row[v] # nextId
      /\ nextId' = nextId + 1
      /\ Rows' = Rows \cup {nextId}
      /\ \A r \in Rows : Refs(r)' = Refs(r)
      /\ \A n \in Rows' : n \notin Rows => n = nextId /\ Refs(n)' = {}
  BY <1>1, <1>2, InsertedRow
<1>4. /\ row' = [row EXCEPT ![u] = nextId]
      /\ pc' = [pc EXCEPT ![u] = "upload"]
      /\ pc[u] = "named"
      /\ purge' = purge
  BY DEF InsertPlaceholder, Go
<1>5. /\ row \in [Uploads -> Nat]
      /\ DOMAIN pc = Uploads
      /\ \A p \in Purges : purge[p] \in Purge
  BY DEF TypeOK
<1>6. OwnPlaceholder'
  BY <1>3, <1>4, <1>5 DEF OwnPlaceholder
<1>7. PlaceholderEmpty'
  BY <1>3, <1>4, <1>5 DEF PlaceholderEmpty
<1>8. FreshMessages'
  <2>1. \A v \in Uploads : pc'[v] \in Pending => pc[v] \in Pending
    BY <1>4, <1>5 DEF Pending
  <2>2. \A r \in Rows : \A m \in Refs(r) : m[1] \in Uploads
    BY DEF TypeOK, Row, Refs, Msg
  <2>3. \A p \in Purges : \A m \in purge[p].orphans : m[1] \in Uploads
    BY <1>5 DEF Purge, Msg
  <2> QED
    BY <1>3, <1>4, <2>1, <2>2, <2>3 DEF FreshMessages
<1>9. PurgeSeen'
  BY <1>3, <1>4, <1>5 DEF PurgeSeen, Purge, RowId
<1>10. PurgeListSound'
  BY <1>3, <1>4 DEF PurgeListSound
<1> QED
  BY <1>6, <1>7, <1>8, <1>9, <1>10

LEMMA CopyStep ==
  ASSUME IInv, TypeOK', NEW r \in Rows, NEW d \in Dirs, PasteCopy(r, d)
  PROVE  IInv'
<1> USE DEF IInv
<1> DEFINE new == NewRow(d, file[r].base, UniqueSuffix(d, file[r].base, 0),
                         file[r].head, file[r].parts)
<1>0. file[r] \in Row
  BY DEF TypeOK
<1>1. new \in Row /\ new.head \cup new.parts = Refs(r)
  <2>1. UniqueSuffix(d, file[r].base, 0) \in Nat
    BY UniqueSuffixFree, ConstantsOK DEF PasteCopy, FreeSuffixes
  <2> QED
    BY <1>0, <2>1 DEF NewRow, Row, Refs
<1>2. Insert(new)
  BY DEF PasteCopy
<1> HIDE DEF new
<1>3. /\ nextId \notin Rows /\ nextId \in Nat /\ nextId > 0
      /\ \A v \in Uploads : row[v] # nextId
      /\ nextId' = nextId + 1
      /\ Rows' = Rows \cup {nextId}
      /\ \A s \in Rows : Refs(s)' = Refs(s)
      /\ \A n \in Rows' : n \notin Rows => n = nextId /\ Refs(n)' = Refs(r)
  BY <1>1, <1>2, InsertedRow
<1>4. UNCHANGED <<row, pc, purge>>
  BY DEF PasteCopy, Op, uploadVars
<1>5. \A p \in Purges : purge[p] \in Purge
  BY DEF TypeOK
<1>6. OwnPlaceholder'
  BY <1>4 DEF OwnPlaceholder
<1>7. PlaceholderEmpty'
  BY <1>3, <1>4 DEF PlaceholderEmpty
<1>8. FreshMessages'
  BY <1>3, <1>4 DEF FreshMessages
<1>9. PurgeSeen'
  BY <1>3, <1>4, <1>5 DEF PurgeSeen, Purge, RowId
<1>10. PurgeListSound'
  <2>1. \A p \in Purges : purge[p].seen \in Nat /\ purge[p].seen <= nextId
    BY <1>5 DEF Purge, RowId, PurgeSeen
  <2> QED
    BY <1>3, <1>4, <2>1 DEF PurgeListSound
<1> QED
  BY <1>6, <1>7, <1>8, <1>9, <1>10

\* The writes of a finalization leave the messages of other rows alone, and give
\* the upload's own row messages of the upload.
OthersKept(f, g, u) ==
  \A r \in DOMAIN g : r # row[u] => g[r].head = f[r].head /\ g[r].parts = f[r].parts
OwnRow(f, g, u) ==
  row[u] \in DOMAIN g =>
    \A m \in g[row[u]].head \cup g[row[u]].parts :
      m[1] = u \/ m \in f[row[u]].head \cup f[row[u]].parts

LEMMA SetRefs ==
  ASSUME TypeOK, NEW u \in Uploads, NEW f, f \in [DOMAIN f -> Row],
         NEW g, g \in {SetParts(f, u), SetHead(f, u), TakeOver(f, u)}
  PROVE  /\ DOMAIN g = DOMAIN f
         /\ OthersKept(f, g, u)
         /\ OwnRow(f, g, u)
<1>1. \A m \in Messages(u) : m[1] = u
  BY MessagesType
<1>2. CASE g = SetParts(f, u)
  BY <1>1, <1>2 DEF SetParts, OthersKept, OwnRow, Row
<1>3. CASE g = SetHead(f, u)
  BY <1>3 DEF SetHead, OthersKept, OwnRow, Row
<1>4. CASE g = TakeOver(f, u)
  BY <1>4 DEF TakeOver, OthersKept, OwnRow, Row
<1> QED
  BY <1>2, <1>3, <1>4

LEMMA FinalizedRefs ==
  ASSUME TypeOK, NEW u \in Uploads
  PROVE  /\ DOMAIN Finalized(u) \subseteq Rows
         /\ OthersKept(file, Finalized(u), u)
         /\ OwnRow(file, Finalized(u), u)
<1> DEFINE g == SetParts(file, u)
           h == Without(g, {old[u]})
<1>1. file \in [DOMAIN file -> Row]
  BY DEF TypeOK, Rows
<1>2. /\ g \in [DOMAIN file -> Row] /\ DOMAIN g = DOMAIN file
      /\ OthersKept(file, g, u) /\ OwnRow(file, g, u)
  <2>1. g \in [DOMAIN file -> Row]
    BY <1>1, SetType
  <2> QED
    BY <1>1, <2>1, SetRefs
<1>3. CASE Overwrites(u)
  <2>1. /\ h \in [DOMAIN h -> Row] /\ DOMAIN h = DOMAIN file \ {old[u]}
        /\ \A r \in DOMAIN h : h[r] = g[r]
    <3>1. g \in [DOMAIN g -> Row]
      BY <1>2
    <3> HIDE DEF g
    <3>2. /\ h \in [DOMAIN g \ {old[u]} -> Row]
          /\ DOMAIN h = DOMAIN g \ {old[u]}
          /\ \A r \in DOMAIN g \ {old[u]} : h[r] = g[r]
      BY <3>1, WithoutType
    <3> HIDE DEF h
    <3> QED
      BY <1>2, <3>2
  <2>2. Finalized(u) = TakeOver(h, u)
    BY <1>3 DEF Finalized, Swap
  <2> HIDE DEF h
  <2>3. /\ DOMAIN Finalized(u) = DOMAIN h
        /\ OthersKept(h, Finalized(u), u) /\ OwnRow(h, Finalized(u), u)
    BY <2>1, <2>2, SetRefs
  <2> HIDE DEF g
  <2> QED
    BY <1>2, <2>1, <2>3 DEF OthersKept, OwnRow, Rows
<1>4. CASE ~Overwrites(u)
  <2>1. Finalized(u) = SetHead(g, u)
    BY <1>4 DEF Finalized
  <2> HIDE DEF g
  <2>2. /\ DOMAIN Finalized(u) = DOMAIN g
        /\ OthersKept(g, Finalized(u), u) /\ OwnRow(g, Finalized(u), u)
    BY <1>2, <2>1, SetRefs
  <2> QED
    BY <1>2, <2>2 DEF OthersKept, OwnRow, Rows
<1> QED
  BY <1>3, <1>4

\* The upload's row gets messages that no purge can know.
LEMMA FinalizeStep ==
  ASSUME IInv, TypeOK', NEW u \in Uploads, Finalize(u)
  PROVE  IInv'
<1> USE DEF IInv
<1>1. /\ Rows' \subseteq Rows
      /\ \A r \in Rows' : r # row[u] => Refs(r)' = Refs(r)
      /\ \A r \in Rows' : r = row[u] => \A m \in Refs(r)' : m[1] = u
  <2>1. file' = Finalized(u)
    BY DEF Finalize
  <2>2. row[u] \in Rows => Refs(row[u]) = {}
    BY DEF PlaceholderEmpty, Finalize, ReadyToFinalize
  <2> QED
    BY <2>1, <2>2, FinalizedRefs DEF OthersKept, OwnRow, Refs, Rows
<1>2. /\ UNCHANGED <<nextId, row, purge>>
      /\ pc[u] = "upload"
      /\ pc' = [pc EXCEPT ![u] = "done"]
      /\ DOMAIN pc = Uploads
  BY DEF Finalize, ReadyToFinalize, Go, TypeOK
<1>3. OwnPlaceholder'
  BY <1>2 DEF OwnPlaceholder
<1>4. PlaceholderEmpty'
  <2> SUFFICES ASSUME NEW v \in Uploads, pc'[v] = "upload", row[v] \in Rows'
               PROVE  \A r \in Rows' : r = row[v] => Refs(r)' = {}
    BY <1>2 DEF PlaceholderEmpty
  <2>1. v # u /\ pc[v] = "upload" /\ row[v] \in Rows
    BY <1>1, <1>2
  <2>2. Refs(row[v]) = {} /\ row[v] # 0
    BY <2>1 DEF PlaceholderEmpty, TypeOK
  <2>3. row[v] # row[u]
    BY <2>1, <2>2 DEF OwnPlaceholder
  <2> QED
    BY <1>1, <2>2, <2>3
<1>5. FreshMessages'
  <2>1. \A v \in Uploads : pc'[v] \in Pending => pc[v] \in Pending
    BY <1>2 DEF Pending
  <2>2. \A r \in Rows : \A m \in Refs(r) : m[1] \in Uploads
    BY DEF TypeOK, Row, Refs, Msg
  <2>3. \A p \in Purges : \A m \in purge[p].orphans : m[1] \in Uploads
    BY DEF TypeOK, Purge, Msg
  <2>4. pc'[u] \notin Pending
    BY <1>2 DEF Pending
  <2> QED
    BY <1>1, <1>2, <2>1, <2>2, <2>3, <2>4 DEF FreshMessages
<1>6. PurgeSeen'
  BY <1>2 DEF PurgeSeen
<1>7. PurgeListSound'
  <2>1. pc[u] \in Pending
    BY <1>2 DEF Pending
  <2>2. \A p \in Purges : \A m \in purge[p].orphans : m[1] # u
    BY <2>1 DEF FreshMessages
  <2> QED
    BY <1>1, <1>2, <2>2 DEF PurgeListSound
<1> QED
  BY <1>3, <1>4, <1>5, <1>6, <1>7

\* GetOrphanedMessages reads a committed state: its answer is right then.
LEMMA ComputeStep ==
  ASSUME IInv, TypeOK', NEW p \in Purges, PurgeCompute(p)
  PROVE  IInv'
<1> USE DEF IInv, tables, uploadVars
<1>1. UNCHANGED <<file, nextId, row, pc>>
  BY DEF PurgeCompute
<1>2. /\ purge \in [Purges -> Purge] /\ nextId \in RowId
      /\ Rows \subseteq 1 .. (nextId - 1)
  BY DEF TypeOK
<1>3. \A q \in Purges : q # p => purge'[q] = purge[q]
  BY <1>2 DEF PurgeCompute
<1>4. \/ purge'[p] = IdlePurge
      \/ /\ purge'[p].pc = "computed"
         /\ purge'[p].orphans = Orphans(purge[p].ids)
         /\ purge'[p].seen = nextId
         /\ purge'[p].ids = purge[p].ids
  <2> DEFINE new == [purge[p] EXCEPT !.pc = "computed",
                                     !.orphans = Orphans(purge[p].ids),
                                     !.seen = nextId]
  <2>1. purge'[p] = IdlePurge \/ purge'[p] = new
    BY <1>2 DEF PurgeCompute
  <2>2. /\ new.pc = "computed" /\ new.orphans = Orphans(purge[p].ids)
        /\ new.seen = nextId /\ new.ids = purge[p].ids
    BY <1>2 DEF Purge
  <2> HIDE DEF new
  <2> QED
    BY <2>1, <2>2
<1>5. OwnPlaceholder' /\ PlaceholderEmpty'
  BY <1>1 DEF OwnPlaceholder, PlaceholderEmpty, Refs, Rows
<1>6. FreshMessages'
  <2>1. \A m \in Orphans(purge[p].ids) : pc[m[1]] \notin Pending
    BY DEF FreshMessages, Orphans
  <2>2. IdlePurge.orphans = {}
    BY DEF IdlePurge
  <2> QED
    BY <1>1, <1>3, <1>4, <2>1, <2>2 DEF FreshMessages, Refs, Rows
<1>7. PurgeSeen'
  <2>1. IdlePurge.orphans = {} /\ IdlePurge.seen = 1
    BY DEF IdlePurge
  <2> QED
    BY <1>1, <1>2, <1>3, <1>4, <2>1 DEF PurgeSeen, RowId
<1>8. PurgeListSound'
  <2>1. IdlePurge.orphans = {}
    BY DEF IdlePurge
  <2>2. \A r \in Rows : Refs(r) \cap Orphans(purge[p].ids) # {} => r \in purge[p].ids
    BY DEF Orphans
  <2> QED
    BY <1>1, <1>3, <1>4, <2>1, <2>2 DEF PurgeListSound, Refs, Rows
<1> QED
  BY <1>5, <1>6, <1>7, <1>8

LEMMA TelegramQuiet ==
  ASSUME IInv, NEW m \in pendingDel, TelegramDeletes(m) \/ TelegramRefuses(m)
  PROVE  Quiet
<1>1. UNCHANGED <<file, nextId, row, pc, purge>>
  BY DEF TelegramDeletes, TelegramRefuses, tables, uploadVars
<1> QED
  BY <1>1, SameLists, SameTables DEF Quiet, PcForward

LEMMA CrashQuiet ==
  ASSUME IInv, Crash
  PROVE  Quiet
<1>0. TypeOK
  BY DEF IInv
<1>1. KeepsRefs /\ UNCHANGED <<nextId, row>>
  BY <1>0, DeletedRows DEF Crash
<1>2. PcForward
  <2>1. \A u \in Uploads : pc'[u] = "lost" \/ pc'[u] = pc[u]
    BY DEF Crash
  <2> QED
    BY <2>1 DEF PcForward, BeforeRow
<1>3. KeepsLists
  <2>1. \A p \in Purges : purge'[p] = IdlePurge
    BY DEF Crash
  <2>2. IdlePurge.orphans = {} /\ IdlePurge.seen = 1
    BY DEF IdlePurge
  <2>3. nextId \in Nat /\ nextId # 0
    BY <1>0 DEF TypeOK, RowId
  <2> QED
    BY <2>1, <2>2, <2>3 DEF KeepsLists
<1> QED
  BY <1>1, <1>2, <1>3 DEF Quiet

LEMMA InitIInv == Init => IInv
<1> SUFFICES ASSUME Init PROVE IInv
  OBVIOUS
<1>1. TypeOK
  BY InitType
<1>2. Rows = {} /\ \A u \in Uploads : row[u] = 0 /\ pc[u] = "idle"
  BY DEF Init, Rows
<1>3. \A p \in Purges : purge[p].orphans = {} /\ purge[p].seen <= nextId
  BY DEF Init, IdlePurge
<1> QED
  BY <1>1, <1>2, <1>3 DEF IInv, OwnPlaceholder, PlaceholderEmpty, FreshMessages,
                          PurgeSeen, PurgeListSound

\* Every step is quiet, or one of the four above.
LEMMA StepKinds ==
  ASSUME IInv, [Next]_vars
  PROVE  \/ Quiet
         \/ \E u \in Uploads : InsertPlaceholder(u) \/ Finalize(u)
         \/ \E r \in Rows, d \in Dirs : PasteCopy(r, d)
         \/ \E p \in Purges : PurgeCompute(p)
<1>1. ASSUME NEW u \in Uploads,
             Begin(u) \/ UploadStep(u) \/ OpenFails(u) \/ FinalizeFails(u)
      PROVE  Quiet \/ InsertPlaceholder(u) \/ Finalize(u)
  BY <1>1, QuietUpload DEF UploadStep
<1>2. ASSUME UserOp
      PROVE  Quiet \/ \E r \in Rows, d \in Dirs : PasteCopy(r, d)
  BY <1>2, QuietUserOp DEF UserOp
<1>3. ASSUME NEW p \in Purges,
             PurgeStep(p) \/ \E kind \in PurgeKinds : PurgeSelect(p, kind)
      PROVE  Quiet \/ PurgeCompute(p)
  BY <1>3, QuietPurge DEF PurgeStep
<1>4. CASE UNCHANGED vars
  BY <1>4, SameLists, SameTables DEF vars, tables, bounds, Quiet, PcForward
<1> QED
  BY <1>1, <1>2, <1>3, <1>4, TelegramQuiet, CrashQuiet DEF Next

LEMMA NextIInv == IInv /\ [Next]_vars => IInv'
<1> SUFFICES ASSUME IInv, [Next]_vars PROVE IInv'
  OBVIOUS
<1>1. TypeOK'
  BY NextType DEF IInv
<1> QED
  BY <1>1, StepKinds, QuietStep, PlaceholderStep, FinalizeStep, CopyStep, ComputeStep

\* The invariant of the uploads and the purges together.
THEOREM Invariant == Spec => []IInv
<1> QED
  BY InitIInv, NextIInv, PTL DEF Spec

\* A purge's list names messages of its own rows only, copies made meanwhile aside.
THEOREM PurgeListsSound == Spec => []PurgeListSound
<1>1. IInv => PurgeListSound
  BY DEF IInv
<1> QED
  BY <1>1, Invariant, PTL

\* Whatever runs concurrently, a row that has messages keeps those messages.
THEOREM MessagesSettledOnce == Spec => RefsWriteOnce
<1> DEFINE Settled == \A r \in Rows \cap Rows' :
                        file[r].head # {} => /\ file'[r].head = file[r].head
                                             /\ file'[r].parts = file[r].parts
<1>1. IInv /\ [Next]_vars => [Settled]_vars
  <2> SUFFICES ASSUME IInv, [Next]_vars PROVE Settled
    OBVIOUS
  <2>1. CASE Quiet
    BY <2>1 DEF Quiet, KeepsRefs
  <2>2. ASSUME NEW new, Insert(new) PROVE Settled
    <3>1. nextId \notin Rows
      BY DEF IInv, TypeOK, RowId
    <3> QED
      BY <2>2, <3>1 DEF Insert, Rows
  <2>3. ASSUME NEW u \in Uploads, Finalize(u) PROVE Settled
    <3>1. TypeOK
      BY DEF IInv
    <3>2. row[u] \in Rows => file[row[u]].head = {}
      BY <2>3 DEF IInv, PlaceholderEmpty, Finalize, ReadyToFinalize, Refs
    <3>3. file' = Finalized(u) /\ OthersKept(file, Finalized(u), u)
      BY <2>3, <3>1, FinalizedRefs DEF Finalize
    <3> QED
      BY <3>2, <3>3 DEF OthersKept, Rows
  <2>4. CASE UNCHANGED file
    BY <2>4 DEF Rows
  <2>5. \/ Quiet \/ (\E new : Insert(new)) \/ (\E u \in Uploads : Finalize(u))
        \/ UNCHANGED file
    BY StepKinds DEF InsertPlaceholder, PasteCopy, PurgeCompute, tables
  <2> QED
    BY <2>1, <2>2, <2>3, <2>4, <2>5
<1> QED
  BY <1>1, Invariant, PTL DEF Spec, RefsWriteOnce
=============================================================================
