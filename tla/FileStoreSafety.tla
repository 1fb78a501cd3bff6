--------------------------- MODULE FileStoreSafety ---------------------------
(***************************************************************************)
(* What the invariant of FileStoreProofs is for: rows are whole, a done    *)
(* upload is stored, no message is lost or leaked, names are unique.  Each *)
(* holds for every number of uploads, purges, directories and names.       *)
(***************************************************************************)
EXTENDS FileStoreProofs

-----------------------------------------------------------------------------
(* What a step does to the messages of the rows *)

LEMMA JobFixed == ASSUME [Next]_vars PROVE job' = job
  BY DEF Next, vars, uploadVars, Begin, UploadStep, LockAndPick, InsertPlaceholder,
         InsertRefused, SendPart, UploadFails, Finalize, FinalizeRefused, OpenFails,
         FinalizeFails, TelegramDeletes, TelegramRefuses, UserOp, PasteCopy, PasteMove,
         Rename, Trash, Restore, Op, PurgeStep, PurgeSelect, PurgeCompute, PurgeIssue,
         PurgeRows, PurgeTelegram, Crash

\* The finalization of an upload that replaces nothing writes its own row only, and
\* there the messages of all its parts.
LEMMA FinalizedPlain ==
  ASSUME IInv, NEW u \in Uploads, Finalize(u), ~Overwrites(u)
  PROVE  /\ Rows' = Rows
         /\ \A r \in Rows : r # row[u] => file'[r] = file[r]
         /\ \A r \in Rows : /\ file'[r].dir = file[r].dir /\ file'[r].base = file[r].base
                            /\ file'[r].k = file[r].k /\ file'[r].trashed = file[r].trashed
         /\ row[u] \in Rows => /\ file'[row[u]].head = {<<u, 1>>}
                               /\ file'[row[u]].parts =
                                    IF job[u].parts > 1 THEN Messages(u) ELSE {}
<1>1. file \in [Rows -> Row]
  BY DEF IInv, TypeOK
<1>2. file' = SetHead(SetParts(file, u), u)
  BY DEF Finalize, Finalized
<1>3. row[u] \in Rows => file[row[u]].parts = {}
  BY DEF IInv, PlaceholderEmpty, Finalize, ReadyToFinalize, Refs
<1>4. job[u].parts > 1 => row[u] \in Rows
  BY DEF Finalize, PartsRefused
<1>5. CASE row[u] \notin Rows
  <2>1. file' = file
    BY <1>2, <1>4, <1>5 DEF SetHead, SetParts, Rows
  <2> QED
    BY <1>5, <2>1 DEF Rows
<1>6. CASE row[u] \in Rows
  <2> DEFINE f == SetParts(file, u)
  <2>1. /\ f \in [Rows -> Row]
        /\ \A r \in Rows : r # row[u] => f[r] = file[r]
        /\ f[row[u]].parts = IF job[u].parts > 1 THEN Messages(u) ELSE {}
        /\ f[row[u]].dir = file[row[u]].dir /\ f[row[u]].base = file[row[u]].base
        /\ f[row[u]].k = file[row[u]].k /\ f[row[u]].trashed = file[row[u]].trashed
    <3>1. Messages(u) \in SUBSET Msg
      BY MessagesType DEF IInv
    <3>2. file[row[u]] \in Row
      BY <1>1, <1>6
    <3> QED
      BY <1>1, <1>3, <1>6, <3>1, <3>2 DEF SetParts, Row
  <2> HIDE DEF f
  <2>2. file' = [f EXCEPT ![row[u]] = [@ EXCEPT !.head = {<<u, 1>>}]]
    BY <1>2, <1>6, <2>1 DEF SetHead, f
  <2>3. f[row[u]] \in Row
    BY <1>6, <2>1
  <2> QED
    BY <1>6, <2>1, <2>2, <2>3 DEF Rows, Row
<1> QED
  BY <1>5, <1>6

\* All of its messages, when all parts were sent.
LEMMA AllMessages ==
  ASSUME NEW u \in Uploads, Finalize(u)
  PROVE  Messages(u) = {<<u, i>> : i \in Parts(u)}
  BY DEF Finalize, ReadyToFinalize, AllSent, Messages

\* A new row is a placeholder or a copy.
LEMMA RefsStep ==
  ASSUME IInv, [Next]_vars
  PROVE  \/ KeepsRefs
         \/ \E new \in Row :
              /\ Insert(new)
              /\ \/ new.head = {} /\ new.parts = {}
                 \/ \E r \in Rows : /\ new.head = file[r].head /\ new.parts = file[r].parts
                                    /\ "copy" \in used'
         \/ \E u \in Uploads : Finalize(u)
<1>1. ASSUME NEW u \in Uploads, InsertPlaceholder(u)
      PROVE  \E new \in Row : Insert(new) /\ new.head = {} /\ new.parts = {}
  <2> DEFINE new == NewRow(Dir(u), Base(u), pick[u], {}, {})
  <2>1. new \in Row /\ new.head = {} /\ new.parts = {}
    BY ConstantsOK DEF NewRow, Row, IInv, TypeOK, Dir, Base
  <2>2. Insert(new)
    BY <1>1 DEF InsertPlaceholder
  <2> HIDE DEF new
  <2> QED
    BY <2>1, <2>2
<1>2. ASSUME NEW r \in Rows, NEW d \in Dirs, PasteCopy(r, d)
      PROVE  \E new \in Row : /\ Insert(new)
                              /\ new.head = file[r].head /\ new.parts = file[r].parts
                              /\ "copy" \in used'
  <2> DEFINE new == NewRow(d, file[r].base, UniqueSuffix(d, file[r].base, 0),
                           file[r].head, file[r].parts)
  <2>1. /\ new \in Row /\ new.head = file[r].head /\ new.parts = file[r].parts
    <3>1. UniqueSuffix(d, file[r].base, 0) \in Nat
      BY <1>2, UniqueSuffixFree, ConstantsOK DEF PasteCopy, FreeSuffixes
    <3>2. file[r] \in Row
      BY DEF IInv, TypeOK
    <3> QED
      BY <3>1, <3>2 DEF NewRow, Row
  <2>2. Insert(new) /\ "copy" \in used'
    BY <1>2 DEF PasteCopy, Op
  <2> HIDE DEF new
  <2> QED
    BY <2>1, <2>2
<1>3. ASSUME NEW p \in Purges, PurgeCompute(p)
      PROVE  KeepsRefs
  BY <1>3, SameTables DEF PurgeCompute, tables
<1> QED
  BY <1>1, <1>2, <1>3, StepKinds DEF Quiet

-----------------------------------------------------------------------------
(* Rows are whole, and a done upload is stored *)

LEMMA WholeStep ==
  ASSUME IInv, RowsWhole, [Next]_vars
  PROVE  RowsWhole'
<1> SUFFICES ASSUME PlainUploads, NEW r \in Rows'
             PROVE  Refs(r)' = {} \/ \E u \in Uploads : HoldsAllOf(r, u)'
  BY JobFixed DEF RowsWhole, PlainUploads
<1>1. job' = job
  BY JobFixed
<1>2. ASSUME NEW s \in Rows, file'[r].head = file[s].head, file'[r].parts = file[s].parts
      PROVE  Refs(r)' = {} \/ \E u \in Uploads : HoldsAllOf(r, u)'
  <2>1. Refs(s) = {} \/ \E u \in Uploads : HoldsAllOf(s, u)
    BY DEF RowsWhole
  <2> QED
    BY <1>1, <1>2, <2>1 DEF Refs, HoldsAllOf, Parts
<1>3. CASE KeepsRefs
  BY <1>2, <1>3 DEF KeepsRefs
<1>4. ASSUME NEW new \in Row, Insert(new),
             \/ new.head = {} /\ new.parts = {}
             \/ \E s \in Rows : new.head = file[s].head /\ new.parts = file[s].parts
      PROVE  Refs(r)' = {} \/ \E u \in Uploads : HoldsAllOf(r, u)'
  <2>1. /\ nextId \notin Rows
        /\ r \in Rows \cup {nextId}
        /\ file'[r] = IF r = nextId THEN new ELSE file[r]
    BY <1>4 DEF Insert, IInv, TypeOK, RowId, Rows
  <2>2. CASE r \in Rows
    BY <1>2, <2>1, <2>2
  <2>3. CASE r = nextId
    BY <1>2, <1>4, <2>1, <2>3 DEF Refs
  <2> QED
    BY <2>1, <2>2, <2>3
<1>5. ASSUME NEW u \in Uploads, Finalize(u)
      PROVE  Refs(r)' = {} \/ \E v \in Uploads : HoldsAllOf(r, v)'
  <2>1. ~Overwrites(u)
    BY DEF PlainUploads, Overwrites
  <2>2. CASE r # row[u]
    BY <1>2, <1>5, <2>1, <2>2, FinalizedPlain
  <2>3. CASE r = row[u]
    BY <1>1, <1>5, <2>1, <2>3, FinalizedPlain, AllMessages DEF HoldsAllOf, Parts
  <2> QED
    BY <2>2, <2>3
<1> QED
  BY <1>3, <1>4, <1>5, RefsStep

\* Where no upload overwrites, a reader never sees a row with some of the parts of its
\* file: rows are placeholders or complete, copies included.
THEOREM RowsAreWhole == Spec => []RowsWhole
<1>1. Init => RowsWhole
  BY DEF Init, RowsWhole, Rows
<1>2. IInv /\ RowsWhole /\ [Next]_vars => RowsWhole'
  BY WholeStep
<1> QED
  BY <1>1, <1>2, Invariant, PTL DEF Spec

\* An upload reaches "done" by its finalization only, and a placeholder is new.
LEMMA DoneOnlyFinalized ==
  ASSUME IInv, [Next]_vars, NEW u \in Uploads, pc'[u] = "done"
  PROVE  Finalize(u) \/ (pc[u] = "done" /\ row'[u] = row[u])
<1> USE DEF IInv, TypeOK, Go, uploadVars
<1>1. ASSUME NEW v \in Uploads,
             Begin(v) \/ UploadStep(v) \/ OpenFails(v) \/ FinalizeFails(v)
      PROVE  Finalize(u) \/ (pc[u] = "done" /\ row'[u] = row[u])
  BY <1>1 DEF Begin, UploadStep, LockAndPick, InsertPlaceholder, InsertRefused, SendPart,
     UploadFails, Finalize, FinalizeRefused, OpenFails, FinalizeFails, Cleanup
<1>2. CASE UNCHANGED <<pc, row>>
  BY <1>2
<1>3. CASE Crash
  BY <1>3 DEF Crash
<1> QED
  BY <1>1, <1>2, <1>3
     DEF Next, vars, TelegramDeletes, TelegramRefuses, UserOp, PasteCopy, PasteMove,
         Rename, Trash, Restore, Op, PurgeStep, PurgeSelect, PurgeCompute, PurgeIssue,
         PurgeRows, PurgeTelegram

LEMMA DoneStep ==
  ASSUME IInv, DoneStored, [Next]_vars
  PROVE  DoneStored'
<1> SUFFICES ASSUME PlainUploads, NEW u \in Uploads, pc'[u] = "done", row'[u] \in Rows'
             PROVE  HoldsAllOf(row[u], u)' 
  BY JobFixed DEF DoneStored, DoneMeansStored, PlainUploads
<1>1. job' = job /\ TypeOK'
  BY JobFixed, NextType DEF IInv
<1>2. row'[u] # 0
  BY <1>1 DEF TypeOK
<1>3. CASE Finalize(u)
  <2>1. ~Overwrites(u) /\ row' = row
    BY <1>3 DEF PlainUploads, Overwrites, Finalize
  <2> QED
    BY <1>1, <1>3, <2>1, FinalizedPlain, AllMessages DEF HoldsAllOf, Parts
<1>4. CASE pc[u] = "done" /\ row'[u] = row[u]
  <2>1. row[u] \in 0 .. (nextId - 1) /\ nextId \in Nat
    BY DEF IInv, TypeOK, RowId
  <2>2. row[u] \in Rows =>
          file'[row[u]].head = file[row[u]].head /\ file'[row[u]].parts = file[row[u]].parts
    <3>1. ASSUME NEW v \in Uploads, Finalize(v)
          PROVE  row[u] \in Rows => file'[row[u]] = file[row[u]]
      <4>1. v # u
        BY <1>4, <3>1 DEF Finalize, ReadyToFinalize
      <4>2. row[u] # row[v]
        BY <1>2, <1>4, <4>1 DEF IInv, OwnPlaceholder
      <4>3. ~Overwrites(v)
        BY DEF PlainUploads, Overwrites
      <4> QED
        BY <3>1, <4>2, <4>3, FinalizedPlain
    <3>2. ASSUME NEW new \in Row, Insert(new)
          PROVE  row[u] \in Rows => file'[row[u]] = file[row[u]]
      BY <2>1, <3>2 DEF Insert, Rows
    <3>3. ASSUME KeepsRefs
          PROVE  row[u] \in Rows => /\ file'[row[u]].head = file[row[u]].head
                                    /\ file'[row[u]].parts = file[row[u]].parts
      BY <1>4, <3>3 DEF KeepsRefs
    <3> QED
      BY <3>1, <3>2, <3>3, RefsStep
  <2>3. row[u] \in Rows
    <3>1. ASSUME NEW new \in Row, Insert(new) PROVE row[u] \in Rows
      BY <1>4, <2>1, <3>1, InsertType DEF IInv
    <3>2. ASSUME NEW v \in Uploads, Finalize(v) PROVE row[u] \in Rows
      BY <1>4, <3>2, FinalizedPlain DEF PlainUploads, Overwrites
    <3> QED
      BY <1>4, <3>1, <3>2, RefsStep DEF KeepsRefs
  <2>4. HoldsAllOf(row[u], u)
    BY <1>4, <2>3 DEF DoneStored, DoneMeansStored
  <2> QED
    BY <1>1, <1>4, <2>2, <2>3, <2>4 DEF HoldsAllOf, Parts
<1> QED
  BY <1>2, <1>3, <1>4, DoneOnlyFinalized

\* Where no upload overwrites, an upload reported done has all of its parts in the row,
\* unless somebody deleted the row.
THEOREM DoneIsStored == Spec => []DoneStored
<1>1. Init => DoneStored
  BY DEF Init, DoneStored, DoneMeansStored
<1>2. IInv /\ DoneStored /\ [Next]_vars => DoneStored'
  BY DoneStep
<1> QED
  BY <1>1, <1>2, Invariant, PTL DEF Spec

-----------------------------------------------------------------------------
(* No message is leaked *)

\* Nothing failed outside the uploads, nobody purged, no upload overwrites.
Sheltered ==
  /\ faults \cap {"crash", "tg"} = {}
  /\ used \cap PurgeKinds = {}
  /\ PlainUploads

Covered(m) ==
  \/ \E r \in Rows : m \in Refs(r)
  \/ m \in pendingDel
  \/ pc[m[1]] = "upload"

\* Then placeholders stay, and Telegram holds only what uploads sent.
ShelteredInv ==
  Sheltered =>
    /\ \A p \in Purges : purge[p].pc = "idle"
    /\ \A u \in Uploads : pc[u] = "upload" => row[u] \in Rows
    /\ \A u \in Uploads : pc[u] \in BeforeRow => sent[u] = {}
    /\ \A m \in tg : m[2] \in sent[m[1]] /\ Covered(m)

\* The bounds only grow.
LEMMA UsedGrows ==
  ASSUME [Next]_vars
  PROVE  used \subseteq used' /\ faults \subseteq faults'
  BY DEF Next, vars, bounds, uploadVars, Begin, UploadStep, LockAndPick, InsertPlaceholder,
         InsertRefused, SendPart, UploadFails, Finalize, FinalizeRefused, OpenFails, Fault,
         FinalizeFails, TelegramDeletes, TelegramRefuses, UserOp, PasteCopy, PasteMove,
         Rename, Trash, Restore, Op, PurgeStep, PurgeSelect, PurgeCompute, PurgeIssue,
         PurgeRows, PurgeTelegram, Crash

LEMMA StillSheltered == ASSUME [Next]_vars, Sheltered' PROVE Sheltered
  BY UsedGrows, JobFixed DEF Sheltered, PlainUploads

\* The deferred cleanup: the row is gone, its messages are being deleted.
Cleans(u) ==
  /\ pc[u] = "upload" /\ pc' = [pc EXCEPT ![u] = "error"]
  /\ file' = Without(file, {row[u]})
  /\ pendingDel \cup Messages(u) \subseteq pendingDel'
  /\ UNCHANGED <<tg, row, sent, purge, job>>

LEMMA CleaningSteps ==
  ASSUME NEW u \in Uploads, UploadFails(u) \/ FinalizeRefused(u) \/ FinalizeFails(u)
  PROVE  Cleans(u)
  BY DEF UploadFails, FinalizeRefused, FinalizeFails, Cleanup, Go, ReadyToFinalize, Cleans

LEMMA CleansSheltered ==
  ASSUME IInv, ShelteredInv, Sheltered, NEW u \in Uploads, Cleans(u)
  PROVE  ShelteredInv'
<1> USE DEF Cleans
<1>1. /\ Rows' = Rows \ {row[u]}
      /\ \A r \in Rows' : Refs(r)' = Refs(r)
  <2>1. file \in [DOMAIN file -> Row]
    BY DEF IInv, TypeOK, Rows
  <2>2. /\ DOMAIN Without(file, {row[u]}) = DOMAIN file \ {row[u]}
        /\ \A r \in DOMAIN file \ {row[u]} : Without(file, {row[u]})[r] = file[r]
    BY <2>1, WithoutType
  <2> QED
    BY <2>2 DEF Rows, Refs
<1>2. row[u] \in Rows => Refs(row[u]) = {}
  BY DEF IInv, PlaceholderEmpty
<1>3. ASSUME NEW v \in Uploads, pc'[v] = "upload"
      PROVE  row[v] \in Rows'
  <2>1. v # u /\ pc[v] = "upload" /\ row[v] \in Rows
    BY <1>3 DEF ShelteredInv, IInv, TypeOK
  <2>2. row[v] # 0 /\ row[v] # row[u]
    BY <2>1 DEF IInv, TypeOK, OwnPlaceholder
  <2> QED
    BY <1>1, <2>1, <2>2
<1>4. \A v \in Uploads : pc'[v] \in BeforeRow => sent[v] = {}
  BY DEF ShelteredInv, IInv, TypeOK, BeforeRow
<1>5. ASSUME NEW m \in tg
      PROVE  m[2] \in sent[m[1]] /\ Covered(m)'
  <2>1. m[2] \in sent[m[1]] /\ Covered(m) /\ m[1] \in Uploads /\ m = <<m[1], m[2]>>
    BY DEF ShelteredInv, IInv, TypeOK, Msg
  <2>2. CASE m[1] = u
    BY <2>1, <2>2 DEF Covered, Messages
  <2>3. CASE m[1] # u
    BY <1>1, <1>2, <2>1, <2>3 DEF Covered, IInv, TypeOK
  <2> QED
    BY <2>1, <2>2, <2>3
<1> QED
  BY <1>3, <1>4, <1>5 DEF ShelteredInv

LEMMA FinalizeSheltered ==
  ASSUME IInv, ShelteredInv, Sheltered, NEW u \in Uploads, Finalize(u)
  PROVE  ShelteredInv'
<1>1. /\ pc[u] = "upload" /\ pc' = [pc EXCEPT ![u] = "done"]
      /\ UNCHANGED <<tg, row, sent, purge, job>>
      /\ pendingDel \subseteq pendingDel'
  BY DEF Finalize, ReadyToFinalize, Go
<1>2. row[u] \in Rows
  BY <1>1 DEF ShelteredInv
<1>3. ~Overwrites(u)
  BY DEF Sheltered, PlainUploads, Overwrites
<1>4. /\ Rows' = Rows
      /\ \A r \in Rows : r # row[u] => Refs(r)' = Refs(r)
      /\ Refs(row[u]) = {}
  BY <1>1, <1>2, <1>3, FinalizedPlain DEF Refs, IInv, PlaceholderEmpty
<1>5. Messages(u) \subseteq Refs(row[u])'
  <2>1. Messages(u) = {<<u, i>> : i \in 1 .. job[u].parts}
    BY AllMessages DEF Parts
  <2>2. job[u].parts \in Nat \ {0}
    BY ConstantsOK DEF IInv, TypeOK
  <2>3. CASE job[u].parts > 1
    BY <1>1, <1>2, <1>3, <2>3, FinalizedPlain DEF Refs
  <2>4. CASE job[u].parts = 1
    <3>1. file'[row[u]].head = {<<u, 1>>}
      BY <1>2, <1>3, FinalizedPlain
    <3> QED
      BY <1>1, <2>1, <2>4, <3>1 DEF Refs
  <2> QED
    BY <2>2, <2>3, <2>4
<1>6. ASSUME NEW m \in tg
      PROVE  m[2] \in sent[m[1]] /\ Covered(m)'
  <2>1. m[2] \in sent[m[1]] /\ Covered(m) /\ m[1] \in Uploads /\ m = <<m[1], m[2]>>
    BY DEF ShelteredInv, IInv, TypeOK, Msg
  <2>2. CASE m[1] = u
    BY <1>1, <1>2, <1>4, <1>5, <2>1, <2>2 DEF Covered, Messages
  <2>3. CASE m[1] # u
    BY <1>1, <1>4, <2>1, <2>3 DEF Covered, IInv, TypeOK
  <2> QED
    BY <2>1, <2>2, <2>3
<1>7. \A v \in Uploads : /\ pc'[v] = "upload" => row[v] \in Rows'
                         /\ pc'[v] \in BeforeRow => sent[v] = {}
  BY <1>1, <1>4 DEF ShelteredInv, IInv, TypeOK, BeforeRow
<1> QED
  BY <1>1, <1>6, <1>7 DEF ShelteredInv

\* A step that keeps every row and the messages it has, and sends nothing.
LEMMA SteadySheltered ==
  ASSUME IInv, ShelteredInv, Sheltered,
         Rows \subseteq Rows', \A r \in Rows : Refs(r)' = Refs(r),
         \A u \in Uploads : /\ pc'[u] \in BeforeRow => pc[u] \in BeforeRow
                            /\ pc'[u] = "upload" => pc[u] = "upload" /\ row'[u] = row[u]
                            /\ pc[u] = "upload" /\ sent[u] # {} => pc'[u] = "upload",
         tg' \subseteq tg, \A m \in tg' : m \in pendingDel => m \in pendingDel',
         UNCHANGED <<sent, purge>>
  PROVE  ShelteredInv'
<1>1. ASSUME NEW m \in tg'
      PROVE  m[2] \in sent[m[1]] /\ Covered(m)'
  <2>1. m \in tg /\ m[2] \in sent[m[1]] /\ Covered(m) /\ m[1] \in Uploads
    BY DEF ShelteredInv, IInv, TypeOK, Msg
  <2> QED
    BY <2>1 DEF Covered
<1>2. \A u \in Uploads : /\ pc'[u] = "upload" => row'[u] \in Rows'
                         /\ pc'[u] \in BeforeRow => sent[u] = {}
  BY DEF ShelteredInv
<1> QED
  BY <1>1, <1>2 DEF ShelteredInv

LEMMA ShelteredStep ==
  ASSUME IInv, ShelteredInv, [Next]_vars
  PROVE  ShelteredInv'
<1> SUFFICES ASSUME Sheltered, Sheltered'
             PROVE  ShelteredInv'
  BY StillSheltered DEF ShelteredInv
<1> USE DEF tables, uploadVars, bounds
<1>1. ASSUME NEW u \in Uploads,
             Begin(u) \/ LockAndPick(u) \/ InsertRefused(u) \/ OpenFails(u)
      PROVE  ShelteredInv'
  <2>1. UNCHANGED <<file, row, tg, pendingDel, sent, purge>>
    BY <1>1 DEF Begin, LockAndPick, InsertRefused, OpenFails
  <2>2. \A v \in Uploads :
          /\ pc'[v] \in BeforeRow => pc[v] \in BeforeRow
          /\ pc'[v] = "upload" => pc[v] = "upload"
          /\ pc[v] = "upload" /\ sent[v] # {} => pc'[v] = "upload"
    BY <1>1 DEF Begin, LockAndPick, InsertRefused, OpenFails, Go, BeforeRow, IInv, TypeOK
  <2> QED
    BY <2>1, <2>2, SteadySheltered DEF Rows, Refs
<1>2. ASSUME NEW u \in Uploads, InsertPlaceholder(u)
      PROVE  ShelteredInv'
  <2> DEFINE new == NewRow(Dir(u), Base(u), pick[u], {}, {})
  <2>1. new \in Row
    BY ConstantsOK DEF NewRow, Row, IInv, TypeOK, Dir, Base
  <2>2. Insert(new)
    BY <1>2 DEF InsertPlaceholder
  <2> HIDE DEF new
  <2>3. Rows' = Rows \cup {nextId} /\ \A r \in Rows : Refs(r)' = Refs(r)
    BY <2>1, <2>2, InsertedRow DEF IInv
  <2>4. /\ pc[u] = "named" /\ pc' = [pc EXCEPT ![u] = "upload"]
        /\ row' = [row EXCEPT ![u] = nextId]
        /\ UNCHANGED <<tg, pendingDel, sent, purge>>
    BY <1>2 DEF InsertPlaceholder, Go
  <2>5. \A v \in Uploads : /\ pc'[v] = "upload" => row'[v] \in Rows'
                           /\ pc'[v] \in BeforeRow => sent[v] = {}
    BY <2>3, <2>4 DEF ShelteredInv, IInv, TypeOK, BeforeRow
  <2>6. ASSUME NEW m \in tg
        PROVE  m[2] \in sent[m[1]] /\ Covered(m)'
    <3>1. m[2] \in sent[m[1]] /\ Covered(m) /\ m[1] \in Uploads
      BY DEF ShelteredInv, IInv, TypeOK, Msg
    <3> QED
      BY <2>3, <2>4, <3>1 DEF Covered, IInv, TypeOK
  <2> QED
    BY <2>4, <2>5, <2>6 DEF ShelteredInv
<1>3. ASSUME NEW u \in Uploads, NEW i \in Parts(u), SendPart(u, i)
      PROVE  ShelteredInv'
  <2>1. /\ pc[u] = "upload" /\ tg' = tg \cup {<<u, i>>}
        /\ sent' = [sent EXCEPT ![u] = @ \cup {i}]
        /\ UNCHANGED <<file, pc, row, pendingDel, purge>>
    BY <1>3 DEF SendPart
  <2>2. \A v \in Uploads : /\ pc[v] = "upload" => row[v] \in Rows'
                           /\ pc[v] \in BeforeRow => sent'[v] = {}
    BY <2>1 DEF ShelteredInv, IInv, TypeOK, BeforeRow, Rows
  <2>3. ASSUME NEW m \in tg'
        PROVE  m[2] \in sent'[m[1]] /\ Covered(m)'
    <3>1. CASE m = <<u, i>>
      BY <2>1, <3>1 DEF Covered, IInv, TypeOK
    <3>2. CASE m \in tg
      <4>1. m[2] \in sent[m[1]] /\ Covered(m) /\ m[1] \in Uploads
        BY <3>2 DEF ShelteredInv, IInv, TypeOK, Msg
      <4> QED
        BY <2>1, <4>1 DEF Covered, Rows, Refs, IInv, TypeOK
    <3> QED
      BY <2>1, <3>1, <3>2
  <2> QED
    BY <2>1, <2>2, <2>3 DEF ShelteredInv
<1>4. ASSUME NEW m \in pendingDel, TelegramDeletes(m)
      PROVE  ShelteredInv'
  <2>1. /\ UNCHANGED <<file, row, pc, sent, purge>>
        /\ tg' = tg \ {m} /\ pendingDel' = pendingDel \ {m}
    BY <1>4 DEF TelegramDeletes
  <2> QED
    BY <2>1, SteadySheltered DEF Rows, Refs
<1>5. ASSUME NEW m \in pendingDel, TelegramRefuses(m)
      PROVE  FALSE
  BY <1>5 DEF TelegramRefuses, Fault, Sheltered
<1>6. CASE UserOp
  <2>1. UNCHANGED <<row, pc, tg, pendingDel, sent, purge>>
    BY <1>6 DEF UserOp, PasteCopy, PasteMove, Rename, Trash, Restore, Op
  <2>2. Rows \subseteq Rows' /\ \A r \in Rows : Refs(r)' = Refs(r)
    <3>1. PICK r \in Rows :
            \/ \E d \in Dirs : PasteCopy(r, d) \/ PasteMove(r, d)
            \/ \E b \in Bases : Rename(r, b)
            \/ Trash(r)
            \/ Restore(r)
      BY <1>6 DEF UserOp
    <3>2. file \in [Rows -> Row] /\ file[r] \in Row /\ nextId \notin Rows
      BY DEF IInv, TypeOK, RowId
    <3>3. ASSUME NEW d \in Dirs, PasteCopy(r, d)
          PROVE  Rows \subseteq Rows' /\ \A s \in Rows : Refs(s)' = Refs(s)
      <4>1. \E new : Insert(new)
        BY <3>3 DEF PasteCopy
      <4> QED
        BY <3>2, <4>1 DEF Insert, Rows, Refs
    <3>4. CASE \/ \E d \in Dirs : PasteMove(r, d)
               \/ \E b \in Bases : Rename(r, b)
               \/ Trash(r)
               \/ Restore(r)
      <4>1. PICK new : /\ file' = [file EXCEPT ![r] = new]
                       /\ new.head = file[r].head /\ new.parts = file[r].parts
        BY <3>2, <3>4 DEF PasteMove, Rename, Trash, Restore, Row
      <4> QED
        BY <3>2, <4>1 DEF Rows, Refs
    <3> QED
      BY <3>1, <3>3, <3>4
  <2> QED
    BY <2>1, <2>2, SteadySheltered
<1>7. ASSUME NEW p \in Purges,
             PurgeStep(p) \/ \E kind \in PurgeKinds : PurgeSelect(p, kind)
      PROVE  FALSE
  <2>1. purge[p].pc = "idle"
    BY DEF ShelteredInv
  <2>2. ASSUME NEW kind \in PurgeKinds, PurgeSelect(p, kind)
        PROVE  FALSE
    <3>1. used' = used \cup {kind}
      BY <2>2, Zenon DEF PurgeSelect
    <3> QED
      BY <3>1 DEF Sheltered
  <2>3. CASE PurgeStep(p)
    BY <2>1, <2>3 DEF PurgeStep, PurgeCompute, PurgeIssue, PurgeRows, RowsFirst,
       PurgeTelegram
  <2> QED
    BY <1>7, <2>2, <2>3
<1>8. CASE Crash
  BY <1>8 DEF Crash, Fault, Sheltered
<1>9. CASE UNCHANGED vars
  BY <1>9, SteadySheltered DEF vars, Rows, Refs
<1> QED
  BY <1>1, <1>2, <1>3, <1>4, <1>5, <1>6, <1>7, <1>8, <1>9, CleaningSteps, CleansSheltered,
     FinalizeSheltered DEF Next, UploadStep

\* Every path through an upload that overwrites nothing, successful or not, accounts for
\* the messages it sent, unless the server or Telegram fails or somebody purges.
THEOREM NothingLeaks == Spec => []NoLeak
<1>1. Init => ShelteredInv
  BY DEF Init, ShelteredInv, IdlePurge
<1>2. IInv /\ ShelteredInv /\ [Next]_vars => ShelteredInv'
  BY ShelteredStep
<1>3. ShelteredInv => NoLeak
  BY DEF ShelteredInv, Sheltered, NoLeak, Covered
<1> QED
  BY <1>1, <1>2, <1>3, Invariant, PTL DEF Spec

-----------------------------------------------------------------------------
(* No file loses its messages *)

\* What a purge does, and the rows and messages it may name.
PurgeHonest ==
  \A p \in Purges :
    /\ purge[p].pc # "idle" => purge[p].kind \in used
    /\ purge[p].pc = "issued" => purge[p].kind = "empty"
    /\ \A i \in purge[p].ids : i < nextId
    /\ purge[p].pc = "deleted" => purge[p].ids \cap Rows = {}

\* Only messages of uploads that ended are deleted, and those of an upload under way are
\* in Telegram.
DeletesEnded == \A m \in pendingDel : pc[m[1]] \notin Pending
SentThere ==
  \A u \in Uploads : /\ pc[u] \in BeforeRow => sent[u] = {}
                     /\ pc[u] = "upload" => Messages(u) \subseteq tg

\* Without copies, PurgeListSound holds of the rows inserted since as well.
ListsExact ==
  CopiedWhilePurging \/
    \A p \in Purges : \A r \in Rows :
      Refs(r) \cap purge[p].orphans # {} => r \in purge[p].ids

DInv == IInv /\ PurgeHonest /\ DeletesEnded /\ SentThere /\ ListsExact /\ NoDangling

\* The ways a purge moves; anything else leaves it alone.
Selects(p) ==
  /\ purge[p].pc = "idle" /\ purge'[p].pc = "selected"
  /\ purge'[p].kind \in used' /\ purge'[p].ids \subseteq Rows /\ purge'[p].orphans = {}
  /\ UNCHANGED <<file, pendingDel>>
SameList(p) == /\ purge'[p].kind = purge[p].kind /\ purge'[p].ids = purge[p].ids
Computes(p) ==
  /\ purge[p].pc = "selected" /\ purge'[p].pc = "computed"
  /\ SameList(p) /\ purge'[p].orphans = Orphans(purge[p].ids)
  /\ UNCHANGED <<file, pendingDel>>
Issues(p) ==
  /\ purge[p].pc = "computed" /\ purge[p].kind = "empty" /\ purge'[p].pc = "issued"
  /\ SameList(p) /\ purge'[p].orphans = purge[p].orphans
  /\ pendingDel' = pendingDel \cup purge[p].orphans /\ UNCHANGED file
DeletesFirst(p) ==
  /\ purge[p].pc = "computed" /\ purge'[p].pc = "deleted"
  /\ SameList(p) /\ purge'[p].orphans = purge[p].orphans
  /\ file' = Without(file, purge[p].ids) /\ UNCHANGED pendingDel
Ends(p) ==
  /\ purge'[p] = IdlePurge
  /\ \/ /\ purge[p].pc = "selected" /\ UNCHANGED <<file, pendingDel>>
     \/ /\ purge[p].pc = "issued" /\ UNCHANGED pendingDel
        /\ file' = Without(file, purge[p].ids)
     \/ /\ purge[p].pc = "deleted" /\ UNCHANGED file
        /\ pendingDel' = pendingDel \cup purge[p].orphans
PurgeMove(p) == Selects(p) \/ Computes(p) \/ Issues(p) \/ DeletesFirst(p) \/ Ends(p)

LEMMA PurgeMoves ==
  ASSUME IInv, NEW p \in Purges,
         PurgeStep(p) \/ \E kind \in PurgeKinds : PurgeSelect(p, kind)
  PROVE  /\ PurgeMove(p)
         /\ \A q \in Purges \ {p} : purge'[q] = purge[q]
         /\ UNCHANGED <<nextId, tg, uploadVars, faults>>
<1> USE DEF tables, uploadVars, bounds
<1>0. purge \in [Purges -> Purge] /\ purge[p] \in Purge
  BY DEF IInv, TypeOK
<1>1. ASSUME NEW kind \in PurgeKinds, PurgeSelect(p, kind)
      PROVE  Selects(p) /\ \A q \in Purges \ {p} : purge'[q] = purge[q]
  <2>1. /\ purge[p].pc = "idle"
        /\ used' = used \cup {kind}
        /\ UNCHANGED <<file, pendingDel>>
    BY <1>1, Zenon DEF PurgeSelect
  <2>2. PICK ids \in Selectable(kind) :
          purge' = [purge EXCEPT ![p] =
                     [@ EXCEPT !.pc = "selected", !.kind = kind, !.ids = ids]]
    BY <1>1 DEF PurgeSelect
  <2>3. ids \subseteq Rows
    BY DEF Selectable, PurgeKinds
  <2>4. purge[p].orphans = {}
    BY <2>1 DEF IInv, PurgeSeen
  <2> QED
    BY <1>0, <2>1, <2>2, <2>3, <2>4 DEF Selects, Purge
<1>2. CASE PurgeCompute(p)
  <2> DEFINE new == [purge[p] EXCEPT !.pc = "computed",
                                     !.orphans = Orphans(purge[p].ids),
                                     !.seen = nextId]
  <2>1. /\ new.pc = "computed" /\ new.orphans = Orphans(purge[p].ids)
        /\ new.kind = purge[p].kind /\ new.ids = purge[p].ids
    BY <1>0 DEF Purge
  <2>2. /\ purge[p].pc = "selected"
        /\ \/ purge' = [purge EXCEPT ![p] = IdlePurge]
           \/ purge' = [purge EXCEPT ![p] = new]
        /\ UNCHANGED <<tables, tg, pendingDel, uploadVars, bounds>>
    BY <1>2 DEF PurgeCompute
  <2> HIDE DEF new
  <2> QED
    BY <1>0, <2>1, <2>2 DEF Computes, SameList, Ends, PurgeMove
<1>3. CASE PurgeIssue(p)
  BY <1>0, <1>3 DEF PurgeIssue, MessagesFirst, Step, Issues, SameList, Purge, PurgeMove
<1>4. CASE PurgeRows(p)
  BY <1>0, <1>4 DEF PurgeRows, RowsFirst, RowsToDelete, DeletesFirst, SameList, Ends, Purge,
     PurgeMove
<1>5. CASE PurgeTelegram(p)
  BY <1>0, <1>5 DEF PurgeTelegram, Ends, PurgeMove
<1>6. UNCHANGED <<nextId, tg, uploadVars, faults>>
  <2>1. ASSUME NEW kind \in PurgeKinds, PurgeSelect(p, kind)
        PROVE  UNCHANGED <<nextId, tg, uploadVars, faults>>
    BY <2>1, Zenon DEF PurgeSelect
  <2> QED
    BY <2>1 DEF PurgeStep, PurgeCompute, PurgeIssue, PurgeRows, PurgeTelegram
<1> QED
  BY <1>1, <1>2, <1>3, <1>4, <1>5, <1>6 DEF PurgeMove, PurgeStep

\* Every step but a purge's and a restart leaves the purges alone.
LEMMA PurgesSteady ==
  ASSUME [Next]_vars
  PROVE  \/ UNCHANGED purge
         \/ Crash
         \/ \E p \in Purges :
              PurgeStep(p) \/ \E kind \in PurgeKinds : PurgeSelect(p, kind)
  BY DEF Next, vars, uploadVars, Begin, UploadStep, LockAndPick, InsertPlaceholder,
         InsertRefused, SendPart, UploadFails, Finalize, FinalizeRefused, OpenFails,
         FinalizeFails, TelegramDeletes, TelegramRefuses, UserOp, PasteCopy, PasteMove,
         Rename, Trash, Restore, Op

\* New rows have new ids.
LEMMA RowsGrow ==
  ASSUME IInv, [Next]_vars
  PROVE  /\ Rows' \subseteq Rows \cup {nextId}
         /\ nextId <= nextId'
<1>0. nextId \in Nat
  BY DEF IInv, TypeOK, RowId
<1>1. CASE Quiet
  BY <1>0, <1>1 DEF Quiet, KeepsRefs
<1>2. ASSUME NEW new, Insert(new)
      PROVE  Rows' \subseteq Rows \cup {nextId} /\ nextId <= nextId'
  BY <1>0, <1>2 DEF Insert, Rows
<1>3. ASSUME NEW u \in Uploads, Finalize(u)
      PROVE  Rows' \subseteq Rows \cup {nextId} /\ nextId <= nextId'
  BY <1>0, <1>3, FinalizedRefs DEF Finalize, IInv, Rows
<1>4. ASSUME NEW p \in Purges, PurgeCompute(p)
      PROVE  Rows' \subseteq Rows \cup {nextId} /\ nextId <= nextId'
  BY <1>0, <1>4 DEF PurgeCompute, tables, Rows
<1> QED
  BY <1>1, <1>2, <1>3, <1>4, StepKinds DEF InsertPlaceholder, PasteCopy

\* Deleting rows leaves the references of the others.
LEMMA WithoutRows ==
  ASSUME IInv, NEW ids, file' = Without(file, ids)
  PROVE  Rows' = Rows \ ids /\ \A r \in Rows' : Refs(r)' = Refs(r)
<1>1. file \in [DOMAIN file -> Row]
  BY DEF IInv, TypeOK, Rows
<1>2. /\ DOMAIN Without(file, ids) = DOMAIN file \ ids
      /\ \A r \in DOMAIN file \ ids : Without(file, ids)[r] = file[r]
  BY <1>1, WithoutType
<1> QED
  BY <1>2 DEF Rows, Refs

LEMMA HonestStep ==
  ASSUME IInv, PurgeHonest, [Next]_vars
  PROVE  PurgeHonest'
<1>0. /\ Rows' \subseteq Rows \cup {nextId} /\ nextId <= nextId' /\ used \subseteq used'
      /\ \A r \in Rows : r < nextId /\ r \in Nat
      /\ nextId \in Nat /\ nextId' \in Nat
      /\ \A p \in Purges : purge[p].ids \subseteq Nat
  <2>1. \A p \in Purges : purge[p].ids \subseteq RowId
    BY DEF IInv, TypeOK, Purge
  <2>2. TypeOK'
    BY NextType DEF IInv
  <2> QED
    BY <2>1, <2>2, RowsGrow, UsedGrows DEF IInv, TypeOK, RowId
<1> SUFFICES ASSUME NEW p \in Purges
             PROVE  /\ purge'[p].pc # "idle" => purge'[p].kind \in used'
                    /\ purge'[p].pc = "issued" => purge'[p].kind = "empty"
                    /\ \A i \in purge'[p].ids : i < nextId'
                    /\ purge'[p].pc = "deleted" => purge'[p].ids \cap Rows' = {}
  BY DEF PurgeHonest
<1>1. CASE purge'[p] = purge[p]
  <2>1. \A i \in purge[p].ids : i < nextId /\ i < nextId' /\ i # nextId
    BY <1>0 DEF PurgeHonest
  <2> QED
    BY <1>0, <1>1, <2>1 DEF PurgeHonest
<1>2. CASE purge'[p] = IdlePurge
  BY <1>2 DEF IdlePurge
<1>3. CASE PurgeMove(p)
  <2>1. CASE Selects(p)
    BY <1>0, <2>1 DEF Selects
  <2>2. CASE Computes(p) \/ Issues(p)
    <3>1. \A i \in purge[p].ids : i < nextId'
      BY <1>0 DEF PurgeHonest
    <3> QED
      BY <1>0, <2>2, <3>1 DEF Computes, Issues, SameList, PurgeHonest
  <2>3. CASE DeletesFirst(p)
    <3>1. \A i \in purge[p].ids : i < nextId'
      BY <1>0 DEF PurgeHonest
    <3> QED
      BY <1>0, <2>3, <3>1, WithoutRows DEF DeletesFirst, SameList, PurgeHonest
  <2>4. CASE Ends(p)
    BY <1>2, <2>4 DEF Ends
  <2> QED
    BY <1>3, <2>1, <2>2, <2>3, <2>4 DEF PurgeMove
<1>4. purge'[p] = purge[p] \/ purge'[p] = IdlePurge \/ PurgeMove(p)
  <2>1. CASE Crash
    BY <2>1 DEF Crash
  <2> QED
    BY <2>1, PurgesSteady, PurgeMoves
<1> QED
  BY <1>1, <1>2, <1>3, <1>4

\* Nobody becomes pending again.
LEMMA PendingShrinks ==
  ASSUME IInv, [Next]_vars, NEW u \in Uploads, pc'[u] \in Pending
  PROVE  pc[u] \in Pending
<1> USE DEF IInv, TypeOK, Go, uploadVars, Pending
<1>1. ASSUME NEW v \in Uploads,
             Begin(v) \/ UploadStep(v) \/ OpenFails(v) \/ FinalizeFails(v)
      PROVE  pc[u] \in Pending
  BY <1>1 DEF Begin, UploadStep, LockAndPick, InsertPlaceholder, InsertRefused, SendPart,
     UploadFails, Finalize, FinalizeRefused, OpenFails, FinalizeFails, Cleanup,
     ReadyToFinalize
<1>2. CASE UNCHANGED pc
  BY <1>2
<1>3. CASE Crash
  BY <1>3 DEF Crash
<1> QED
  BY <1>1, <1>2, <1>3
     DEF Next, vars, TelegramDeletes, TelegramRefuses, UserOp, PasteCopy, PasteMove,
         Rename, Trash, Restore, Op, PurgeStep, PurgeSelect, PurgeCompute, PurgeIssue,
         PurgeRows, PurgeTelegram

\* Whose deletion is started: messages of a failing upload, of a replaced row, of a purge.
LEMMA DeletionStarts ==
  ASSUME IInv, [Next]_vars, NEW m \in pendingDel', m \notin pendingDel
  PROVE  \/ \E u \in Uploads : Cleans(u) /\ m \in Messages(u)
         \/ \E r \in Rows : m \in Refs(r)
         \/ \E p \in Purges : m \in purge[p].orphans
<1>1. ASSUME NEW u \in Uploads, m \in Replaced(u)
      PROVE  \E r \in Rows : m \in Refs(r)
  BY <1>1 DEF Replaced, Orphans
<1>2. ASSUME NEW u \in Uploads,
             Begin(u) \/ UploadStep(u) \/ OpenFails(u) \/ FinalizeFails(u)
      PROVE  (Cleans(u) /\ m \in Messages(u)) \/ m \in Replaced(u)
  <2>1. CASE UploadFails(u) \/ FinalizeRefused(u) \/ FinalizeFails(u)
    <3>1. Cleans(u)
      BY <2>1, CleaningSteps
    <3> QED
      BY <2>1, <3>1 DEF UploadFails, FinalizeRefused, FinalizeFails, Cleanup
  <2>2. CASE Finalize(u)
    BY <2>2 DEF Finalize
  <2>3. UNCHANGED pendingDel \/ UploadFails(u) \/ FinalizeRefused(u) \/ FinalizeFails(u)
          \/ Finalize(u)
    BY <1>2 DEF Begin, UploadStep, LockAndPick, InsertPlaceholder, InsertRefused, SendPart,
       OpenFails
  <2> QED
    BY <2>1, <2>2, <2>3
<1>3. ASSUME NEW p \in Purges,
             PurgeStep(p) \/ \E kind \in PurgeKinds : PurgeSelect(p, kind)
      PROVE  m \in purge[p].orphans
  BY <1>3, PurgeMoves DEF PurgeMove, Selects, Computes, Issues, DeletesFirst, Ends
<1>4. CASE pendingDel' \subseteq pendingDel
  BY <1>4
<1> QED
  BY <1>1, <1>2, <1>3, <1>4
     DEF Next, vars, TelegramDeletes, TelegramRefuses, UserOp, PasteCopy, PasteMove, Rename,
         Trash, Restore, Op, Crash

LEMMA DeletesEndedStep ==
  ASSUME IInv, DeletesEnded, [Next]_vars
  PROVE  DeletesEnded'
<1> SUFFICES ASSUME NEW m \in pendingDel', pc'[m[1]] \in Pending
             PROVE  FALSE
  BY DEF DeletesEnded
<1>1. m[1] \in Uploads
  <2>1. TypeOK'
    BY NextType DEF IInv
  <2> QED
    BY <2>1 DEF TypeOK, Msg
<1>2. pc[m[1]] \in Pending
  BY <1>1, PendingShrinks
<1>3. CASE m \in pendingDel
  BY <1>2, <1>3 DEF DeletesEnded
<1>4. ASSUME NEW u \in Uploads, Cleans(u), m \in Messages(u)
      PROVE  FALSE
  <2>1. m[1] = u
    BY <1>4, MessagesType DEF IInv
  <2>2. pc'[u] = "error"
    BY <1>4 DEF Cleans, IInv, TypeOK
  <2> QED
    BY <2>1, <2>2 DEF Pending
<1> QED
  BY <1>2, <1>3, <1>4, DeletionStarts DEF IInv, FreshMessages

LEMMA SentThereStep ==
  ASSUME IInv, DeletesEnded, SentThere, [Next]_vars
  PROVE  SentThere'
<1> SUFFICES ASSUME NEW u \in Uploads
             PROVE  /\ pc'[u] \in BeforeRow => sent'[u] = {}
                    /\ pc'[u] = "upload" => Messages(u)' \subseteq tg'
  BY DEF SentThere
<1> USE DEF uploadVars, Go
<1>1. ASSUME tg \subseteq tg', sent'[u] = sent[u],
             pc'[u] \in BeforeRow => pc[u] \in BeforeRow,
             pc'[u] = "upload" => pc[u] \in BeforeRow \cup {"upload"}
      PROVE  /\ pc'[u] \in BeforeRow => sent'[u] = {}
             /\ pc'[u] = "upload" => Messages(u)' \subseteq tg'
  BY <1>1 DEF SentThere, Messages
<1>2. ASSUME NEW v \in Uploads, NEW i \in Parts(v), SendPart(v, i)
      PROVE  /\ pc'[u] \in BeforeRow => sent'[u] = {}
             /\ pc'[u] = "upload" => Messages(u)' \subseteq tg'
  <2>1. CASE u = v
    BY <1>2, <2>1 DEF SendPart, SentThere, Messages, IInv, TypeOK, BeforeRow
  <2>2. CASE u # v
    BY <1>1, <1>2, <2>2 DEF SendPart, IInv, TypeOK
  <2> QED
    BY <2>1, <2>2
<1>3. ASSUME NEW v \in Uploads,
             \/ Begin(v) \/ LockAndPick(v) \/ InsertPlaceholder(v) \/ InsertRefused(v)
             \/ UploadFails(v) \/ Finalize(v) \/ FinalizeRefused(v)
             \/ OpenFails(v) \/ FinalizeFails(v)
      PROVE  /\ tg \subseteq tg' /\ sent'[u] = sent[u]
             /\ pc'[u] \in BeforeRow => pc[u] \in BeforeRow
             /\ pc'[u] = "upload" => pc[u] \in BeforeRow \cup {"upload"}
  <2>1. tg' = tg /\ sent' = sent
    BY <1>3 DEF Begin, LockAndPick, InsertPlaceholder, InsertRefused, UploadFails, Finalize,
       FinalizeRefused, OpenFails, FinalizeFails
  <2>2. /\ pc'[u] \in BeforeRow => pc[u] \in BeforeRow
        /\ pc'[u] = "upload" => pc[u] \in BeforeRow \cup {"upload"}
    BY <1>3 DEF Begin, LockAndPick, InsertPlaceholder, InsertRefused, UploadFails, Finalize,
       FinalizeRefused, OpenFails, FinalizeFails, Cleanup, BeforeRow, IInv, TypeOK
  <2> QED
    BY <2>1, <2>2
<1>4. ASSUME NEW m \in pendingDel, TelegramDeletes(m) \/ TelegramRefuses(m)
      PROVE  /\ pc'[u] \in BeforeRow => sent'[u] = {}
             /\ pc'[u] = "upload" => Messages(u)' \subseteq tg'
  <2>1. UNCHANGED <<pc, sent>> /\ tg \ {m} \subseteq tg'
    BY <1>4 DEF TelegramDeletes, TelegramRefuses
  <2>2. pc[u] = "upload" => m \notin Messages(u)
    <3>1. m \in Messages(u) => m[1] = u
      BY MessagesType DEF IInv
    <3> QED
      BY <3>1 DEF DeletesEnded, Pending
  <2> QED
    BY <2>1, <2>2 DEF SentThere, Messages
<1>5. CASE UNCHANGED <<pc, sent, tg>>
  BY <1>5 DEF SentThere, Messages
<1>6. CASE Crash
  <2>1. UNCHANGED <<sent, tg>>
    BY <1>6 DEF Crash
  <2>2. pc'[u] = "lost" \/ pc'[u] = pc[u]
    BY <1>6 DEF Crash
  <2> QED
    BY <1>1, <2>1, <2>2 DEF BeforeRow
<1>7. ASSUME NEW p \in Purges,
             PurgeStep(p) \/ \E kind \in PurgeKinds : PurgeSelect(p, kind)
      PROVE  UNCHANGED <<pc, sent, tg>>
  BY <1>7, PurgeMoves
<1>8. ASSUME UserOp PROVE UNCHANGED <<pc, sent, tg>>
  BY <1>8 DEF UserOp, PasteCopy, PasteMove, Rename, Trash, Restore, Op
<1>9. ASSUME UNCHANGED vars PROVE UNCHANGED <<pc, sent, tg>>
  BY <1>9 DEF vars
<1> QED
  BY <1>1, <1>2, <1>3, <1>4, <1>5, <1>6, <1>7, <1>8, <1>9 DEF Next, UploadStep

\* A finalization gives the upload's row messages of the upload, and no other row any.
LEMMA FinalizedMessages ==
  ASSUME IInv, NEW u \in Uploads, Finalize(u)
  PROVE  /\ Rows' \subseteq Rows
         /\ Overwrites(u) => old[u] \notin Rows'
         /\ \A r \in Rows' : r # row[u] => Refs(r)' = Refs(r)
         /\ \A r \in Rows' : r = row[u] => Refs(r)' \subseteq Messages(u)
<1> DEFINE f == SetParts(file, u)
           h == Without(f, {old[u]})
<1>0. file \in [DOMAIN file -> Row] /\ TypeOK
  BY DEF IInv, TypeOK, Rows
<1>1. /\ file' = Finalized(u)
      /\ row[u] \in Rows => Refs(row[u]) = {}
      /\ <<u, 1>> \in Messages(u)
  <2>1. <<u, 1>> \in Messages(u)
    <3>1. 1 \in Parts(u)
      BY ConstantsOK DEF Parts, IInv, TypeOK
    <3> QED
      BY <3>1, AllMessages
  <2> QED
    BY <2>1 DEF Finalize, ReadyToFinalize, IInv, PlaceholderEmpty
<1>2. /\ DOMAIN Finalized(u) \subseteq Rows
      /\ OthersKept(file, Finalized(u), u)
  BY <1>0, FinalizedRefs
<1>3. f \in [DOMAIN file -> Row]
  BY <1>0, SetType
<1>4. row[u] \in DOMAIN f => f[row[u]].head \cup f[row[u]].parts \subseteq Messages(u)
  <2>1. Messages(u) \in SUBSET Msg
    BY <1>0, MessagesType
  <2> QED
    BY <1>0, <1>1, <2>1 DEF SetParts, Refs, Rows, Row
<1> HIDE DEF f
<1>5. CASE Overwrites(u)
  <2>1. /\ DOMAIN h = DOMAIN f \ {old[u]}
        /\ h \in [DOMAIN h -> Row]
        /\ \A r \in DOMAIN h : h[r] = f[r]
    <3>1. f \in [DOMAIN f -> Row]
      BY <1>3
    <3>2. /\ h \in [DOMAIN f \ {old[u]} -> Row]
          /\ DOMAIN h = DOMAIN f \ {old[u]}
          /\ \A r \in DOMAIN f \ {old[u]} : h[r] = f[r]
      BY <3>1, WithoutType
    <3> HIDE DEF h
    <3> QED
      BY <3>2
  <2>2. Finalized(u) = TakeOver(h, u)
    BY <1>5 DEF Finalized, Swap, f
  <2> HIDE DEF h
  <2>3. DOMAIN Finalized(u) = DOMAIN h
    BY <2>1, <2>2 DEF TakeOver
  <2>4. row[u] \in DOMAIN h =>
          Finalized(u)[row[u]].head \cup Finalized(u)[row[u]].parts \subseteq Messages(u)
    BY <1>1, <1>4, <2>1, <2>2 DEF TakeOver, Row
  <2> QED
    BY <1>1, <1>2, <2>1, <2>3, <2>4 DEF OthersKept, Refs, Rows
<1>6. CASE ~Overwrites(u)
  <2>1. Finalized(u) = SetHead(f, u)
    BY <1>6 DEF Finalized, f
  <2>2. row[u] \in DOMAIN Finalized(u) =>
          Finalized(u)[row[u]].head \cup Finalized(u)[row[u]].parts \subseteq Messages(u)
    BY <1>1, <1>3, <1>4, <2>1 DEF SetHead, Row
  <2> QED
    BY <1>1, <1>2, <1>6, <2>2 DEF OthersKept, Refs, Rows
<1> QED
  BY <1>5, <1>6

\* Before anybody purges, no purge names a message.
LEMMA NoPurgeNoList ==
  ASSUME IInv, PurgeHonest, used \cap PurgeKinds = {}, NEW p \in Purges
  PROVE  purge[p].pc = "idle" /\ purge[p].orphans = {}
<1>1. purge[p].kind \in PurgeKinds
  BY DEF IInv, TypeOK, Purge
<1>2. purge[p].pc = "idle"
  BY <1>1 DEF PurgeHonest
<1> QED
  BY <1>2 DEF IInv, PurgeSeen

LEMMA ListsExactStep ==
  ASSUME IInv, PurgeHonest, ListsExact, [Next]_vars
  PROVE  ListsExact'
<1> SUFFICES ASSUME ~CopiedWhilePurging', ~CopiedWhilePurging,
                    NEW p \in Purges, NEW r \in Rows', NEW m \in Refs(r)',
                    m \in purge'[p].orphans
             PROVE  r \in purge'[p].ids
  <2>1. CopiedWhilePurging => CopiedWhilePurging'
    BY UsedGrows DEF CopiedWhilePurging
  <2> QED
    BY <2>1 DEF ListsExact
<1>1. ASSUME r \in Rows, m \in Refs(r), m \in purge[p].orphans
      PROVE  r \in purge[p].ids
  BY <1>1 DEF ListsExact
<1>2. CASE UNCHANGED purge
  <2>1. CASE KeepsRefs
    BY <1>1, <1>2, <2>1 DEF KeepsRefs, Refs
  <2>2. ASSUME NEW new \in Row, Insert(new), r \in Rows
        PROVE  r \in purge'[p].ids
    BY <1>1, <1>2, <2>2, InsertedRow DEF IInv
  <2>3. ASSUME NEW new \in Row, Insert(new), r \notin Rows, new.head = {}, new.parts = {}
        PROVE  FALSE
    BY <2>3, InsertedRow DEF IInv
  <2>4. ASSUME "copy" \in used'
        PROVE  FALSE
    <3>1. used \cap PurgeKinds = {}
      BY <2>4, UsedGrows DEF CopiedWhilePurging
    <3>2. purge[p].orphans = {}
      BY <3>1, NoPurgeNoList
    <3> QED
      BY <1>2, <3>2
  <2>5. ASSUME NEW u \in Uploads, Finalize(u)
        PROVE  r \in purge'[p].ids
    <3>1. CASE r = row[u]
      <4>1. m[1] = u /\ pc[u] \in Pending
        BY <2>5, <3>1, FinalizedMessages, MessagesType
           DEF IInv, Finalize, ReadyToFinalize, Pending
      <4> QED
        BY <1>2, <4>1 DEF IInv, FreshMessages
    <3>2. CASE r # row[u]
      BY <1>1, <1>2, <2>5, <3>2, FinalizedMessages
    <3> QED
      BY <3>1, <3>2
  <2> QED
    BY <2>1, <2>2, <2>3, <2>4, <2>5, RefsStep
<1>3. CASE Crash
  BY <1>3 DEF Crash, IdlePurge
<1>4. ASSUME NEW q \in Purges,
             PurgeStep(q) \/ \E kind \in PurgeKinds : PurgeSelect(q, kind)
      PROVE  r \in purge'[p].ids
  <2>1. /\ PurgeMove(q)
        /\ p # q => purge'[p] = purge[p]
    BY <1>4, PurgeMoves
  <2>2. r \in Rows /\ m \in Refs(r)
    <3>1. CASE UNCHANGED file
      BY <3>1 DEF Rows, Refs
    <3>2. ASSUME NEW ids, file' = Without(file, ids)
          PROVE  r \in Rows /\ m \in Refs(r)
      BY <3>2, WithoutRows
    <3> QED
      BY <2>1, <3>1, <3>2 DEF PurgeMove, Selects, Computes, Issues, DeletesFirst, Ends
  <2>3. CASE p # q
    BY <1>1, <2>1, <2>2, <2>3
  <2>4. CASE p = q
    <3>1. CASE Computes(p)
      BY <2>2, <3>1 DEF Computes, SameList, Orphans
    <3>2. CASE Issues(p) \/ DeletesFirst(p)
      BY <1>1, <2>2, <3>2 DEF Issues, DeletesFirst, SameList
    <3>3. CASE Selects(p) \/ Ends(p)
      BY <3>3 DEF Selects, Ends, IdlePurge
    <3> QED
      BY <2>1, <2>4, <3>1, <3>2, <3>3 DEF PurgeMove
  <2> QED
    BY <2>3, <2>4
<1> QED
  BY <1>2, <1>3, <1>4, PurgesSteady

\* What is set apart stays so.
LEMMA StillExempt == ASSUME [Next]_vars, Exempt PROVE Exempt'
  BY UsedGrows, JobFixed DEF Exempt, CopiedWhilePurging, PlainUploads

\* A purge that starts to delete messages dooms, or has deleted, every row that uses them.
LEMMA PurgeKeepsFiles ==
  ASSUME DInv, ~Exempt, NEW p \in Purges,
         PurgeStep(p) \/ \E kind \in PurgeKinds : PurgeSelect(p, kind),
         NEW r \in Rows', r \notin Doomed'
  PROVE  Refs(r)' \subseteq tg' \ pendingDel'
<1>1. /\ PurgeMove(p)
      /\ \A q \in Purges \ {p} : purge'[q] = purge[q]
      /\ tg' = tg
  BY PurgeMoves DEF DInv
<1>2. ASSUME NEW q \in Purges
      PROVE  ~(purge'[q].pc = "issued" /\ r \in purge'[q].ids)
  BY DEF Doomed
<1>3. /\ r \in Rows /\ Refs(r)' = Refs(r)
      /\ purge[p].pc = "issued" => r \notin purge[p].ids
  <2>1. CASE UNCHANGED file
    <3>1. r \in Rows /\ Refs(r)' = Refs(r)
      BY <2>1 DEF Rows, Refs
    <3>2. purge[p].pc = "issued" /\ r \in purge[p].ids => FALSE
      <4>1. ~Ends(p) \/ purge[p].pc # "issued" \/ r \notin purge[p].ids
        <5>1. ASSUME file' = Without(file, purge[p].ids)
              PROVE  r \notin purge[p].ids
          BY <5>1, WithoutRows DEF DInv
        <5> QED
          BY <5>1 DEF Ends
      <4> QED
        BY <1>1, <4>1 DEF PurgeMove, Selects, Computes, Issues, DeletesFirst
    <3> QED
      BY <3>1, <3>2
  <2>2. CASE file' = Without(file, purge[p].ids)
    BY <2>2, WithoutRows DEF DInv
  <2> QED
    BY <1>1, <2>1, <2>2 DEF PurgeMove, Selects, Computes, Issues, DeletesFirst, Ends
<1>4. r \notin Doomed
  <2>1. ASSUME NEW q \in Purges
        PROVE  ~(purge[q].pc = "issued" /\ r \in purge[q].ids)
    BY <1>1, <1>2, <1>3
  <2> QED
    BY <2>1 DEF Doomed
<1>5. Refs(r) \subseteq tg \ pendingDel
  BY <1>3, <1>4 DEF DInv, NoDangling, Exempt, CopiedWhilePurging
<1>6. CASE pendingDel' = pendingDel
  BY <1>1, <1>3, <1>5, <1>6
<1>7. CASE Issues(p)
  <2>1. r \notin purge[p].ids
    BY <1>2, <1>7 DEF Issues, SameList
  <2>2. Refs(r) \cap purge[p].orphans = {}
    BY <1>3, <2>1 DEF DInv, ListsExact, Exempt
  <2> QED
    BY <1>1, <1>3, <1>5, <1>7, <2>2 DEF Issues
<1>8. CASE purge[p].pc = "deleted" /\ pendingDel' = pendingDel \cup purge[p].orphans
  <2>1. r \notin purge[p].ids
    BY <1>3, <1>8 DEF DInv, PurgeHonest
  <2>2. Refs(r) \cap purge[p].orphans = {}
    BY <1>3, <2>1 DEF DInv, ListsExact, Exempt
  <2> QED
    BY <1>1, <1>3, <1>5, <1>8, <2>2
<1> QED
  BY <1>1, <1>6, <1>7, <1>8 DEF PurgeMove, Selects, Computes, DeletesFirst, Ends

\* An upload that fails deletes its own messages, one that replaces a row the messages
\* that only this row had.
LEMMA UploadKeepsFiles ==
  ASSUME DInv, ~Exempt', NEW u \in Uploads,
         Begin(u) \/ UploadStep(u) \/ OpenFails(u) \/ FinalizeFails(u), job' = job,
         NEW r \in Rows', r \notin Doomed
  PROVE  Refs(r)' \subseteq tg' \ pendingDel'
<1> USE DEF tables, bounds
<1>0. IInv /\ DeletesEnded /\ SentThere
  BY DEF DInv
<1>a. faults \subseteq faults' /\ used \subseteq used'
  BY DEF Begin, UploadStep, LockAndPick, InsertPlaceholder, InsertRefused, SendPart,
     UploadFails, Finalize, FinalizeRefused, OpenFails, Fault, FinalizeFails
<1>b. ~Exempt
  BY <1>a DEF Exempt, CopiedWhilePurging, PlainUploads
<1>1. \A s \in Rows \ Doomed : Refs(s) \subseteq tg \ pendingDel
  BY <1>b DEF DInv, NoDangling, Exempt, CopiedWhilePurging
<1>2. CASE UNCHANGED file /\ tg \subseteq tg' /\ UNCHANGED pendingDel
  BY <1>1, <1>2 DEF Rows, Refs
<1>3. CASE InsertPlaceholder(u)
  <2> DEFINE new == NewRow(Dir(u), Base(u), pick[u], {}, {})
  <2>1. new \in Row /\ new.head = {} /\ new.parts = {}
    BY <1>0, ConstantsOK DEF NewRow, Row, IInv, TypeOK, Dir, Base
  <2>2. Insert(new) /\ UNCHANGED <<tg, pendingDel>>
    BY <1>3 DEF InsertPlaceholder
  <2> HIDE DEF new
  <2>3. /\ \A s \in Rows : Refs(s)' = Refs(s)
        /\ r \notin Rows => Refs(r)' = {}
    BY <1>0, <2>1, <2>2, InsertedRow DEF IInv
  <2> QED
    BY <1>1, <2>2, <2>3
<1>4. CASE UploadFails(u) \/ FinalizeRefused(u) \/ FinalizeFails(u)
  <2>1. Cleans(u)
    BY <1>4, CleaningSteps
  <2>2. r \in Rows /\ Refs(r)' = Refs(r)
    BY <1>0, <2>1, WithoutRows DEF Cleans
  <2>3. Refs(r) \cap Messages(u) = {}
    <3>1. \A m \in Messages(u) : m[1] = u
      BY <1>0, MessagesType DEF IInv
    <3> QED
      BY <1>0, <2>1, <2>2, <3>1 DEF Cleans, IInv, FreshMessages, Pending
  <2>4. pendingDel' = pendingDel \cup Messages(u)
    <3>1. CASE FinalizeFails(u)
      <4>1. "db" \in faults'
        BY <3>1 DEF FinalizeFails, Fault
      <4>2. PlainUploads
        BY <4>1 DEF Exempt, PlainUploads
      <4>3. Replaced(u) = {}
        BY <4>2 DEF PlainUploads, Replaced, Overwrites
      <4> QED
        BY <3>1, <4>3 DEF FinalizeFails
    <3> QED
      BY <1>4, <3>1 DEF UploadFails, FinalizeRefused, Cleanup
  <2> QED
    BY <1>1, <2>1, <2>2, <2>3, <2>4 DEF Cleans
<1>5. CASE Finalize(u)
  <2>1. /\ pc[u] = "upload" /\ pc[u] \in Pending
        /\ tg' = tg /\ pendingDel' = pendingDel \cup Replaced(u)
    BY <1>5 DEF Finalize, ReadyToFinalize, Pending
  <2>2. /\ r \in Rows
        /\ Overwrites(u) => r # old[u]
        /\ r # row[u] => Refs(r)' = Refs(r)
        /\ r = row[u] => Refs(r)' \subseteq Messages(u)
    BY <1>0, <1>5, FinalizedMessages
  <2>3. CASE r # row[u]
    <3>1. Refs(r) \cap Replaced(u) = {}
      BY <2>2 DEF Replaced, Orphans
    <3> QED
      BY <1>1, <2>1, <2>2, <2>3, <3>1
  <2>4. CASE r = row[u]
    <3>1. \A m \in Messages(u) : m[1] = u
      BY <1>0, MessagesType DEF IInv
    <3>2. Messages(u) \subseteq tg \ pendingDel
      BY <1>0, <2>1, <3>1 DEF SentThere, DeletesEnded
    <3>3. Messages(u) \cap Replaced(u) = {}
      BY <1>0, <2>1, <3>1 DEF Replaced, Orphans, IInv, FreshMessages
    <3> QED
      BY <2>1, <2>2, <2>4, <3>2, <3>3
  <2> QED
    BY <2>3, <2>4
<1>6. \/ UNCHANGED file /\ tg \subseteq tg' /\ UNCHANGED pendingDel
      \/ InsertPlaceholder(u)
      \/ UploadFails(u) \/ FinalizeRefused(u) \/ FinalizeFails(u)
      \/ Finalize(u)
  BY DEF Begin, UploadStep, LockAndPick, InsertRefused, SendPart, OpenFails
<1> QED
  BY <1>2, <1>3, <1>4, <1>5, <1>6

LEMMA NoDanglingStep ==
  ASSUME DInv, [Next]_vars
  PROVE  NoDangling'
<1> SUFFICES ASSUME ~Exempt', ~Exempt, NEW r \in Rows', r \notin Doomed'
             PROVE  Refs(r)' \subseteq tg' \ pendingDel'
  BY StillExempt DEF NoDangling, Exempt, CopiedWhilePurging
<1>0. IInv /\ PurgeHonest
  BY DEF DInv
<1>1. \A s \in Rows \ Doomed : Refs(s) \subseteq tg \ pendingDel
  BY DEF DInv, NoDangling, Exempt, CopiedWhilePurging
<1>2. ASSUME NEW u \in Uploads,
             Begin(u) \/ UploadStep(u) \/ OpenFails(u) \/ FinalizeFails(u)
      PROVE  Refs(r)' \subseteq tg' \ pendingDel'
  <2>1. UNCHANGED purge
    BY <1>2 DEF Begin, UploadStep, LockAndPick, InsertPlaceholder, InsertRefused, SendPart,
       UploadFails, Finalize, FinalizeRefused, OpenFails, FinalizeFails
  <2>2. r \notin Doomed
    BY <2>1 DEF Doomed
  <2> QED
    BY <1>2, <2>2, UploadKeepsFiles, JobFixed
<1>3. ASSUME NEW m \in pendingDel, TelegramDeletes(m) \/ TelegramRefuses(m)
      PROVE  Refs(r)' \subseteq tg' \ pendingDel'
  <2>1. /\ UNCHANGED <<file, purge>>
        /\ tg \ {m} \subseteq tg' /\ pendingDel' \subseteq pendingDel
    BY <1>3 DEF TelegramDeletes, TelegramRefuses, tables
  <2>2. r \in Rows \ Doomed /\ Refs(r)' = Refs(r)
    BY <2>1 DEF Rows, Doomed, Refs
  <2> QED
    BY <1>1, <2>1, <2>2
<1>4. CASE UserOp
  <2>0. UNCHANGED <<tg, pendingDel, purge>>
    BY <1>4 DEF UserOp, PasteCopy, PasteMove, Rename, Trash, Restore, Op
  <2>1. UNCHANGED <<tg, pendingDel>> /\ Doomed' = Doomed
    BY <2>0 DEF Doomed
  <2>2. CASE KeepsRefs
    BY <1>1, <2>1, <2>2 DEF KeepsRefs, Refs
  <2>3. ASSUME NEW s \in Rows, NEW d \in Dirs, PasteCopy(s, d)
        PROVE  Refs(r)' \subseteq tg' \ pendingDel'
    <3>1. Doomed = {}
      <4>1. used \cap PurgeKinds = {}
        BY <2>3, UsedGrows DEF PasteCopy, Op, Exempt, CopiedWhilePurging
      <4> QED
        BY <1>0, <4>1, NoPurgeNoList DEF Doomed
    <3>2. r \in Rows => Refs(r)' = Refs(r)
      <4>1. nextId \notin Rows /\ \E new : Insert(new)
        BY <1>0, <2>3 DEF PasteCopy, IInv, TypeOK, RowId
      <4> QED
        BY <4>1 DEF Insert, Rows, Refs
    <3>3. r \notin Rows => Refs(r)' = Refs(s)
      BY <2>3 DEF PasteCopy, Insert, NewRow, Rows, Refs
    <3> QED
      BY <1>1, <2>1, <3>1, <3>2, <3>3
  <2> QED
    BY <1>0, <1>4, <2>2, <2>3, QuietUserOp DEF UserOp, Quiet
<1>5. ASSUME NEW p \in Purges,
             PurgeStep(p) \/ \E kind \in PurgeKinds : PurgeSelect(p, kind)
      PROVE  Refs(r)' \subseteq tg' \ pendingDel'
  BY <1>5, PurgeKeepsFiles
<1>6. CASE Crash
  <2>1. "empty" \notin used
    BY <1>6 DEF Crash, Fault, Exempt
  <2>2. Doomed = {}
    BY <1>0, <2>1 DEF PurgeHonest, Doomed
  <2>3. tg' = tg /\ pendingDel' = {} /\ KeepsRefs
    BY <1>0, <1>6, CrashQuiet DEF Crash, Quiet
  <2> QED
    BY <1>1, <2>2, <2>3 DEF KeepsRefs, Refs
<1>7. CASE UNCHANGED vars
  BY <1>1, <1>7 DEF vars, tables, Rows, Refs, Doomed
<1> QED
  BY <1>2, <1>3, <1>4, <1>5, <1>6, <1>7 DEF Next

\* The invariant behind it, as a whole.
LEMMA AlwaysD == Spec => []DInv
<1>1. Init => DInv
  <2> SUFFICES ASSUME Init PROVE DInv
    OBVIOUS
  <2>1. IInv /\ Rows = {}
    BY InitIInv DEF Init, Rows
  <2>2. PurgeHonest /\ DeletesEnded /\ SentThere
    BY DEF Init, PurgeHonest, DeletesEnded, SentThere, IdlePurge
  <2> QED
    BY <2>1, <2>2 DEF DInv, ListsExact, NoDangling
<1>2. DInv /\ [Next]_vars => DInv'
  BY NextIInv, HonestStep, DeletesEndedStep, SentThereStep, ListsExactStep, NoDanglingStep
     DEF DInv
<1> QED
  BY <1>1, <1>2, PTL DEF Spec

\* The bytes of every file outside a trash being emptied are in Telegram and nobody is
\* deleting them, through failing uploads, overwrites, purges of every kind, copies made
\* without a purge, and restarts, but for the three cases NoDangling names.
THEOREM NothingDangles == Spec => []NoDangling
<1>1. DInv => NoDangling
  BY DEF DInv
<1> QED
  BY <1>1, AlwaysD, PTL

-----------------------------------------------------------------------------
(* Names of active rows are unique *)

SamePlace(f, g, r) ==
  f[r].dir = g[r].dir /\ f[r].base = g[r].base /\ f[r].k = g[r].k

UniqueIn(f) ==
  \A r, s \in DOMAIN f :
    /\ ~f[r].trashed /\ ~f[s].trashed
    /\ f[r].dir = f[s].dir /\ f[r].base = f[s].base /\ f[r].k = f[s].k
    => r = s

\* Where uniqueness is promised: by the index, or by the insert lock.
Locked == PlainUploads /\ used \cap {"rename", "restore"} = {}
Promised == UniqueIndex \/ Locked

\* No active row of table f has this name.
Clear(f, d, b, k) ==
  \A r \in DOMAIN f : ~(f[r].dir = d /\ f[r].base = b /\ f[r].k = k /\ ~f[r].trashed)

\* The name an upload picked under the lock of its directory stays free until it inserts.
NameHeld ==
  Locked => \A u \in Uploads : pc[u] = "named" =>
              /\ insertLock[Dir(u)] = u
              /\ Clear(file, Dir(u), Base(u), pick[u])

NamesInv == NameHeld /\ (Promised => UniqueIn(file))

LEMMA StillPromised ==
  ASSUME [Next]_vars
  PROVE  (Locked' => Locked) /\ (Promised' => Promised)
  BY UsedGrows, JobFixed DEF Promised, Locked, PlainUploads

\* Rows go, and those that stay keep their place.
PlacesShrink(f, g) ==
  /\ DOMAIN g \subseteq DOMAIN f
  /\ \A r \in DOMAIN g : SamePlace(f, g, r) /\ (~g[r].trashed => ~f[r].trashed)

LEMMA ShrinkUnique ==
  ASSUME NEW f, NEW g, UniqueIn(f), PlacesShrink(f, g)
  PROVE  UniqueIn(g)
  BY DEF UniqueIn, PlacesShrink, SamePlace

LEMMA ShrinkFree ==
  ASSUME NEW f, NEW g, PlacesShrink(f, g), NEW d, NEW b, NEW k, Clear(f, d, b, k)
  PROVE  Clear(g, d, b, k)
  BY DEF PlacesShrink, SamePlace, Clear

LEMMA ClearNow ==
  ASSUME IInv, NEW d, NEW b, NEW k
  PROVE  Clear(file, d, b, k) <=> ~Occupied(d, b, k, 0)
  BY DEF Clear, Occupied, At, Rows, IInv, TypeOK

LEMMA InsertUnique ==
  ASSUME IInv, NEW new \in Row, Insert(new), UniqueIn(file),
         ~Occupied(new.dir, new.base, new.k, 0)
  PROVE  UniqueIn(file')
<1>1. nextId \notin Rows /\ 0 \notin Rows
  BY DEF IInv, TypeOK, RowId
<1>2. DOMAIN file' = Rows \cup {nextId}
      /\ \A r \in DOMAIN file' : file'[r] = IF r = nextId THEN new ELSE file[r]
  BY DEF Insert
<1>3. \A r \in Rows : ~(file[r].dir = new.dir /\ file[r].base = new.base
                        /\ file[r].k = new.k /\ ~file[r].trashed)
  BY <1>1 DEF Occupied, At
<1> QED
  BY <1>1, <1>2, <1>3 DEF UniqueIn, Rows

\* A row that moves to a free place, or is in the trash.
LEMMA PlaceUnique ==
  ASSUME NEW f, NEW r \in DOMAIN f, NEW new, UniqueIn(f), NEW g, g = [f EXCEPT ![r] = new],
         \/ new.trashed
         \/ \A s \in DOMAIN f \ {r} :
              ~(f[s].dir = new.dir /\ f[s].base = new.base /\ f[s].k = new.k /\ ~f[s].trashed),
         new.trashed \in BOOLEAN, \A s \in DOMAIN f : f[s].trashed \in BOOLEAN
  PROVE  UniqueIn(g)
<1>1. DOMAIN g = DOMAIN f /\ g[r] = new /\ \A s \in DOMAIN f \ {r} : g[s] = f[s]
  OBVIOUS
<1> QED
  BY <1>1 DEF UniqueIn

LEMMA SuffixFree ==
  ASSUME NEW d, NEW b, NEW x, FreeSuffixes(d, b, x) # {}
  PROVE  /\ ~Occupied(d, b, UniqueSuffix(d, b, x), x)
         /\ UniqueSuffix(d, b, x) \in Nat
  BY UniqueSuffixFree, ConstantsOK DEF FreeSuffixes

\* A finalized overwrite takes the plain name unless another active row has it.
LEMMA TakeOverUnique ==
  ASSUME IInv, UniqueIndex, UniqueIn(file), NEW u \in Uploads, Finalize(u), Overwrites(u)
  PROVE  UniqueIn(file')
<1> DEFINE f == SetParts(file, u)
           h == Without(f, {old[u]})
<1>0. file \in [DOMAIN file -> Row] /\ TypeOK
  BY DEF IInv, TypeOK, Rows
<1>1. f \in [DOMAIN file -> Row] /\ PlacesShrink(file, f)
  <2>1. f \in [DOMAIN file -> Row]
    BY <1>0, SetType
  <2> QED
    BY <1>0, <2>1 DEF SetParts, PlacesShrink, SamePlace, Row
<1>2. UniqueIn(f)
  BY <1>1, ShrinkUnique
<1>3. file' = TakeOver(h, u)
  BY DEF Finalize, Finalized, Swap
<1> HIDE DEF f
<1>4. /\ h \in [DOMAIN h -> Row]
      /\ PlacesShrink(f, h)
  <2>1. /\ h \in [DOMAIN f \ {old[u]} -> Row]
        /\ DOMAIN h = DOMAIN f \ {old[u]}
        /\ \A r \in DOMAIN f \ {old[u]} : h[r] = f[r]
    <3>1. f \in [DOMAIN f -> Row]
      BY <1>1
    <3> QED
      BY <3>1, WithoutType
  <2> HIDE DEF h
  <2> QED
    BY <2>1 DEF PlacesShrink, SamePlace
<1> HIDE DEF h
<1>5. UniqueIn(h)
  BY <1>2, <1>4, ShrinkUnique
<1>6. CASE row[u] \notin DOMAIN h \/ NameTaken(h, u)
  BY <1>3, <1>5, <1>6 DEF TakeOver
<1>7. CASE row[u] \in DOMAIN h /\ ~NameTaken(h, u)
  <2> DEFINE new == [h[row[u]] EXCEPT !.head = {<<u, 1>>}, !.base = Base(u), !.k = 0]
  <2>1. file' = [h EXCEPT ![row[u]] = new]
    BY <1>3, <1>7 DEF TakeOver
  <2>2. /\ new.dir = h[row[u]].dir /\ new.base = Base(u) /\ new.k = 0
        /\ new.trashed = h[row[u]].trashed /\ h[row[u]].trashed \in BOOLEAN
    BY <1>4, <1>7 DEF Row
  <2>3. \A s \in DOMAIN h : h[s].trashed \in BOOLEAN
    BY <1>4 DEF Row
  <2> HIDE DEF new
  <2>4. \/ new.trashed
        \/ \A s \in DOMAIN h \ {row[u]} :
             ~(h[s].dir = new.dir /\ h[s].base = new.base /\ h[s].k = new.k /\ ~h[s].trashed)
    BY <1>7, <2>2 DEF NameTaken
  <2> QED
    BY <1>5, <1>7, <2>1, <2>2, <2>3, <2>4, PlaceUnique
<1> QED
  BY <1>6, <1>7

\* What a user operation does to the place of a row.
LEMMA OpPlaces ==
  ASSUME IInv, NEW r \in Rows,
         \/ \E d \in Dirs : PasteMove(r, d)
         \/ \E b \in Bases : Rename(r, b)
         \/ Restore(r)
  PROVE  \E new \in Row :
           /\ file' = [file EXCEPT ![r] = new]
           /\ ~Occupied(new.dir, new.base, new.k, r)
           /\ \/ "rename" \in used' \/ "restore" \in used'
              \/ LockFree(new.dir)
<1>0. file[r] \in Row
  BY DEF IInv, TypeOK
<1>1. ASSUME NEW d \in Dirs, PasteMove(r, d)
      PROVE  \E new \in Row :
               /\ file' = [file EXCEPT ![r] = new]
               /\ ~Occupied(new.dir, new.base, new.k, r)
               /\ LockFree(new.dir)
  <2> DEFINE new == [file[r] EXCEPT !.dir = d, !.k = UniqueSuffix(d, file[r].base, r)]
  <2>1. /\ ~Occupied(d, file[r].base, UniqueSuffix(d, file[r].base, r), r)
        /\ UniqueSuffix(d, file[r].base, r) \in Nat
    BY <1>1, SuffixFree DEF PasteMove
  <2>2. /\ new \in Row /\ new.dir = d /\ new.base = file[r].base
        /\ new.k = UniqueSuffix(d, file[r].base, r)
    BY <1>0, <2>1 DEF Row
  <2>3. file' = [file EXCEPT ![r] = new] /\ LockFree(d)
    BY <1>1 DEF PasteMove
  <2> HIDE DEF new
  <2> QED
    BY <2>1, <2>2, <2>3
<1>2. ASSUME NEW b \in Bases, Rename(r, b)
      PROVE  \E new \in Row :
               /\ file' = [file EXCEPT ![r] = new]
               /\ ~Occupied(new.dir, new.base, new.k, r)
               /\ "rename" \in used'
  <2> DEFINE new == [file[r] EXCEPT !.base = b, !.k = UniqueSuffix(file[r].dir, b, r)]
  <2>1. /\ ~Occupied(file[r].dir, b, UniqueSuffix(file[r].dir, b, r), r)
        /\ UniqueSuffix(file[r].dir, b, r) \in Nat
    BY <1>2, SuffixFree DEF Rename
  <2>2. /\ new \in Row /\ new.dir = file[r].dir /\ new.base = b
        /\ new.k = UniqueSuffix(file[r].dir, b, r)
    BY <1>0, <2>1 DEF Row
  <2>3. file' = [file EXCEPT ![r] = new] /\ "rename" \in used'
    BY <1>2 DEF Rename, Op
  <2> HIDE DEF new
  <2> QED
    BY <2>1, <2>2, <2>3
<1>3. CASE Restore(r)
  <2> DEFINE new == [file[r] EXCEPT !.trashed = FALSE, !.k = RestoreSuffix(r)]
  <2>1. /\ ~Occupied(file[r].dir, file[r].base, RestoreSuffix(r), r)
        /\ RestoreSuffix(r) \in Nat
    BY <1>3, SuffixFree DEF Restore, RestoreSuffix
  <2>2. /\ new \in Row /\ new.dir = file[r].dir /\ new.base = file[r].base
        /\ new.k = RestoreSuffix(r)
    BY <1>0, <2>1 DEF Row
  <2>3. file' = [file EXCEPT ![r] = new] /\ "restore" \in used'
    BY <1>3 DEF Restore, Op
  <2> HIDE DEF new
  <2> QED
    BY <2>1, <2>2, <2>3
<1> QED
  BY <1>1, <1>2, <1>3

\* Every other step takes places away, or is an insertion or an overwrite.
LEMMA PlaceStep ==
  ASSUME IInv, [Next]_vars
  PROVE  \/ PlacesShrink(file, file')
         \/ \E u \in Uploads : InsertPlaceholder(u) \/ (Finalize(u) /\ Overwrites(u))
         \/ \E r \in Rows :
              \/ \E d \in Dirs : PasteCopy(r, d) \/ PasteMove(r, d)
              \/ \E b \in Bases : Rename(r, b)
              \/ Restore(r)
<1>0. file \in [Rows -> Row]
  BY DEF IInv, TypeOK
<1>1. CASE UNCHANGED file
  BY <1>1 DEF PlacesShrink, SamePlace
<1>2. ASSUME NEW ids, file' = Without(file, ids)
      PROVE  PlacesShrink(file, file')
  <2>1. file \in [DOMAIN file -> Row]
    BY <1>0 DEF Rows
  <2>2. /\ DOMAIN Without(file, ids) = DOMAIN file \ ids
        /\ \A r \in DOMAIN file \ ids : Without(file, ids)[r] = file[r]
    BY <2>1, WithoutType
  <2> QED
    BY <1>2, <2>2 DEF PlacesShrink, SamePlace
<1>3. ASSUME NEW u \in Uploads, Finalize(u), ~Overwrites(u)
      PROVE  PlacesShrink(file, file')
  BY <1>3, FinalizedPlain DEF PlacesShrink, SamePlace, Rows
<1>4. ASSUME NEW r \in Rows, Trash(r)
      PROVE  PlacesShrink(file, file')
  <2>1. file[r] \in Row
    BY <1>0
  <2> QED
    BY <1>0, <1>4, <2>1 DEF Trash, PlacesShrink, SamePlace, Rows, Row
<1>5. ASSUME NEW u \in Uploads,
             Begin(u) \/ UploadStep(u) \/ OpenFails(u) \/ FinalizeFails(u)
      PROVE  \/ UNCHANGED file \/ file' = Without(file, {row[u]})
             \/ InsertPlaceholder(u) \/ Finalize(u)
  BY <1>5 DEF Begin, UploadStep, LockAndPick, InsertRefused, SendPart, UploadFails,
     FinalizeRefused, OpenFails, FinalizeFails, Cleanup, tables
<1>6. ASSUME NEW p \in Purges,
             PurgeStep(p) \/ \E kind \in PurgeKinds : PurgeSelect(p, kind)
      PROVE  UNCHANGED file \/ file' = Without(file, purge[p].ids)
  BY <1>6, PurgeMoves DEF PurgeMove, Selects, Computes, Issues, DeletesFirst, Ends
<1> QED
  BY <1>1, <1>2, <1>3, <1>4, <1>5, <1>6
     DEF Next, vars, UserOp, TelegramDeletes, TelegramRefuses, Crash, tables

LEMMA UniqueStep ==
  ASSUME IInv, NamesInv, [Next]_vars, Promised'
  PROVE  UniqueIn(file')
<1>0. /\ Promised /\ UniqueIn(file)
      /\ Locked' => Locked
  BY StillPromised DEF NamesInv
<1>t. file \in [Rows -> Row] /\ \A s \in Rows : file[s].trashed \in BOOLEAN
  BY DEF IInv, TypeOK, Row
<1>1. CASE PlacesShrink(file, file')
  BY <1>0, <1>1, ShrinkUnique
<1>2. ASSUME NEW u \in Uploads, InsertPlaceholder(u)
      PROVE  UniqueIn(file')
  <2> DEFINE new == NewRow(Dir(u), Base(u), pick[u], {}, {})
  <2>1. /\ new \in Row /\ new.dir = Dir(u) /\ new.base = Base(u) /\ new.k = pick[u]
    BY ConstantsOK DEF NewRow, Row, IInv, TypeOK, Dir, Base
  <2>2. Insert(new) /\ pc[u] = "named" /\ ~Refused(Dir(u), Base(u), pick[u], 0)
    BY <1>2 DEF InsertPlaceholder
  <2>3. ~Occupied(Dir(u), Base(u), pick[u], 0)
    BY <1>0, <2>2, ClearNow DEF Refused, Promised, NamesInv, NameHeld
  <2> HIDE DEF new
  <2> QED
    BY <1>0, <2>1, <2>2, <2>3, InsertUnique
<1>3. ASSUME NEW r \in Rows, NEW d \in Dirs, PasteCopy(r, d)
      PROVE  UniqueIn(file')
  <2> DEFINE new == NewRow(d, file[r].base, UniqueSuffix(d, file[r].base, 0),
                           file[r].head, file[r].parts)
  <2>1. /\ ~Occupied(d, file[r].base, UniqueSuffix(d, file[r].base, 0), 0)
        /\ UniqueSuffix(d, file[r].base, 0) \in Nat
    BY <1>3, SuffixFree DEF PasteCopy
  <2>2. /\ new \in Row /\ new.dir = d /\ new.base = file[r].base
        /\ new.k = UniqueSuffix(d, file[r].base, 0)
    <3>1. file[r] \in Row
      BY <1>t
    <3> QED
      BY <2>1, <3>1 DEF NewRow, Row
  <2>3. Insert(new)
    BY <1>3 DEF PasteCopy
  <2> HIDE DEF new
  <2> QED
    BY <1>0, <2>1, <2>2, <2>3, InsertUnique
<1>4. ASSUME NEW r \in Rows,
             \/ \E d \in Dirs : PasteMove(r, d)
             \/ \E b \in Bases : Rename(r, b)
             \/ Restore(r)
      PROVE  UniqueIn(file')
  <2>1. PICK new \in Row : /\ file' = [file EXCEPT ![r] = new]
                           /\ ~Occupied(new.dir, new.base, new.k, r)
    BY <1>4, OpPlaces
  <2>2. \A s \in Rows \ {r} :
          ~(file[s].dir = new.dir /\ file[s].base = new.base /\ file[s].k = new.k
            /\ ~file[s].trashed)
    BY <2>1 DEF Occupied, At
  <2>3. new.trashed \in BOOLEAN
    BY DEF Row
  <2> QED
    BY <1>0, <1>t, <2>1, <2>2, <2>3, PlaceUnique DEF Rows
<1>5. ASSUME NEW u \in Uploads, Finalize(u), Overwrites(u)
      PROVE  UniqueIn(file')
  <2>1. UniqueIndex
    BY <1>0, <1>5 DEF Promised, Locked, PlainUploads, Overwrites
  <2> QED
    BY <1>0, <1>5, <2>1, TakeOverUnique
<1> QED
  BY <1>1, <1>2, <1>3, <1>4, <1>5, PlaceStep

\* Who is between picking a name and inserting, and who holds the lock then.
LEMMA LockStep ==
  ASSUME IInv, [Next]_vars, NEW u \in Uploads, pc'[u] = "named",
         pc[u] = "named" => insertLock[Dir(u)] = u,
         \A v \in Uploads : pc[v] = "named" => insertLock[Dir(v)] = v,
         \A v \in Uploads : ~InsertRefused(v)
  PROVE  \/ LockAndPick(u)
         \/ /\ pc[u] = "named" /\ pick'[u] = pick[u] /\ insertLock'[Dir(u)] = u
            /\ \A v \in Uploads : InsertPlaceholder(v) => Dir(v) # Dir(u)
<1> USE DEF IInv, TypeOK, Go, uploadVars
<1>a. Dir(u) \in Dirs /\ Nobody # u
  BY ConstantsOK DEF Dir
<1>5. ASSUME NEW v \in Uploads, InsertPlaceholder(v), pc[u] = "named"
      PROVE  Dir(v) # Dir(u)
  BY <1>5 DEF InsertPlaceholder
<1> SUFFICES \/ LockAndPick(u)
             \/ pc[u] = "named" /\ pick'[u] = pick[u] /\ insertLock'[Dir(u)] = u
  BY <1>5
<1>1. ASSUME NEW v \in Uploads,
             Begin(v) \/ UploadStep(v) \/ OpenFails(v) \/ FinalizeFails(v)
      PROVE  \/ LockAndPick(u)
             \/ pc[u] = "named" /\ pick'[u] = pick[u] /\ insertLock'[Dir(u)] = u
  <2>1. CASE LockAndPick(v)
    BY <1>a, <2>1 DEF LockAndPick, LockFree
  <2>2. CASE InsertPlaceholder(v)
    BY <1>a, <2>2 DEF InsertPlaceholder
  <2>3. CASE UNCHANGED <<pick, insertLock>> /\ (pc'[u] = "named" => pc[u] = "named")
    BY <2>3
  <2>4. ASSUME NEW to, to # "named", Go(v, to)
        PROVE  pc'[u] = "named" => pc[u] = "named"
    BY <2>4
  <2>5. CASE \E i \in Parts(v) : SendPart(v, i)
    BY <2>3, <2>5 DEF SendPart
  <2>6. CASE Begin(v)
    <3>1. Go(v, "ready") /\ UNCHANGED <<pick, insertLock>>
      BY <2>6 DEF Begin
    <3> QED
      BY <2>3, <2>4, <3>1
  <2>7. CASE Finalize(v)
    <3>1. Go(v, "done") /\ UNCHANGED <<pick, insertLock>>
      BY <2>7 DEF Finalize
    <3> QED
      BY <2>3, <2>4, <3>1
  <2>8. CASE \/ UploadFails(v) \/ FinalizeRefused(v) \/ OpenFails(v) \/ FinalizeFails(v)
    <3>1. Go(v, "error") /\ UNCHANGED <<pick, insertLock>>
      BY <2>8 DEF UploadFails, FinalizeRefused, OpenFails, FinalizeFails, Cleanup
    <3> QED
      BY <2>3, <2>4, <3>1
  <2> QED
    BY <1>1, <2>1, <2>2, <2>5, <2>6, <2>7, <2>8 DEF UploadStep
<1>2. CASE UNCHANGED <<pc, pick, insertLock>>
  BY <1>2
<1>3. CASE Crash
  BY <1>3 DEF Crash
<1>u. CASE \/ UserOp \/ UNCHANGED vars
           \/ \E m \in pendingDel : TelegramDeletes(m) \/ TelegramRefuses(m)
           \/ \E p \in Purges :
                PurgeStep(p) \/ \E kind \in PurgeKinds : PurgeSelect(p, kind)
  <2>1. UserOp => UNCHANGED uploadVars
    BY DEF UserOp, PasteCopy, PasteMove, Rename, Trash, Restore, Op
  <2>2. \A p \in Purges : PurgeStep(p) => UNCHANGED uploadVars
    BY DEF PurgeStep, PurgeCompute, PurgeIssue, PurgeRows, PurgeTelegram
  <2>3. \A p \in Purges : \A kind \in PurgeKinds :
          PurgeSelect(p, kind) => UNCHANGED uploadVars
    BY Zenon DEF PurgeSelect
  <2>4. \A m \in pendingDel :
          TelegramDeletes(m) \/ TelegramRefuses(m) => UNCHANGED uploadVars
    BY DEF TelegramDeletes, TelegramRefuses
  <2>5. UNCHANGED vars => UNCHANGED uploadVars
    BY DEF vars
  <2>6. UNCHANGED uploadVars
    BY <1>u, <2>1, <2>2, <2>3, <2>4, <2>5
  <2> QED
    BY <1>2, <2>6
<1> QED
  BY <1>1, <1>3, <1>u DEF Next

LEMMA NameHeldStep ==
  ASSUME IInv, NameHeld, [Next]_vars
  PROVE  NameHeld'
<1>j. job' = job
  BY JobFixed
<1> SUFFICES ASSUME Locked, Locked', NEW u \in Uploads, pc'[u] = "named"
             PROVE  /\ insertLock'[Dir(u)] = u
                    /\ Clear(file', Dir(u), Base(u), pick'[u])
  BY <1>j, StillPromised DEF NameHeld, Dir, Base
<1>0. /\ \A v \in Uploads : pc[v] = "named" =>
           insertLock[Dir(v)] = v /\ Clear(file, Dir(v), Base(v), pick[v])
      /\ Dir(u) \in Dirs /\ Nobody # u
  BY ConstantsOK DEF NameHeld, Dir, IInv, TypeOK
<1>r. ASSUME NEW v \in Uploads, InsertRefused(v)
      PROVE  FALSE
  <2>1. pc[v] = "named" /\ Occupied(Dir(v), Base(v), pick[v], 0)
    BY <1>r DEF InsertRefused, Refused
  <2> QED
    BY <1>0, <2>1, ClearNow
<1>s. \/ LockAndPick(u)
      \/ /\ pc[u] = "named" /\ pick'[u] = pick[u] /\ insertLock'[Dir(u)] = u
         /\ \A v \in Uploads : InsertPlaceholder(v) => Dir(v) # Dir(u)
  BY <1>0, <1>r, LockStep
<1>1. CASE LockAndPick(u)
  <2>1. /\ insertLock'[Dir(u)] = u /\ pick'[u] = UniqueSuffix(Dir(u), Base(u), 0)
        /\ file' = file
        /\ FreeSuffixes(Dir(u), Base(u), 0) # {}
    BY <1>0, <1>1 DEF LockAndPick, IInv, TypeOK, tables
  <2>2. ~Occupied(Dir(u), Base(u), pick'[u], 0)
    BY <2>1, SuffixFree
  <2>3. Clear(file, Dir(u), Base(u), pick'[u])
    BY <2>2, ClearNow
  <2> QED
    BY <2>1, <2>3
<1>2. CASE /\ pc[u] = "named" /\ pick'[u] = pick[u] /\ insertLock'[Dir(u)] = u
           /\ \A v \in Uploads : InsertPlaceholder(v) => Dir(v) # Dir(u)
  <2> DEFINE d == Dir(u)
             b == Base(u)
             k == pick[u]
  <2>1. insertLock[d] = u /\ Clear(file, d, b, k) /\ ~LockFree(d)
    BY <1>0, <1>2 DEF LockFree
  <2> SUFFICES Clear(file', d, b, k)
    BY <1>2
  <2>d. \A v \in Uploads : InsertPlaceholder(v) => Dir(v) # d
    BY <1>2
  <2> HIDE DEF d, b, k
  <2>2. ASSUME NEW new, new.dir # d,
               Insert(new) \/ \E r \in Rows : file' = [file EXCEPT ![r] = new]
        PROVE  Clear(file', d, b, k)
    <3>1. \A s \in DOMAIN file' : file'[s] = new \/ (s \in DOMAIN file /\ file'[s] = file[s])
      BY <2>2 DEF Insert, Rows, IInv, TypeOK
    <3> QED
      BY <2>1, <2>2, <3>1 DEF Clear
  <2>3. CASE PlacesShrink(file, file')
    BY <2>1, <2>3, ShrinkFree
  <2>4. ASSUME NEW v \in Uploads, InsertPlaceholder(v)
        PROVE  Clear(file', d, b, k)
    <3>1. NewRow(Dir(v), Base(v), pick[v], {}, {}).dir # d
      BY <2>d, <2>4 DEF NewRow
    <3> QED
      BY <2>2, <2>4, <3>1 DEF InsertPlaceholder
  <2>5. ASSUME NEW r \in Rows, NEW e \in Dirs, PasteCopy(r, e)
        PROVE  Clear(file', d, b, k)
    <3> DEFINE new == NewRow(e, file[r].base, UniqueSuffix(e, file[r].base, 0),
                             file[r].head, file[r].parts)
    <3>1. new.dir = e
      BY DEF NewRow
    <3>2. Insert(new) /\ LockFree(e)
      BY <2>5 DEF PasteCopy
    <3> HIDE DEF new
    <3> QED
      BY <2>1, <2>2, <3>1, <3>2
  <2>6. ASSUME NEW r \in Rows,
               \/ \E e \in Dirs : PasteMove(r, e)
               \/ \E c \in Bases : Rename(r, c)
               \/ Restore(r)
        PROVE  Clear(file', d, b, k)
    <3>1. PICK new \in Row : /\ file' = [file EXCEPT ![r] = new]
                             /\ \/ "rename" \in used' \/ "restore" \in used'
                                \/ LockFree(new.dir)
      BY <2>6, OpPlaces
    <3>2. LockFree(new.dir)
      BY <3>1 DEF Locked
    <3> QED
      BY <2>1, <2>2, <3>1, <3>2
  <2>7. \A v \in Uploads : ~Overwrites(v)
    BY DEF Locked, PlainUploads, Overwrites
  <2> QED
    BY <2>3, <2>4, <2>5, <2>6, <2>7, PlaceStep
<1> QED
  BY <1>s, <1>1, <1>2

LEMMA NamesStep ==
  ASSUME IInv, NamesInv, [Next]_vars
  PROVE  NamesInv'
<1>1. NameHeld'
  BY NameHeldStep DEF NamesInv
<1>2. (Promised => UniqueIn(file))'
  BY UniqueStep DEF UniqueIn
<1> QED
  BY <1>1, <1>2 DEF NamesInv

LEMMA InitNames == Init => NamesInv
  BY DEF Init, NamesInv, NameHeld, UniqueIn

LEMMA AlwaysNames == Spec => [](IInv /\ NamesInv)
<1>1. Init => IInv /\ NamesInv
  BY InitIInv, InitNames
<1>2. (IInv /\ NamesInv) /\ [Next]_vars => (IInv /\ NamesInv)'
  BY NextIInv, NamesStep
<1> QED
  BY <1>1, <1>2, PTL DEF Spec

\* No two active files of a directory share a name: with the index always, without it as
\* long as only those write that take AcquireFileInsertLock.
THEOREM NamesAreUnique == Spec => []UniqueActive
<1>1. NamesInv => UniqueActive
  BY DEF NamesInv, Promised, Locked, UniqueIn, UniqueActive, At, Rows
<1> QED
  BY <1>1, AlwaysNames, PTL

-----------------------------------------------------------------------------
(* An overwrite replaces the file by the new one *)

\* What the finalization of an overwrite writes: the replaced row goes, and its own row
\* takes the name unless another active row has it.
LEMMA FinalizedSwap ==
  ASSUME IInv, NEW u \in Uploads, Finalize(u), Overwrites(u)
  PROVE  /\ Rows' = Rows \ {old[u]}
         /\ \A r \in Rows' : r # row[u] => file'[r] = file[r]
         /\ row[u] \in Rows' =>
              /\ file'[row[u]].dir = file[row[u]].dir
              /\ file'[row[u]].trashed = file[row[u]].trashed
              /\ \/ file'[row[u]].base = file[row[u]].base /\ file'[row[u]].k = file[row[u]].k
                 \/ file'[row[u]].base = Base(u) /\ file'[row[u]].k = 0
         /\ row[u] \in Rows' =>
              \/ /\ UniqueIndex
                 /\ \E r \in Rows \ {row[u], old[u]} :
                      At(r, file[row[u]].dir, Base(u), 0) /\ ~file[r].trashed
                 /\ file'[row[u]].head = {}
              \/ /\ file'[row[u]].base = Base(u) /\ file'[row[u]].k = 0
                 /\ file'[row[u]].head = {<<u, 1>>}
                 /\ file'[row[u]].parts = IF job[u].parts > 1 THEN Messages(u) ELSE {}
<1> DEFINE f == SetParts(file, u)
           h == Without(f, {old[u]})
<1>1. file \in [Rows -> Row] /\ Messages(u) \in SUBSET Msg
  BY MessagesType DEF IInv, TypeOK
<1>2. file' = TakeOver(h, u)
  BY DEF Finalize, Finalized, Swap
<1>3. row[u] \in Rows => file[row[u]].head = {} /\ file[row[u]].parts = {}
  BY DEF IInv, PlaceholderEmpty, Finalize, ReadyToFinalize, Refs
<1>4. job[u].parts > 1 => row[u] \in Rows
  BY DEF Finalize, PartsRefused
<1>5. /\ f \in [Rows -> Row]
      /\ \A r \in Rows : r # row[u] => f[r] = file[r]
      /\ row[u] \in Rows =>
           /\ f[row[u]].parts = IF job[u].parts > 1 THEN Messages(u) ELSE {}
           /\ f[row[u]].dir = file[row[u]].dir /\ f[row[u]].base = file[row[u]].base
           /\ f[row[u]].k = file[row[u]].k /\ f[row[u]].trashed = file[row[u]].trashed
           /\ f[row[u]].head = {}
  <2>1. row[u] \in Rows => file[row[u]] \in Row
    BY <1>1
  <2> QED
    BY <1>1, <1>3, <1>4, <2>1 DEF SetParts, Row
<1> HIDE DEF f
<1>6. /\ h \in [Rows \ {old[u]} -> Row]
      /\ \A r \in Rows \ {old[u]} : h[r] = f[r]
      /\ DOMAIN h = Rows \ {old[u]}
  <2>1. DOMAIN f = Rows
    BY <1>5
  <2>2. f \in [DOMAIN f -> Row]
    BY <1>5, <2>1
  <2> QED
    BY <2>1, <2>2, WithoutType
<1> HIDE DEF h
<1>7. CASE row[u] \notin DOMAIN h
  BY <1>2, <1>5, <1>6, <1>7 DEF TakeOver, Rows
<1>8. CASE row[u] \in DOMAIN h /\ NameTaken(h, u)
  <2>1. file' = h
    BY <1>2, <1>8 DEF TakeOver
  <2>2. PICK r \in DOMAIN h \ {row[u]} :
           /\ h[r].dir = h[row[u]].dir /\ h[r].base = Base(u) /\ h[r].k = 0
           /\ ~h[r].trashed
    BY <1>8 DEF NameTaken
  <2>3. /\ r \in Rows \ {row[u], old[u]}
        /\ At(r, file[row[u]].dir, Base(u), 0) /\ ~file[r].trashed
    BY <1>5, <1>6, <1>8, <2>2 DEF At
  <2>4. UniqueIndex
    BY <1>8 DEF NameTaken
  <2> QED
    BY <1>5, <1>6, <1>8, <2>1, <2>3, <2>4 DEF Rows
<1>9. CASE row[u] \in DOMAIN h /\ ~NameTaken(h, u)
  <2> DEFINE new == [h[row[u]] EXCEPT !.head = {<<u, 1>>}, !.base = Base(u), !.k = 0]
  <2>1. file' = [h EXCEPT ![row[u]] = new]
    BY <1>2, <1>9 DEF TakeOver
  <2>2. h[row[u]] \in Row
    BY <1>6, <1>9
  <2>3. /\ new.dir = h[row[u]].dir /\ new.base = Base(u) /\ new.k = 0
        /\ new.trashed = h[row[u]].trashed
        /\ new.head = {<<u, 1>>} /\ new.parts = h[row[u]].parts
    BY <2>2 DEF Row
  <2> HIDE DEF new
  <2>4. /\ DOMAIN file' = DOMAIN h /\ file'[row[u]] = new
        /\ \A r \in DOMAIN h : r # row[u] => file'[r] = h[r]
    BY <1>6, <1>9, <2>1
  <2> QED
    BY <1>5, <1>6, <1>9, <2>3, <2>4 DEF Rows
<1> QED
  BY <1>7, <1>8, <1>9

\* Nobody has done anything but upload and copy.
OnlyCopies == used \subseteq {"copy"}

\* The row an overwrite found keeps the plain name, so the name picked under the lock is
\* another; the placeholder gets that name and stays until the overwrite takes over.
HoldsBack(u) ==
  /\ old[u] \in Rows => At(old[u], Dir(u), Base(u), 0)
  /\ pc[u] = "named" /\ old[u] \in Rows => pick[u] # 0
  /\ pc[u] = "upload" /\ row[u] \in Rows =>
       file[row[u]].dir = Dir(u) /\ file[row[u]].base = Base(u)
  /\ pc[u] = "upload" /\ old[u] \in Rows => row[u] \in Rows /\ file[row[u]].k # 0

SwapInv ==
  OnlyCopies =>
    /\ \A p \in Purges : purge[p].pc = "idle"
    /\ \A r \in Rows : ~file[r].trashed
    /\ \A u \in Uploads : HoldsBack(u)

\* A step that leaves the two rows of an upload in their places.
LEMMA HoldsBackStill ==
  ASSUME NEW u \in Uploads, HoldsBack(u), job' = job,
         old'[u] = old[u], row'[u] = row[u],
         pc'[u] \in {"named", "upload"} => pc'[u] = pc[u] /\ pick'[u] = pick[u],
         old[u] \in Rows' => old[u] \in Rows /\ SamePlace(file, file', old[u]),
         pc'[u] = "upload" /\ row[u] \in Rows' =>
           row[u] \in Rows /\ SamePlace(file, file', row[u]),
         pc'[u] = "upload" /\ old[u] \in Rows /\ row[u] \in Rows => row[u] \in Rows'
  PROVE  HoldsBack(u)'
  BY DEF HoldsBack, SamePlace, At, Dir, Base, Rows

\* Deleting the placeholder of an upload that ends.
LEMMA CleanupHoldsBack ==
  ASSUME IInv, \A w \in Uploads : HoldsBack(w), NEW v \in Uploads,
         file' = Without(file, {row[v]}), Go(v, "error"),
         UNCHANGED <<job, old, pick, row>>
  PROVE  \A u \in Uploads : HoldsBack(u)'
<1> SUFFICES ASSUME NEW u \in Uploads PROVE HoldsBack(u)'
  OBVIOUS
<1>1. file \in [DOMAIN file -> Row] /\ DOMAIN pc = Uploads /\ 0 \notin Rows
  BY DEF IInv, TypeOK, Rows, RowId
<1>2. /\ DOMAIN file' = DOMAIN file \ {row[v]}
      /\ \A r \in DOMAIN file \ {row[v]} : file'[r] = file[r]
  <2>1. LET g == Without(file, {row[v]})
        IN  /\ DOMAIN g = DOMAIN file \ {row[v]}
            /\ \A r \in DOMAIN file \ {row[v]} : g[r] = file[r]
    BY <1>1, WithoutType
  <2> QED
    BY <2>1
<1>3. pc' = [pc EXCEPT ![v] = "error"]
  BY DEF Go
<1>4. pc'[u] = "upload" /\ row[u] \in Rows => row[u] # row[v]
  BY <1>1, <1>3 DEF IInv, OwnPlaceholder
<1>5. pc'[u] \in {"named", "upload"} => pc'[u] = pc[u]
  BY <1>1, <1>3
<1> QED
  BY <1>2, <1>4, <1>5, HoldsBackStill DEF SamePlace, Rows

LEMMA FinalizeHoldsBack ==
  ASSUME IInv, \A w \in Uploads : HoldsBack(w), NEW v \in Uploads, Finalize(v)
  PROVE  \A u \in Uploads : HoldsBack(u)'
<1> SUFFICES ASSUME NEW u \in Uploads PROVE HoldsBack(u)'
  OBVIOUS
<1>1. /\ pc[v] = "upload" /\ pc' = [pc EXCEPT ![v] = "done"]
      /\ UNCHANGED <<job, old, pick, row>>
  BY DEF Finalize, ReadyToFinalize, Go
<1>2. DOMAIN pc = Uploads /\ 0 \notin Rows
  BY DEF IInv, TypeOK, Rows, RowId
<1>3. pc'[u] \in {"named", "upload"} => pc'[u] = pc[u] /\ u # v
  BY <1>1, <1>2
<1>4. pc'[u] = "upload" /\ row[u] \in Rows => row[u] # row[v]
  BY <1>2, <1>3 DEF IInv, OwnPlaceholder
<1>5. CASE ~Overwrites(v)
  <2>1. Rows' = Rows /\ \A r \in Rows : SamePlace(file, file', r)
    BY <1>5, FinalizedPlain DEF SamePlace
  <2> QED
    BY <1>1, <1>3, <2>1, HoldsBackStill
<1>6. CASE Overwrites(v)
  <2>1. /\ Rows' = Rows \ {old[v]}
        /\ \A r \in Rows' : r # row[v] => file'[r] = file[r]
    BY <1>6, FinalizedSwap
  <2>2. pc'[u] = "upload" /\ old[u] \in Rows /\ row[u] \in Rows => row[u] # old[v]
    <3> SUFFICES ASSUME pc'[u] = "upload", old[u] \in Rows, row[u] \in Rows, row[u] = old[v]
                 PROVE  FALSE
      OBVIOUS
    <3>1. file[row[u]].k # 0
      BY <1>3 DEF HoldsBack
    <3>2. file[old[v]].k = 0
      BY DEF HoldsBack, At
    <3> QED
      BY <3>1, <3>2
  <2>3. old[u] \in Rows' => SamePlace(file, file', old[u])
    <3>1. CASE old[u] # row[v]
      BY <2>1, <3>1 DEF SamePlace
    <3>2. CASE old[u] = row[v] /\ old[u] \in Rows'
      <4>1. file[row[v]].k = 0 /\ file[row[v]].base = Base(v)
        BY <1>1, <2>1, <3>2 DEF HoldsBack, At
      <4> QED
        BY <1>6, <3>2, <4>1, FinalizedSwap DEF SamePlace
    <3> QED
      BY <3>1, <3>2
  <2>4. pc'[u] = "upload" /\ row[u] \in Rows' => SamePlace(file, file', row[u])
    BY <1>4, <2>1 DEF SamePlace
  <2> QED
    BY <1>1, <1>3, <2>1, <2>2, <2>3, <2>4, HoldsBackStill
<1> QED
  BY <1>5, <1>6

\* A new row takes no other row's id.
LEMMA InsertHoldsBack ==
  ASSUME IInv, NEW u \in Uploads, HoldsBack(u), NEW new, Insert(new), job' = job,
         old'[u] = old[u], row'[u] = row[u], pc'[u] = pc[u], pick'[u] = pick[u]
  PROVE  HoldsBack(u)'
<1>1. /\ nextId \notin Rows /\ old[u] # nextId /\ row[u] # nextId
      /\ Rows' = Rows \cup {nextId} /\ \A r \in Rows : file'[r] = file[r]
  BY DEF IInv, TypeOK, RowId, Insert, Rows
<1> QED
  BY <1>1, HoldsBackStill DEF SamePlace

LEMMA PlaceholderHoldsBack ==
  ASSUME IInv, \A w \in Uploads : HoldsBack(w), NEW v \in Uploads, InsertPlaceholder(v)
  PROVE  \A u \in Uploads : HoldsBack(u)'
<1> SUFFICES ASSUME NEW u \in Uploads PROVE HoldsBack(u)'
  OBVIOUS
<1>1. /\ pc[v] = "named" /\ pc' = [pc EXCEPT ![v] = "upload"]
      /\ row' = [row EXCEPT ![v] = nextId]
      /\ UNCHANGED <<job, old, pick>>
      /\ Insert(NewRow(Dir(v), Base(v), pick[v], {}, {}))
  BY DEF InsertPlaceholder, Go
<1>2. /\ DOMAIN pc = Uploads /\ DOMAIN row = Uploads
      /\ nextId \notin Rows /\ old[v] # nextId
  BY DEF IInv, TypeOK, RowId
<1>3. CASE u # v
  BY <1>1, <1>2, <1>3, InsertHoldsBack
<1>4. CASE u = v
  <2>1. /\ row'[v] = nextId /\ pc'[v] = "upload" /\ old'[v] = old[v]
        /\ nextId \in Rows'
        /\ file'[nextId] = NewRow(Dir(v), Base(v), pick[v], {}, {})
        /\ \A r \in Rows : r # nextId => file'[r] = file[r]
        /\ Rows' = Rows \cup {nextId}
    BY <1>1, <1>2 DEF Insert, Rows
  <2>2. old[v] \in Rows => pick[v] # 0 /\ At(old[v], Dir(v), Base(v), 0)
    BY <1>1 DEF HoldsBack
  <2> QED
    BY <1>1, <1>2, <1>4, <2>1, <2>2 DEF HoldsBack, At, Dir, Base, NewRow
<1> QED
  BY <1>3, <1>4

\* The name an upload picks is not the one of the row it is going to replace.
LEMMA PickHoldsBack ==
  ASSUME IInv, \A w \in Uploads : HoldsBack(w), \A r \in Rows : ~file[r].trashed,
         NEW v \in Uploads, LockAndPick(v) \/ InsertRefused(v)
  PROVE  \A u \in Uploads : HoldsBack(u)'
<1> SUFFICES ASSUME NEW u \in Uploads PROVE HoldsBack(u)'
  OBVIOUS
<1>1. /\ UNCHANGED <<file, job, old, row>>
      /\ FreeSuffixes(Dir(v), Base(v), 0) # {}
      /\ \/ pc'[v] = "named" /\ pick'[v] = UniqueSuffix(Dir(v), Base(v), 0)
         \/ pc'[v] = "error"
      /\ \A w \in Uploads \ {v} : pc'[w] = pc[w] /\ pick'[w] = pick[w]
  BY DEF LockAndPick, InsertRefused, tables, Go, IInv, TypeOK
<1>2. CASE u # v
  BY <1>1, <1>2, HoldsBackStill DEF SamePlace, Rows
<1>3. CASE u = v
  <2>1. old[v] \in Rows => Occupied(Dir(v), Base(v), 0, 0)
    BY DEF HoldsBack, Occupied, IInv, TypeOK
  <2>2. old[v] \in Rows => UniqueSuffix(Dir(v), Base(v), 0) # 0
    BY <1>1, <2>1, SuffixFree
  <2> QED
    BY <1>1, <1>3, <2>2 DEF HoldsBack, At, Rows, Dir, Base
<1> QED
  BY <1>2, <1>3

LEMMA BeginHoldsBack ==
  ASSUME IInv, \A w \in Uploads : HoldsBack(w), NEW v \in Uploads, Begin(v)
  PROVE  \A u \in Uploads : HoldsBack(u)'
<1> SUFFICES ASSUME NEW u \in Uploads PROVE HoldsBack(u)'
  OBVIOUS
<1>1. /\ UNCHANGED <<file, job, pick, row>>
      /\ pc'[v] = "ready"
      /\ \A w \in Uploads \ {v} : pc'[w] = pc[w] /\ old'[w] = old[w]
      /\ \/ old'[v] = old[v]
         \/ At(old'[v], Dir(v), Base(v), 0)
  BY DEF Begin, tables, Go, IInv, TypeOK
<1>2. CASE u # v
  BY <1>1, <1>2, HoldsBackStill DEF SamePlace, Rows
<1>3. CASE u = v
  BY <1>1, <1>3 DEF HoldsBack, At, Rows, Dir, Base
<1> QED
  BY <1>2, <1>3

\* What can happen where nobody has done anything but upload and copy.
LEMMA OnlyCopiesStep ==
  ASSUME IInv, SwapInv, [Next]_vars, OnlyCopies'
  PROVE  /\ OnlyCopies
         /\ \/ UNCHANGED <<file, nextId, uploadVars, purge>>
            \/ \E u \in Uploads : Begin(u) \/ UploadStep(u) \/ OpenFails(u) \/ FinalizeFails(u)
            \/ \E r \in Rows : \E d \in Dirs : PasteCopy(r, d)
            \/ Crash
<1>1. OnlyCopies
  BY UsedGrows DEF OnlyCopies
<1>2. ASSUME UserOp
      PROVE  \E r \in Rows : \E d \in Dirs : PasteCopy(r, d)
  <2>1. ASSUME NEW kind, Op(kind) PROVE kind = "copy"
    BY <2>1 DEF Op, OnlyCopies
  <2>2. ~Op("move") /\ ~Op("rename") /\ ~Op("trash") /\ ~Op("restore")
    BY <2>1
  <2>3. PICK r \in Rows : \/ \E d \in Dirs : PasteCopy(r, d) \/ PasteMove(r, d)
                          \/ \E b \in Bases : Rename(r, b)
                          \/ Trash(r)
                          \/ Restore(r)
    BY <1>2, Zenon DEF UserOp
  <2>4. /\ \A d \in Dirs : PasteMove(r, d) => Op("move")
        /\ \A b \in Bases : Rename(r, b) => Op("rename")
        /\ Trash(r) => Op("trash")
        /\ Restore(r) => Op("restore")
    BY Zenon DEF PasteMove, Rename, Trash, Restore
  <2>5. PICK d \in Dirs : PasteCopy(r, d)
    BY <2>2, <2>3, <2>4, Zenon
  <2> QED
    BY <2>5, Zenon
<1>3. ASSUME NEW m \in pendingDel, TelegramDeletes(m) \/ TelegramRefuses(m)
      PROVE  UNCHANGED <<file, nextId, uploadVars, purge>>
  BY <1>3 DEF TelegramDeletes, TelegramRefuses, tables
<1>4. ASSUME NEW p \in Purges, PurgeStep(p)
      PROVE  FALSE
  <2>1. purge[p].pc = "idle"
    BY <1>1 DEF SwapInv
  <2> QED
    BY <1>4, <2>1 DEF PurgeStep, PurgeCompute, PurgeIssue, PurgeRows, PurgeTelegram, RowsFirst
<1>5. ASSUME NEW p \in Purges, NEW kind \in PurgeKinds, PurgeSelect(p, kind)
      PROVE  FALSE
  <2>1. used' = used \cup {kind}
    BY <1>5, Zenon DEF PurgeSelect
  <2> QED
    BY <2>1 DEF OnlyCopies, PurgeKinds
<1> QED
  BY <1>1, <1>2, <1>3, <1>4, <1>5 DEF Next, vars, tables, uploadVars

LEMMA SwapStep ==
  ASSUME IInv, SwapInv, [Next]_vars
  PROVE  SwapInv'
<1> SUFFICES ASSUME OnlyCopies'
             PROVE  /\ \A p \in Purges : purge'[p].pc = "idle"
                    /\ \A r \in Rows' : ~file'[r].trashed
                    /\ \A u \in Uploads : HoldsBack(u)'
  BY DEF SwapInv
<1>0. /\ \A p \in Purges : purge[p].pc = "idle"
      /\ \A r \in Rows : ~file[r].trashed
      /\ \A u \in Uploads : HoldsBack(u)
      /\ file \in [DOMAIN file -> Row]
  BY OnlyCopiesStep DEF SwapInv, IInv, TypeOK, Rows
<1>1. CASE UNCHANGED <<file, nextId, uploadVars, purge>>
  BY <1>0, <1>1, HoldsBackStill DEF uploadVars, SamePlace, Rows
<1>2. ASSUME NEW new, Insert(new), ~new.trashed
      PROVE  \A r \in Rows' : ~file'[r].trashed
  BY <1>0, <1>2 DEF Insert, Rows
<1>3. ASSUME NEW ids, file' = Without(file, ids)
      PROVE  /\ \A r \in Rows' : ~file'[r].trashed
             /\ Rows' \subseteq Rows
             /\ \A r \in Rows' : file'[r] = file[r]
  <2>1. LET g == Without(file, ids)
        IN  /\ DOMAIN g = DOMAIN file \ ids
            /\ \A r \in DOMAIN file \ ids : g[r] = file[r]
    BY <1>0, WithoutType
  <2> QED
    BY <1>0, <1>3, <2>1 DEF Rows
<1>4. ASSUME NEW r \in Rows, NEW d \in Dirs, PasteCopy(r, d)
      PROVE  /\ \A p \in Purges : purge'[p].pc = "idle"
             /\ \A s \in Rows' : ~file'[s].trashed
             /\ \A u \in Uploads : HoldsBack(u)'
  <2> DEFINE new == NewRow(d, file[r].base, UniqueSuffix(d, file[r].base, 0),
                           file[r].head, file[r].parts)
  <2>1. ~new.trashed
    BY DEF NewRow
  <2>2. Insert(new) /\ UNCHANGED <<uploadVars, purge>>
    BY <1>4 DEF PasteCopy, Op
  <2> HIDE DEF new
  <2> QED
    BY <1>0, <1>2, <2>1, <2>2, InsertHoldsBack DEF uploadVars
<1>5. CASE Crash
  <2>1. /\ file' = Without(file, IF Dedup THEN Duplicates ELSE {})
        /\ purge' = [p \in Purges |-> IdlePurge]
        /\ \A u \in Uploads : pc'[u] \notin {"named", "upload"}
        /\ UNCHANGED <<job, old, row>>
    BY <1>5 DEF Crash
  <2>2. /\ \A r \in Rows' : ~file'[r].trashed
        /\ Rows' \subseteq Rows /\ \A r \in Rows' : file'[r] = file[r]
    BY <1>3, <2>1
  <2> QED
    BY <1>0, <2>1, <2>2, HoldsBackStill DEF IdlePurge, SamePlace
<1>6. ASSUME NEW u \in Uploads,
             Begin(u) \/ UploadStep(u) \/ OpenFails(u) \/ FinalizeFails(u)
      PROVE  /\ \A p \in Purges : purge'[p].pc = "idle"
             /\ \A r \in Rows' : ~file'[r].trashed
             /\ \A v \in Uploads : HoldsBack(v)'
  <2>1. UNCHANGED <<job, purge>>
    BY <1>6 DEF Begin, UploadStep, LockAndPick, InsertPlaceholder, InsertRefused, SendPart,
       UploadFails, Finalize, FinalizeRefused, OpenFails, FinalizeFails
  <2>2. CASE Begin(u)
    BY <1>0, <2>1, <2>2, BeginHoldsBack DEF Begin, tables, Rows
  <2>3. CASE LockAndPick(u) \/ InsertRefused(u)
    BY <1>0, <2>1, <2>3, PickHoldsBack DEF LockAndPick, InsertRefused, tables, Rows
  <2>4. CASE InsertPlaceholder(u)
    <3>1. Insert(NewRow(Dir(u), Base(u), pick[u], {}, {}))
      BY <2>4 DEF InsertPlaceholder
    <3>2. ~NewRow(Dir(u), Base(u), pick[u], {}, {}).trashed
      BY DEF NewRow
    <3> QED
      BY <1>0, <1>2, <2>1, <2>4, <3>1, <3>2, PlaceholderHoldsBack
  <2>5. CASE UploadFails(u) \/ FinalizeRefused(u) \/ FinalizeFails(u)
    <3>1. /\ file' = Without(file, {row[u]}) /\ Go(u, "error")
          /\ UNCHANGED <<job, old, pick, row>>
      BY <2>5 DEF UploadFails, FinalizeRefused, FinalizeFails, Cleanup
    <3> QED
      BY <1>0, <1>3, <2>1, <3>1, CleanupHoldsBack
  <2>6. CASE Finalize(u)
    <3>1. \A r \in Rows' : ~file'[r].trashed
      <4>1. CASE ~Overwrites(u)
        BY <1>0, <2>6, <4>1, FinalizedPlain
      <4>2. CASE Overwrites(u)
        BY <1>0, <2>6, <4>2, FinalizedSwap
      <4> QED
        BY <4>1, <4>2
    <3> QED
      BY <1>0, <2>1, <2>6, <3>1, FinalizeHoldsBack
  <2>7. CASE OpenFails(u) \/ \E i \in Parts(u) : SendPart(u, i)
    <3>1. /\ UNCHANGED <<file, job, old, pick, row>>
          /\ \A v \in Uploads : pc'[v] \in {"named", "upload"} => pc'[v] = pc[v]
      BY <2>7 DEF OpenFails, SendPart, tables, Go, IInv, TypeOK
    <3> QED
      BY <1>0, <2>1, <3>1, HoldsBackStill DEF SamePlace, Rows
  <2> QED
    BY <1>6, <2>2, <2>3, <2>4, <2>5, <2>6, <2>7 DEF UploadStep
<1> QED
  BY <1>1, <1>4, <1>5, <1>6, OnlyCopiesStep

\* The finalization of an overwrite whose old row is still there.
LEMMA SwapKeepsOne ==
  ASSUME IInv, NamesInv, SwapInv, [Next]_vars, OnlyCopies, NEW u \in Uploads,
         pc[u] = "upload", pc'[u] = "done", Overwrites(u), old[u] \in Rows
  PROVE  /\ old[u] \notin Rows'
         /\ row[u] \in Rows'
         /\ HoldsAllOf(row[u], u)'
         /\ At(row[u], Dir(u), Base(u), 0)'
<1>1. job' = job /\ row[u] # 0
  <2>1. row[u] \in Rows /\ 0 \notin Rows
    BY DEF SwapInv, HoldsBack, IInv, TypeOK, RowId
  <2> QED
    BY <2>1, JobFixed
<1>2. Finalize(u) /\ row' = row
  BY DoneOnlyFinalized DEF Finalize
<1>3. /\ Rows' = Rows \ {old[u]}
      /\ row[u] \in Rows /\ file[row[u]].k # 0 /\ file[row[u]].dir = Dir(u)
      /\ At(old[u], Dir(u), Base(u), 0) /\ ~file[old[u]].trashed
  BY <1>2, FinalizedSwap DEF SwapInv, HoldsBack
<1>4. row[u] \in Rows'
  BY <1>3 DEF At
<1>5. ~\E r \in Rows \ {row[u], old[u]} :
         UniqueIndex /\ At(r, file[row[u]].dir, Base(u), 0) /\ ~file[r].trashed
  BY <1>3 DEF NamesInv, Promised, UniqueIn, At, Rows
<1>6. /\ file'[row[u]].base = Base(u) /\ file'[row[u]].k = 0
      /\ file'[row[u]].dir = Dir(u)
      /\ file'[row[u]].head = {<<u, 1>>}
      /\ file'[row[u]].parts = IF job[u].parts > 1 THEN Messages(u) ELSE {}
  BY <1>2, <1>3, <1>4, <1>5, FinalizedSwap
<1>7. HoldsAllOf(row[u], u)'
  BY <1>1, <1>2, <1>6, AllMessages DEF HoldsAllOf, Parts
<1> QED
  BY <1>1, <1>2, <1>3, <1>4, <1>6, <1>7 DEF At, Dir, Base

\* Where nobody but uploads and copies touches the store, the step that removes the file
\* an overwrite replaces leaves the new one complete under the name, with the index and
\* without it.
THEOREM OverwritesKeepOne == Spec => OverwriteKeepsOne
<1>1. Init => SwapInv
  BY DEF Init, SwapInv, HoldsBack, Rows, IdlePurge
<1>2. IInv /\ SwapInv /\ [Next]_vars => SwapInv'
  BY SwapStep
<1>3. IInv /\ NamesInv /\ SwapInv /\ [Next]_vars =>
        [\A u \in Uploads :
           /\ used \subseteq {"copy"}
           /\ pc[u] = "upload" /\ pc'[u] = "done"
           /\ Overwrites(u) /\ old[u] \in Rows
           => /\ old[u] \notin Rows'
              /\ row[u] \in Rows'
              /\ HoldsAllOf(row[u], u)'
              /\ At(row[u], Dir(u), Base(u), 0)']_vars
  BY SwapKeepsOne DEF OnlyCopies
<1> QED
  BY <1>1, <1>2, <1>3, AlwaysNames, PTL DEF Spec, OverwriteKeepsOne

-----------------------------------------------------------------------------
(* The store is a library *)

\* Every file with a message_id holds all the messages of one upload.
FilesWhole == \A r \in Rows : file[r].head # {} => Refs(r) \in Whole

\* What an upload's placeholder holds when its finalization has filled it.
LEMMA FilledWhole ==
  ASSUME IInv, NEW u \in Uploads, Finalize(u),
         file'[row[u]].head = {<<u, 1>>},
         file'[row[u]].parts = IF job[u].parts > 1 THEN Messages(u) ELSE {}
  PROVE  file'[row[u]].head \cup file'[row[u]].parts = Content(u)
<1>1. Messages(u) = Content(u) /\ Content(u) = {<<u, i>> : i \in 1 .. job[u].parts}
  BY AllMessages DEF Content, Parts
<1>2. job[u].parts \in Nat \ {0}
  BY ConstantsOK DEF IInv, TypeOK
<1>3. CASE job[u].parts > 1
  BY <1>1, <1>2, <1>3
<1>4. CASE job[u].parts = 1
  BY <1>1, <1>4
<1> QED
  BY <1>2, <1>3, <1>4

\* A finalization removes at most the row it replaces, and leaves the others; its own is
\* empty still, or holds all the messages of the upload.
LEMMA FinalizedFiles ==
  ASSUME IInv, NEW u \in Uploads, Finalize(u)
  PROVE  /\ Rows' = Rows \/ Rows' = Rows \ {old[u]}
         /\ \A r \in Rows' : r # row[u] => file'[r] = file[r]
         /\ row[u] \in Rows' => \/ file'[row[u]].head = {}
                                \/ Refs(row[u])' = Content(u)
<1>1. row' = row
  BY DEF Finalize
<1>2. CASE ~Overwrites(u)
  BY <1>1, <1>2, FinalizedPlain, FilledWhole DEF Refs
<1>3. CASE Overwrites(u)
  <2>1. row[u] \in Rows' =>
          \/ file'[row[u]].head = {}
          \/ /\ file'[row[u]].head = {<<u, 1>>}
             /\ file'[row[u]].parts = IF job[u].parts > 1 THEN Messages(u) ELSE {}
    BY <1>3, FinalizedSwap
  <2> QED
    BY <1>1, <1>3, <2>1, FinalizedSwap, FilledWhole DEF Refs
<1> QED
  BY <1>2, <1>3

LEMMA WholeSame == ASSUME [Next]_vars PROVE Whole' = Whole
  BY JobFixed DEF Whole, Content, Parts

LEMMA FilesWholeStep ==
  ASSUME IInv, FilesWhole, [Next]_vars
  PROVE  FilesWhole'
<1> SUFFICES ASSUME NEW r \in Rows', file'[r].head # {}
             PROVE  Refs(r)' \in Whole
  BY WholeSame DEF FilesWhole
<1>1. ASSUME NEW s \in Rows, file'[r].head = file[s].head, file'[r].parts = file[s].parts
      PROVE  Refs(r)' \in Whole
  BY <1>1 DEF FilesWhole, Refs
<1>2. CASE KeepsRefs
  BY <1>1, <1>2 DEF KeepsRefs
<1>3. ASSUME NEW new \in Row, Insert(new),
             \/ new.head = {} /\ new.parts = {}
             \/ \E s \in Rows : new.head = file[s].head /\ new.parts = file[s].parts
      PROVE  Refs(r)' \in Whole
  <2>1. /\ r \in Rows \cup {nextId}
        /\ file'[r] = IF r = nextId THEN new ELSE file[r]
    BY <1>3 DEF Insert, Rows
  <2> QED
    BY <1>1, <1>3, <2>1
<1>4. ASSUME NEW u \in Uploads, Finalize(u)
      PROVE  Refs(r)' \in Whole
  <2>1. CASE r # row[u]
    <3>1. file'[r] = file[r] /\ r \in Rows
      BY <1>4, <2>1, FinalizedFiles
    <3> QED
      BY <1>1, <3>1
  <2>2. CASE r = row[u]
    <3>1. row' = row
      BY <1>4 DEF Finalize
    <3>2. Refs(row[u])' = Content(u)
      BY <1>4, <2>2, <3>1, FinalizedFiles
    <3> QED
      BY <2>2, <3>1, <3>2 DEF Whole
  <2> QED
    BY <2>1, <2>2
<1> QED
  BY <1>2, <1>3, <1>4, RefsStep

\* Uploads that overwrite included: a row with a message_id has the messages of all the
\* parts of one upload.
THEOREM FilesAreWhole == Spec => []FilesWhole
<1>1. Init => FilesWhole
  BY DEF Init, FilesWhole, Rows
<1>2. IInv /\ FilesWhole /\ [Next]_vars => FilesWhole'
  BY FilesWholeStep
<1> QED
  BY <1>1, <1>2, Invariant, PTL DEF Spec

\* The rows a reader finds.
OnShelf == {r \in Rows \ Doomed : file[r].head # {}}

LEMMA ShelfRows ==
  /\ DOMAIN Shelf = OnShelf
  /\ \A r \in OnShelf : Shelf[r] = Refs(r)
  BY DEF Shelf, OnShelf

\* A row of a trash being emptied stays one until it is deleted, restarts apart.
LEMMA DoomedStay ==
  ASSUME IInv, PurgeHonest, [Next]_vars, ~Exempt'
  PROVE  Doomed \cap Rows' \subseteq Doomed'
<1> SUFFICES ASSUME NEW p \in Purges, purge[p].pc = "issued",
                    NEW r \in purge[p].ids, r \in Rows'
             PROVE  r \in Doomed'
  BY DEF Doomed
<1>1. CASE purge'[p] = purge[p]
  BY <1>1 DEF Doomed
<1>2. CASE Crash
  BY <1>2, UsedGrows DEF PurgeHonest, Crash, Fault, Exempt
<1>3. ASSUME PurgeMove(p) PROVE r \in Doomed'
  <2>1. file' = Without(file, purge[p].ids)
    BY <1>3 DEF PurgeMove, Selects, Computes, Issues, DeletesFirst, Ends
  <2>2. Rows' = Rows \ purge[p].ids
    BY <2>1, WithoutRows
  <2> QED
    BY <2>2
<1>4. ASSUME NEW q \in Purges,
             PurgeStep(q) \/ \E kind \in PurgeKinds : PurgeSelect(q, kind)
      PROVE  r \in Doomed'
  <2>1. PurgeMove(q) /\ \A o \in Purges \ {q} : purge'[o] = purge[o]
    BY <1>4, PurgeMoves
  <2> QED
    BY <1>1, <1>3, <2>1
<1> QED
  BY <1>1, <1>2, <1>4, PurgesSteady

\* Nothing appears and nothing changes: files are taken away, or none.
LEMMA ShelfShrinks ==
  ASSUME IInv, PurgeHonest, [Next]_vars, ~Exempt', KeepsRefs
  PROVE  Shop!Remove(DOMAIN Shelf \ DOMAIN Shelf')
<1>1. \A r \in OnShelf' : r \in OnShelf /\ Refs(r)' = Refs(r)
  BY DoomedStay DEF OnShelf, KeepsRefs, Refs
<1>2. /\ DOMAIN Shelf' = OnShelf'
      /\ \A r \in OnShelf' : Shelf'[r] = Refs(r)'
  BY ShelfRows DEF Shelf, OnShelf
<1>3. Shelf' = [r \in OnShelf' |-> Refs(r)']
  BY DEF Shelf, OnShelf
<1>4. OnShelf \ (OnShelf \ OnShelf') = OnShelf'
  BY <1>1
<1> QED
  BY <1>1, <1>2, <1>3, <1>4, ShelfRows DEF Shop!Remove

\* The shelf as a function of the rows found, now and after a step.
LEMMA ShelfNow == Shelf = [r \in OnShelf |-> Refs(r)]
  BY DEF Shelf, OnShelf, Refs
LEMMA ShelfIs == Shelf' = [r \in OnShelf' |-> Refs(r)']
  BY DEF Shelf, OnShelf, Refs

\* A step in which nothing new is found, and one in which one file is.
LEMMA SameShelf ==
  ASSUME OnShelf' = OnShelf, \A r \in OnShelf : Refs(r)' = Refs(r)
  PROVE  Shop!Turnover
  BY ShelfNow, ShelfIs DEF Shop!Turnover

LEMMA NewOnShelf ==
  ASSUME NEW n, n \notin OnShelf, NEW bytes \in Whole, Refs(n)' = bytes, NEW gone,
         OnShelf' = (OnShelf \ gone) \cup {n},
         \A r \in OnShelf' : r # n => Refs(r)' = Refs(r)
  PROVE  /\ n \in DOMAIN Shelf' /\ n \notin DOMAIN Shelf
         /\ Shop!Shelved(n, bytes, gone)
<1>1. DOMAIN Shelf' = OnShelf' /\ DOMAIN Shelf = OnShelf
  BY ShelfRows, ShelfIs
<1>2. Shelf' = [r \in (DOMAIN Shelf \ gone) \cup {n} |-> IF r = n THEN bytes ELSE Shelf[r]]
  BY <1>1, ShelfIs, ShelfRows
<1> QED
  BY <1>1, <1>2 DEF Shop!Shelved

\* A step of the library, but for what its readers and its uploads are promised.
ShelfMoves ==
  \/ \E f \in DOMAIN Shelf', bytes \in Whole :
       Shop!Store(f, bytes) \/ \E g \in DOMAIN Shelf : Shop!Replace(f, bytes, g)
  \/ \E gone \in SUBSET DOMAIN Shelf : Shop!Remove(gone)
  \/ Shop!Turnover

\* A new row is found once it has messages: a copy at once, a placeholder not.
LEMMA InsertShelf ==
  ASSUME IInv, FilesWhole, NEW new \in Row, Insert(new), UNCHANGED purge,
         \/ new.head = {} /\ new.parts = {}
         \/ \E s \in Rows : new.head = file[s].head /\ new.parts = file[s].parts
  PROVE  ShelfMoves
<1> SUFFICES ASSUME NEW n, n = nextId PROVE ShelfMoves
  OBVIOUS
<1>1. /\ n \notin Rows /\ Rows' = Rows \cup {n}
      /\ \A r \in Rows : file'[r] = file[r]
      /\ file'[n] = new
      /\ Doomed' = Doomed
  BY DEF Insert, IInv, TypeOK, RowId, Rows, Doomed
<1>2. \A r \in Rows : Refs(r)' = Refs(r)
  BY <1>1 DEF Refs
<1>3. CASE n \notin OnShelf'
  <2>1. OnShelf' = OnShelf
    BY <1>1, <1>3 DEF OnShelf
  <2>2. OnShelf \subseteq Rows
    BY DEF OnShelf
  <2> QED
    BY <1>2, <2>1, <2>2, SameShelf DEF ShelfMoves
<1>4. CASE n \in OnShelf'
  <2>1. PICK s \in Rows : new.head = file[s].head /\ new.parts = file[s].parts
    BY <1>1, <1>4 DEF OnShelf
  <2>2. Refs(s) \in Whole /\ Refs(n)' = Refs(s)
    BY <1>1, <1>4, <2>1 DEF FilesWhole, OnShelf, Refs
  <2>3. OnShelf' = OnShelf \cup {n} /\ n \notin OnShelf /\ OnShelf \subseteq Rows
    BY <1>1, <1>4 DEF OnShelf
  <2>4. OnShelf' = (OnShelf \ {}) \cup {n}
    BY <2>3
  <2>5. \A r \in OnShelf' : r # n => Refs(r)' = Refs(r)
    BY <1>2, <2>3
  <2>6. /\ n \in DOMAIN Shelf' /\ n \notin DOMAIN Shelf
        /\ Shop!Shelved(n, Refs(n)', {})
    BY <2>2, <2>3, <2>4, <2>5, NewOnShelf
  <2> QED
    BY <2>2, <2>6 DEF Shop!Store, ShelfMoves
<1> QED
  BY <1>3, <1>4

\* The file of an upload appears whole, alone or in place of the one it overwrites.
LEMMA FinalizeShelf ==
  ASSUME IInv, NEW u \in Uploads, Finalize(u)
  PROVE  ShelfMoves
<1> SUFFICES ASSUME NEW n, n = row[u], NEW o, o = old[u] PROVE ShelfMoves
  OBVIOUS
<1>1. /\ Rows' = Rows \/ Rows' = Rows \ {o}
      /\ \A r \in Rows' : r # n => r \in Rows /\ file'[r] = file[r] /\ Refs(r)' = Refs(r)
      /\ n \in Rows' => file'[n].head = {} \/ Refs(n)' = Content(u)
  <2>1. row' = row
    BY DEF Finalize
  <2> QED
    BY <2>1, FinalizedFiles DEF Refs
<1>2. Doomed' = Doomed
  BY DEF Finalize, Doomed
<1>3. n \notin OnShelf
  <2>1. n \in Rows => Refs(n) = {}
    BY DEF IInv, PlaceholderEmpty, Finalize, ReadyToFinalize
  <2> QED
    BY <2>1 DEF OnShelf, Refs
<1>4. OnShelf' \ {n} = OnShelf \/ OnShelf' \ {n} = OnShelf \ {o}
  BY <1>1, <1>2, <1>3 DEF OnShelf
<1>5. \A r \in OnShelf' : r # n => Refs(r)' = Refs(r)
  BY <1>1 DEF OnShelf
<1>6. DOMAIN Shelf = OnShelf
  BY ShelfRows
<1>7. CASE n \in OnShelf'
  <2>1. Content(u) \in Whole
    BY DEF Whole
  <2>2. Refs(n)' = Content(u)
    BY <1>1, <1>7 DEF OnShelf
  <2>3. CASE o \notin OnShelf \/ OnShelf' \ {n} = OnShelf
    <3>1. OnShelf' = (OnShelf \ {}) \cup {n}
      BY <1>4, <1>7, <2>3
    <3>2. /\ n \in DOMAIN Shelf' /\ n \notin DOMAIN Shelf
          /\ Shop!Shelved(n, Content(u), {})
      BY <1>3, <1>5, <2>1, <2>2, <3>1, NewOnShelf
    <3> QED
      BY <2>1, <3>2 DEF Shop!Store, ShelfMoves
  <2>4. CASE o \in OnShelf /\ OnShelf' \ {n} = OnShelf \ {o}
    <3>1. OnShelf' = (OnShelf \ {o}) \cup {n}
      BY <1>7, <2>4
    <3>2. /\ n \in DOMAIN Shelf' /\ n \notin DOMAIN Shelf
          /\ Shop!Shelved(n, Content(u), {o})
      BY <1>3, <1>5, <2>1, <2>2, <3>1, NewOnShelf
    <3>3. Shop!Replace(n, Content(u), o)
      BY <3>2 DEF Shop!Replace
    <3> QED
      BY <1>6, <2>1, <2>4, <3>2, <3>3 DEF ShelfMoves
  <2> QED
    BY <1>4, <2>3, <2>4
<1>8. CASE n \notin OnShelf'
  <2>1. OnShelf' \subseteq OnShelf
    BY <1>4, <1>8
  <2>2. OnShelf' = DOMAIN Shelf \ (OnShelf \ OnShelf')
    BY <1>6, <2>1
  <2>3. Shelf' = [r \in DOMAIN Shelf \ (OnShelf \ OnShelf') |-> Shelf[r]]
    BY <1>5, <1>8, <2>1, <2>2, ShelfIs, ShelfRows
  <2>4. Shop!Remove(OnShelf \ OnShelf')
    BY <2>3 DEF Shop!Remove
  <2> QED
    BY <1>6, <2>4 DEF ShelfMoves
<1> QED
  BY <1>7, <1>8

LEMMA ShopStep ==
  ASSUME IInv, PurgeHonest, FilesWhole, NoDangling', [Next]_vars, ~Exempt'
  PROVE  Shop!Next
<1>1. Shop!Readable'
  <2>1. \A r \in OnShelf' : Refs(r)' \subseteq Media'
    BY DEF NoDangling, OnShelf, Media
  <2>2. DOMAIN Shelf' = OnShelf' /\ \A r \in OnShelf' : Shelf'[r] = Refs(r)'
    BY ShelfIs
  <2> QED
    BY <2>1, <2>2 DEF Shop!Readable
<1>2. ShelfMoves
  <2>1. CASE KeepsRefs
    BY <2>1, ShelfShrinks DEF ShelfMoves
  <2>2. ASSUME NEW u \in Uploads, InsertPlaceholder(u)
        PROVE  ShelfMoves
    <3> DEFINE new == NewRow(Dir(u), Base(u), pick[u], {}, {})
    <3>1. new \in Row /\ new.head = {} /\ new.parts = {}
      BY ConstantsOK DEF NewRow, Row, IInv, TypeOK, Dir, Base
    <3>2. Insert(new) /\ UNCHANGED purge
      BY <2>2 DEF InsertPlaceholder
    <3> HIDE DEF new
    <3> QED
      BY <3>1, <3>2, InsertShelf
  <2>3. ASSUME NEW s \in Rows, NEW d \in Dirs, PasteCopy(s, d)
        PROVE  ShelfMoves
    <3> DEFINE new == NewRow(d, file[s].base, UniqueSuffix(d, file[s].base, 0),
                             file[s].head, file[s].parts)
    <3>1. new \in Row /\ new.head = file[s].head /\ new.parts = file[s].parts
      <4>1. UniqueSuffix(d, file[s].base, 0) \in Nat
        BY <2>3, UniqueSuffixFree, ConstantsOK DEF PasteCopy, FreeSuffixes
      <4>2. file[s] \in Row
        BY DEF IInv, TypeOK
      <4> QED
        BY <4>1, <4>2 DEF NewRow, Row
    <3>2. Insert(new) /\ UNCHANGED purge
      BY <2>3 DEF PasteCopy, Op
    <3> HIDE DEF new
    <3> QED
      BY <3>1, <3>2, InsertShelf
  <2>4. ASSUME NEW p \in Purges, PurgeCompute(p) PROVE ShelfMoves
    BY <2>1, <2>4, SameTables DEF PurgeCompute, tables
  <2> QED
    BY <2>1, <2>2, <2>3, <2>4, FinalizeShelf, StepKinds DEF Quiet
<1> QED
  BY <1>1, <1>2, WholeSame DEF ShelfMoves, Shop!Next

\* The store is the library of Library for every reader: whatever uploads, overwrites,
\* purges, copies, failures and restarts interleave, until one of the three cases of
\* Exempt has happened, files appear whole in one step, do not change and can be read.
THEOREM StoreKeepsLibrary == Spec => KeepsLibrary
<1>1. Init => Shop!Init
  <2> SUFFICES ASSUME Init PROVE Shop!Init
    OBVIOUS
  <2>1. OnShelf = {} /\ Media = {}
    BY DEF Init, OnShelf, Rows, Media
  <2> QED
    BY <2>1, ShelfNow DEF Shop!Init
<1>2. DInv /\ DInv' /\ FilesWhole /\ [Next]_vars =>
        [Exempt' \/ Shop!Next]_(Shop!libraryVars)
  BY ShopStep DEF DInv
<1> QED
  BY <1>1, <1>2, AlwaysD, FilesAreWhole, PTL DEF Spec, KeepsLibrary

\* Only what the environment is given is used or fails.
WithinMeans == used \subseteq Ops /\ faults \subseteq Faults

LEMMA MeansStep == ASSUME WithinMeans, [Next]_vars PROVE WithinMeans'
  BY DEF WithinMeans, Next, vars, bounds, Begin, UploadStep, LockAndPick, InsertPlaceholder,
         InsertRefused, SendPart, UploadFails, Finalize, FinalizeRefused, OpenFails, Fault,
         FinalizeFails, TelegramDeletes, TelegramRefuses, UserOp, PasteCopy, PasteMove,
         Rename, Trash, Restore, Op, PurgeStep, PurgeSelect, PurgeCompute, PurgeIssue,
         PurgeRows, PurgeTelegram, Crash

\* An environment in which none of the three cases of Exempt can arise.
Spared ==
  /\ "copy" \notin Ops \/ Ops \cap PurgeKinds = {}
  /\ "empty" \notin Ops \/ "crash" \notin Faults
  /\ "db" \notin Faults \/ \A j \in Jobs : ~j.overwrite

\* There the store implements Library outright.
THEOREM StoreIsLibrary == ASSUME Spared PROVE Spec => Shop!Spec
<1>1. Init => WithinMeans
  BY DEF Init, WithinMeans
<1>2. WithinMeans /\ [Next]_vars => WithinMeans'
  BY MeansStep
<1>3. IInv /\ WithinMeans => ~Exempt
  BY DEF WithinMeans, Spared, Exempt, CopiedWhilePurging, PlainUploads, IInv, TypeOK
<1>4. ~Exempt' /\ [Exempt' \/ Shop!Next]_(Shop!libraryVars) => [Shop!Next]_(Shop!libraryVars)
  OBVIOUS
<1> QED
  BY <1>1, <1>2, <1>3, <1>4, Invariant, StoreKeepsLibrary, PTL DEF Spec, KeepsLibrary, Shop!Spec
=============================================================================
