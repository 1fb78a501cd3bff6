---------------------------- MODULE BrowserProofs ----------------------------
(***************************************************************************)
(* Proofs about Browser, for every set of items, page size and number of   *)
(* user actions: the types; the rows belong to the folder the path names;  *)
(* when nothing is under way the list is the server's, the page exists     *)
(* and what is selected is on it.                                          *)
(***************************************************************************)
EXTENDS Browser, FunctionTheorems, FiniteSetTheorems, TLAPS

-----------------------------------------------------------------------------
(* Types *)

ShareOps == {"share", "unshare"}
ReqOps == {"delete", "batch", "rename", "folder", "purge", "empty", "restore", "newdir",
           "move", "copy"} \cup ShareOps
FormOps == {"delete", "batch", "rename", "folder", "share", "purge", "empty", "none"}
ItemSet == [at: Paths \cup {"none"}, name: {"old", "new"}, trashed: BOOLEAN,
            share: {"none", "link"}]
Disk == [Items -> ItemSet]
RowSet == [id: Items \cup {Temp}, name: {"old", "new"}, share: Shares]
ServerRows == [id: Items, name: {"old", "new"}, share: {"none", "link"}]
ReqSet == [op: ReqOps, ids: SUBSET Items, dest: Paths, pc: {"sent", "ok", "refused"},
           live: BOOLEAN]

\* One row for an id; the row of a folder that is being created is always the same.
OneEach(rows) == \A f, g \in rows : f.id = g.id => f = g
TempRow == [id |-> Temp, name |-> "new", share |-> "none"]

FilesOK == files \subseteq RowSet /\ OneEach(files) /\ \A f \in files : f.id = Temp => f = TempRow
ViewOK ==
  /\ path \in Paths /\ origin \in Paths /\ selected \subseteq Items
  /\ timer \in BOOLEAN /\ missed \in BOOLEAN
PageOK == page \in 1..(Cardinality(Items) + 1)
ListOK ==
  /\ list \in [pc: {"idle", "asked", "answered", "rest"}, silent: BOOLEAN,
               rows: SUBSET ServerRows]
  /\ OneEach(list.rows)
TrashOK == trash \in [ids: SUBSET Items, pc: {"idle", "asked", "answered", "empty"},
                      answer: SUBSET Items]
ClipOK ==
  /\ clip \in [action: {"none", "move", "copy"}, ids: SUBSET Items]
  /\ clip.ids # {} => clip.action # "none"
PickerOK == picker \in [show: BOOLEAN, path: Paths, folders: SUBSET Items, asked: SUBSET Paths]
FormOK ==
  /\ form \in [op: FormOps, ids: SUBSET Items]
  /\ form.op = "none" => form = NoForm
  /\ form.op = "share" => form.ids = {} \/ \E i \in Items : form.ids = {i}
ReqOK(r) == r \in ReqSet /\ (r.op \in ShareOps => \E i \in Items : r.ids = {i})
ReqsOK == \A r \in reqs : ReqOK(r)

Typed ==
  /\ disk \in Disk /\ FilesOK /\ ViewOK /\ PageOK /\ ListOK
  /\ TrashOK /\ ClipOK /\ PickerOK /\ FormOK /\ ReqsOK

-----------------------------------------------------------------------------
(* The operators the actions are built from *)

LEMMA ListingRows ==
  ASSUME disk \in Disk, NEW p
  PROVE  Listing(p) \subseteq ServerRows /\ OneEach(Listing(p))
<1>1. \A i \in Items : Row(i) \in ServerRows
  BY DEF Row, Disk, ItemSet, ServerRows
<1>2. \A f \in Listing(p) : \E i \in Items : f = Row(i) /\ In(i, p)
  BY DEF Listing
<1>3. \A i \in Items : Row(i).id = i
  BY DEF Row
<1> QED
  BY <1>1, <1>2, <1>3 DEF OneEach

\* Rows with one row for an id are as many as their ids.
LEMMA RowCount ==
  ASSUME NEW rows, rows \subseteq RowSet, OneEach(rows)
  PROVE  /\ Cardinality(rows) \in Nat
         /\ Cardinality(rows) <= Cardinality(Items) + 1
         /\ Cardinality(rows) = Cardinality(Ids(rows))
<1>1. IsFiniteSet(Items) /\ Temp \notin Items
  BY BrowserAssumption
<1>2. IsFiniteSet(Items \cup {Temp}) /\ Cardinality(Items \cup {Temp}) = Cardinality(Items) + 1
  BY <1>1, FS_AddElement
<1>3. Ids(rows) \subseteq Items \cup {Temp}
  BY DEF Ids, RowSet
<1>4. IsFiniteSet(Ids(rows)) /\ Cardinality(Ids(rows)) <= Cardinality(Items) + 1
  BY <1>2, <1>3, FS_Subset
<1> DEFINE f == [r \in rows |-> r.id]
<1>5. f \in Bijection(rows, Ids(rows))
  <2>1. f \in [rows -> Ids(rows)] /\ \A r \in rows : f[r] = r.id
    BY DEF Ids
  <2>2. \A r, q \in rows : f[r] = f[q] => r = q
    BY <2>1 DEF OneEach
  <2>3. \A i \in Ids(rows) : \E r \in rows : f[r] = i
    BY <2>1 DEF Ids
  <2> QED
    BY <2>1, <2>2, <2>3 DEF Bijection, Injection, IsInjective, Surjection
<1> HIDE DEF f
<1>6. ExistsBijection(rows, Ids(rows))
  BY <1>5 DEF ExistsBijection
<1>7. IsFiniteSet(rows) /\ Cardinality(rows) = Cardinality(Ids(rows))
  <2>1. ExistsBijection(Ids(rows), rows)
    BY <1>6, Fun_ExistsBijSymmetric
  <2> QED
    BY ONLY <1>4, <2>1, FS_Bijection
<1>8. Cardinality(rows) \in Nat
  BY <1>7, FS_CardinalityType
<1> QED
  BY <1>4, <1>7, <1>8

LEMMA CeilingBounds ==
  ASSUME NEW n \in Nat, n # 0
  PROVE  (n + PerPage - 1) \div PerPage \in 1..n
<1>1. PerPage \in Nat \ {0}
  BY BrowserAssumption
<1> QED
  BY <1>1

LEMMA PageBounds ==
  ASSUME NEW rows, rows \subseteq RowSet, OneEach(rows)
  PROVE  TotalPages(rows) \in 1..(Cardinality(Items) + 1)
<1>1. Cardinality(rows) \in Nat /\ Cardinality(rows) <= Cardinality(Items) + 1
  BY RowCount
<1>2. Cardinality(Items) \in Nat
  BY BrowserAssumption, FS_CardinalityType
<1>3. CASE Cardinality(rows) = 0
  BY <1>2, <1>3 DEF TotalPages
<1>4. CASE Cardinality(rows) # 0
  <2>1. TotalPages(rows) \in 1..Cardinality(rows)
    BY <1>1, <1>4, CeilingBounds DEF TotalPages
  <2> QED
    BY <1>1, <1>2, <2>1
<1> QED
  BY <1>3, <1>4

-----------------------------------------------------------------------------
(* Types: the steps *)

LEMMA TypedInit == Init => Typed
<1> SUFFICES ASSUME Init PROVE Typed
  OBVIOUS
<1>1. Dir \in Items /\ IsFiniteSet(Items)
  BY BrowserAssumption
<1>2. disk \in Disk
  <2>1. CASE disk = [i \in Items |-> [at |-> IF i = Dir THEN "root" ELSE "none", name |-> "old",
                                   trashed |-> FALSE, share |-> "none"]]
    BY <2>1 DEF Disk, ItemSet, Paths
  <2>2. CASE \E p \in Paths, i \in Items \ {Dir}, t \in BOOLEAN :
               disk = [j \in Items |->
                 [at |-> CASE j = Dir -> "root" [] j = i -> p [] OTHER -> "none",
                  name |-> "old", trashed |-> j = i /\ t, share |-> "none"]]
    <3>1. PICK p \in Paths, i \in Items \ {Dir}, t \in BOOLEAN :
               disk = [j \in Items |->
                 [at |-> CASE j = Dir -> "root" [] j = i -> p [] OTHER -> "none",
                  name |-> "old", trashed |-> j = i /\ t, share |-> "none"]]
      BY <2>2
    <3>2. \A j \in Items : (CASE j = Dir -> "root" [] j = i -> p [] OTHER -> "none")
                           \in Paths \cup {"none"}
      BY DEF Paths
    <3>3. \A j \in Items : (j = i /\ t) \in BOOLEAN
      OBVIOUS
    <3> QED
      BY <3>1, <3>2, <3>3 DEF Disk, ItemSet
  <2> QED
    BY <2>1, <2>2 DEF Init
<1>3. Listing("root") \subseteq ServerRows /\ OneEach(Listing("root"))
  BY <1>2, ListingRows
<1>4. FilesOK
  BY <1>3, BrowserAssumption DEF Init, FilesOK, ServerRows, RowSet, Shares
<1>5. ViewOK
  BY DEF Init, ViewOK, Paths
<1>6. PageOK
  BY <1>1, FS_CardinalityType DEF Init, PageOK
<1>7. ListOK
  BY DEF Init, ListOK, NoAsk, OneEach
<1>8. TrashOK /\ ClipOK /\ FormOK /\ ReqsOK
  BY DEF Init, TrashOK, Trashed, ClipOK, FormOK, NoForm, FormOps, ReqsOK
<1>9. PickerOK
  BY DEF Init, PickerOK, Paths
<1> QED
  BY <1>2, <1>4, <1>5, <1>6, <1>7, <1>8, <1>9 DEF Typed

LEMMA SendOK ==
  ASSUME ReqsOK, NEW r, Send(r), ReqOK(r)
  PROVE  ReqsOK'
BY DEF ReqsOK, ReqOK, Send

LEMMA NewReqOK ==
  ASSUME path \in Paths, NEW op \in ReqOps, NEW ids \in SUBSET Items,
         op \in ShareOps => \E i \in Items : ids = {i}
  PROVE  ReqOK(Req(op, ids))
BY DEF Req, ReqOK, ReqSet

LEMMA DetachedOK ==
  ASSUME ReqsOK, reqs' = Detached
  PROVE  ReqsOK'
<1> SUFFICES ASSUME NEW r \in reqs PROVE ReqOK([r EXCEPT !.live = FALSE])
  BY DEF ReqsOK, Detached, ReqOK
<1>1. ReqOK(r)
  BY DEF ReqsOK
<1> QED
  BY <1>1 DEF ReqOK, ReqSet

\* The steps of the loads leave dialogs, requests and the server's items as they are.
LEMMA TypedLoads ==
  ASSUME Typed, TimerFires \/ ListAnswered \/ ListRested \/ TrashAnswered \/ TrashApplied
  PROVE  Typed'
<1> USE DEF Typed
<1>1. UNCHANGED <<disk, files, selected, page, clip, picker, form, reqs, path, origin>>
  BY DEF TimerFires, ListAnswered, ListRested, TrashAnswered, TrashApplied, view, others
<1>2. FilesOK' /\ PageOK' /\ ClipOK' /\ PickerOK' /\ FormOK' /\ ReqsOK' /\ disk' \in Disk
  BY <1>1 DEF FilesOK, PageOK, ClipOK, PickerOK, FormOK, ReqsOK
<1>3. ViewOK'
  BY <1>1 DEF ViewOK, TimerFires, ListAnswered, ListRested, TrashAnswered, TrashApplied, Busy
<1>4. ListOK'
  <2>1. CASE TimerFires
    BY <2>1 DEF TimerFires, Ask, ListOK, OneEach
  <2>2. CASE ListAnswered
    <3>1. Listing(path) \subseteq ServerRows /\ OneEach(Listing(path))
      BY ListingRows
    <3> QED
      BY <2>2, <3>1 DEF ListAnswered, ListOK
  <2>3. CASE ListRested
    BY <2>3 DEF ListRested, ListOK, NoAsk, OneEach
  <2>4. CASE TrashAnswered \/ TrashApplied
    BY <2>4 DEF TrashAnswered, TrashApplied, view, ListOK
  <2> QED
    BY <2>1, <2>2, <2>3, <2>4
<1>5. TrashOK'
  <2>1. CASE TimerFires \/ ListAnswered \/ ListRested
    BY <2>1 DEF TimerFires, ListAnswered, ListRested, others, TrashOK
  <2>2. CASE TrashAnswered
    BY <2>2 DEF TrashAnswered, TrashOK, Trashed
  <2>3. CASE TrashApplied
    BY <2>3 DEF TrashApplied, TrashOK
  <2> QED
    BY <2>1, <2>2, <2>3
<1> QED
  BY <1>2, <1>3, <1>4, <1>5

LEMMA TypedApplied ==
  ASSUME Typed, ListApplied \/ ListFails
  PROVE  Typed'
<1> USE DEF Typed
<1>1. UNCHANGED <<disk, clip, picker, trash, path, timer>>
  BY DEF ListApplied, ListFails, others
<1>2. ClipOK' /\ PickerOK' /\ TrashOK' /\ disk' \in Disk
  BY <1>1 DEF ClipOK, PickerOK, TrashOK
<1>3. files' \in {list.rows, {}, files} /\ list.rows \subseteq ServerRows /\ OneEach(list.rows)
  BY DEF ListApplied, ListFails, ListOK
<1>4. FilesOK'
  BY <1>3, BrowserAssumption DEF FilesOK, OneEach, ServerRows, RowSet, Shares
<1>5. ViewOK'
  BY DEF ViewOK, ListApplied, ListFails, StillListed
<1>6. PageOK'
  <2>1. list.rows \subseteq RowSet /\ OneEach(list.rows)
    BY <1>3 DEF ServerRows, RowSet, Shares
  <2>2. TotalPages(list.rows) \in 1..(Cardinality(Items) + 1)
    BY <2>1, PageBounds
  <2>3. page' \in {page, TotalPages(list.rows), 1}
    BY DEF ListApplied, ListFails, Clamp
  <2> QED
    BY <2>2, <2>3, BrowserAssumption, FS_CardinalityType DEF PageOK
<1>7. ListOK'
  BY DEF ListApplied, ListFails, ListOK, OneEach
<1>8. FormOK'
  BY DEF ListApplied, ListFails, FormOK, FormOps
<1>9. ReqsOK'
  BY DetachedOK DEF ListApplied, ListFails, ReqsOK
<1> QED
  BY <1>2, <1>4, <1>5, <1>6, <1>7, <1>8, <1>9

\* What the user does outside a dialog and the picker.
LEMMA TypedUser ==
  ASSUME Typed, \/ Dismiss \/ AskBatch \/ AskFolder \/ AskEmpty \/ FetchTrash \/ TurnPage
                \/ \E p \in Paths : Navigate(p)
                \/ \E r \in files : ToggleShare(r)
                \/ \E i \in Items : AskDelete(i) \/ AskName(i) \/ AskPurge(i) \/ Restore(i)
                                    \/ Select(i)
  PROVE  Typed'
<1> USE DEF Typed
<1>1. ASSUME NEW op \in FormOps \ {"none"}, NEW ids \in SUBSET Items, Open(op, ids),
             op = "share" => \E i \in Items : ids = {i}
      PROVE  Typed'
  <2>1. UNCHANGED <<disk, files, selected, page, timer, trash, clip, picker, reqs, path, origin,
                    list, missed>>
    BY <1>1 DEF Open, view, others
  <2>2. FormOK'
    BY <1>1 DEF Open, FormOK
  <2> QED
    BY <2>1, <2>2 DEF FilesOK, ViewOK, PageOK, ListOK, TrashOK, ClipOK, PickerOK, ReqsOK
<1>2. ASSUME NEW r, ReqOK(r), Send(r),
             UNCHANGED <<disk, view, files, selected, timer, others, form, missed>>
      PROVE  Typed'
  <2>1. ReqsOK'
    BY <1>2, SendOK
  <2> QED
    BY <1>2, <2>1 DEF FilesOK, ViewOK, PageOK, ListOK, TrashOK, ClipOK, PickerOK, FormOK,
                      view, others
<1>3. CASE AskBatch \/ AskFolder \/ AskEmpty
  BY <1>1, <1>3 DEF AskBatch, AskFolder, AskEmpty, FormOps
<1>4. CASE \E i \in Items : AskDelete(i) \/ AskName(i) \/ AskPurge(i)
  BY <1>1, <1>4 DEF AskDelete, AskName, AskPurge, FormOps
<1>5. CASE \E i \in Items : Restore(i)
  <2>1. PICK i \in Items : Restore(i)
    BY <1>5
  <2>2. ReqOK(Req("restore", {i}))
    BY NewReqOK DEF ViewOK, ReqOps, ShareOps
  <2> QED
    BY <1>2, <2>1, <2>2 DEF Restore
<1>6. CASE \E r \in files : ToggleShare(r)
  <2>1. PICK r \in files : ToggleShare(r)
    BY <1>6
  <2>2. r.id \in Items
    BY <2>1 DEF ToggleShare, FilesOK, RowSet
  <2>3. ReqOK(Req("unshare", {r.id}))
    BY <2>2, NewReqOK DEF ViewOK, ReqOps, ShareOps
  <2>4. CASE Open("share", {r.id})
    BY <1>1, <2>2, <2>4 DEF FormOps
  <2>5. CASE ~Open("share", {r.id})
    BY <1>2, <2>1, <2>3, <2>5 DEF ToggleShare
  <2> QED
    BY <2>4, <2>5
<1>7. CASE Dismiss
  <2>1. FormOK'
    BY <1>7 DEF Dismiss, FormOK, NoForm, FormOps
  <2> QED
    BY <1>7, <2>1 DEF Dismiss, view, others, FilesOK, ViewOK, PageOK, ListOK, TrashOK, ClipOK,
                      PickerOK, ReqsOK
<1>8. CASE FetchTrash
  <2>1. TrashOK'
    BY <1>8 DEF FetchTrash, TrashAsk, TrashOK
  <2> QED
    BY <1>8, <2>1 DEF FetchTrash, view, FilesOK, ViewOK, PageOK, ListOK, FormOK, ClipOK,
                      PickerOK, ReqsOK
<1>9. CASE TurnPage
  <2>1. TotalPages(files) \in 1..(Cardinality(Items) + 1)
    BY PageBounds DEF FilesOK
  <2>2. PageOK'
    BY <1>9, <2>1, BrowserAssumption, FS_CardinalityType DEF TurnPage, PageOK
  <2> QED
    BY <1>9, <2>2 DEF TurnPage, others, FilesOK, ViewOK, TrashOK, ListOK, FormOK, ClipOK,
                      PickerOK, ReqsOK
<1>10. CASE \E p \in Paths : Navigate(p)
  <2>1. PICK p \in Paths : Navigate(p)
    BY <1>10
  <2>2. ViewOK' /\ ListOK'
    BY <2>1 DEF Navigate, ViewOK, ListOK, Ask, OneEach
  <2> QED
    BY <2>1, <2>2 DEF Navigate, others, FilesOK, PageOK, TrashOK, FormOK, ClipOK, PickerOK, ReqsOK
<1>11. CASE \E i \in Items : Select(i)
  <2>1. ViewOK'
    BY <1>11 DEF Select, view, ViewOK
  <2> QED
    BY <1>11, <2>1 DEF Select, view, others, FilesOK, PageOK, ListOK, TrashOK, FormOK, ClipOK,
                       PickerOK, ReqsOK
<1> QED
  BY <1>3, <1>4, <1>5, <1>6, <1>7, <1>8, <1>9, <1>10, <1>11

\* Rows that are removed, or changed in place, stay one for each id.
LEMMA FewerRows ==
  ASSUME FilesOK, files' \subseteq files
  PROVE  FilesOK'
BY DEF FilesOK, OneEach

Relabelled ==
  /\ FilesOK' /\ Ids(files') = Ids(files)
  /\ \A g \in files' : \E f \in files : g.id = f.id /\ g.name = f.name

LEMMA SharedRows ==
  ASSUME FilesOK, NEW ids \in SUBSET Items, NEW s \in Shares,
         files' = {IF r.id \in ids THEN [r EXCEPT !.share = s] ELSE r : r \in files}
  PROVE  Relabelled
<1> DEFINE new(r) == IF r.id \in ids THEN [r EXCEPT !.share = s] ELSE r
<1>1. \A r \in files : new(r) \in RowSet /\ new(r).id = r.id /\ new(r).name = r.name
  BY DEF FilesOK, RowSet
<1>2. \A r \in files : r.id = Temp => new(r) = TempRow
  BY BrowserAssumption DEF FilesOK
<1>3. \A g \in files' : \E r \in files : g = new(r)
  OBVIOUS
<1>4. \A r \in files : new(r) \in files'
  OBVIOUS
<1> HIDE DEF new
<1>5. FilesOK'
  BY <1>1, <1>2, <1>3 DEF FilesOK, OneEach
<1>6. \A i \in Ids(files) : i \in Ids(files')
  BY <1>1, <1>4 DEF Ids
<1>7. \A i \in Ids(files') : i \in Ids(files)
  BY <1>1, <1>3 DEF Ids
<1> QED
  BY <1>1, <1>3, <1>5, <1>6, <1>7 DEF Relabelled

LEMMA RenamedRows ==
  ASSUME FilesOK, NEW ids \in SUBSET Items,
         files' = {IF r.id \in ids THEN [r EXCEPT !.name = "new"] ELSE r : r \in files}
  PROVE  FilesOK'
<1> DEFINE new(r) == IF r.id \in ids THEN [r EXCEPT !.name = "new"] ELSE r
<1>1. \A r \in files : new(r) \in RowSet /\ new(r).id = r.id
  BY DEF FilesOK, RowSet
<1>2. \A r \in files : r.id = Temp => new(r) = TempRow
  BY BrowserAssumption DEF FilesOK
<1>3. \A g \in files' : \E r \in files : g = new(r)
  OBVIOUS
<1> HIDE DEF new
<1> QED
  BY <1>1, <1>2, <1>3 DEF FilesOK, OneEach

LEMMA TypedConfirm ==
  ASSUME Typed, Confirm
  PROVE  Typed'
<1> USE DEF Typed
<1>1. UNCHANGED <<disk, path, origin, page, list, timer, clip, picker, missed>>
  BY DEF Confirm, view
<1>2. disk' \in Disk /\ PageOK' /\ ListOK' /\ ClipOK' /\ PickerOK'
  BY <1>1 DEF PageOK, ListOK, ClipOK, PickerOK
<1>3. FormOK'
  BY DEF Confirm, FormOK, NoForm, FormOps
<1>4. ViewOK'
  BY <1>1 DEF Confirm, ViewOK
<1>5. TrashOK'
  BY DEF Confirm, TrashOK
<1>6. form.ids \in SUBSET Items /\ selected \in SUBSET Items /\ path \in Paths /\ Dir \in Items
  BY BrowserAssumption DEF FormOK, ViewOK
<1>7. FilesOK'
  <2>1. CASE form.op \in {"delete", "batch", "purge", "empty"}
    <3>1. files' \subseteq files
      BY <2>1 DEF Confirm, Without
    <3> QED
      BY <3>1, FewerRows
  <2>2. CASE form.op = "rename"
    BY <1>6, <2>2, RenamedRows DEF Confirm
  <2>3. CASE form.op = "folder"
    <3>1. files' = files \cup {TempRow}
      BY <2>3 DEF Confirm, TempRow
    <3>2. TempRow \in RowSet /\ TempRow.id = Temp
      BY DEF TempRow, RowSet, Shares
    <3> QED
      BY <3>1, <3>2 DEF FilesOK, OneEach
  <2>4. CASE form.op = "share"
    <3>1. files' = {IF r.id \in form.ids THEN [r EXCEPT !.share = "loading"] ELSE r : r \in files}
      BY <2>4 DEF Confirm
    <3> QED
      BY <1>6, <3>1, SharedRows DEF Shares, Relabelled
  <2> QED
    BY <2>1, <2>2, <2>3, <2>4 DEF Confirm
<1>8. ReqsOK'
  <2>1. CASE form.op \in FormOps \ {"share"}
    <3>1. ReqOK(Req("delete", form.ids)) /\ ReqOK(Req("batch", selected))
          /\ ReqOK(Req("rename", form.ids)) /\ ReqOK(Req("folder", {}))
          /\ ReqOK(Req("purge", form.ids)) /\ ReqOK(Req("empty", {}))
      BY <1>6, NewReqOK DEF ReqOps, ShareOps
    <3> QED
      BY <2>1, <3>1, SendOK DEF Confirm
  <2>2. CASE form.op = "share"
    <3>1. form.ids # {} => ReqOK(Req("share", form.ids))
      BY <1>6, <2>2, NewReqOK DEF FormOK, ReqOps, ShareOps
    <3>2. ReqOK(Req("share", {Dir}))
      BY <1>6, NewReqOK DEF ReqOps, ShareOps
    <3>3. ReqOK([Req("share", {Dir}) EXCEPT !.live = FALSE])
      BY <3>2 DEF ReqOK, ReqSet
    <3> QED
      BY <2>2, <3>1, <3>3, SendOK DEF Confirm
  <2> QED
    BY <2>1, <2>2 DEF FormOK
<1> QED
  BY <1>2, <1>3, <1>4, <1>5, <1>7, <1>8

LEMMA TypedPicking ==
  ASSUME Typed, Picking
  PROVE  Typed'
<1> USE DEF Typed
<1>1. UNCHANGED <<disk, path, origin, page, list, trash, form, missed, timer>>
  BY DEF Picking, Take, PickerNavigate, PickerAnswered, PickerClosed, PickerFolder, Paste, view,
         others
<1>2. disk' \in Disk /\ PageOK' /\ ListOK' /\ TrashOK' /\ FormOK'
  BY <1>1 DEF PageOK, ListOK, TrashOK, FormOK
<1>3. Dir \in Items /\ path \in Paths
  BY BrowserAssumption DEF ViewOK
<1>4. CASE \E a \in {"move", "copy"}, ids \in SUBSET Items : Take(a, ids)
  <2>1. ClipOK'
    BY <1>4 DEF Take, ClipOK
  <2>2. PickerOK'
    <3>1. picker' = PickerAt(path)
      BY <1>4 DEF Take
    <3> QED
      BY <1>3, <3>1 DEF PickerAt, PickerOK
  <2>3. ViewOK'
    BY <1>1, <1>4 DEF Take, ViewOK
  <2> QED
    BY <1>2, <1>4, <2>1, <2>2, <2>3 DEF Take, FilesOK, ReqsOK
<1>5. CASE \E p \in Paths : PickerNavigate(p) \/ PickerAnswered(p)
  <2>1. PickerOK'
    <3>1. PICK p \in Paths : PickerNavigate(p) \/ PickerAnswered(p)
      BY <1>5
    <3>2. CASE PickerNavigate(p)
      BY <3>2 DEF PickerNavigate, PickerAt, PickerOK
    <3>3. CASE PickerAnswered(p)
      BY <1>3, <3>3 DEF PickerAnswered, PickerOK
    <3> QED
      BY <3>1, <3>2, <3>3
  <2> QED
    BY <1>1, <1>2, <1>5, <2>1 DEF PickerNavigate, PickerAnswered, ClipOK, ViewOK, FilesOK, ReqsOK
<1>6. CASE PickerClosed
  <2>1. PickerOK' /\ ClipOK'
    BY <1>6 DEF PickerClosed, PickerOK, ClipOK
  <2> QED
    BY <1>1, <1>2, <1>6, <2>1 DEF PickerClosed, ViewOK, FilesOK, ReqsOK
<1>7. CASE PickerFolder
  <2>1. ReqOK(Req("newdir", {}))
    BY <1>3, NewReqOK DEF ReqOps, ShareOps
  <2>2. ReqOK([Req("newdir", {}) EXCEPT !.dest = picker.path])
    BY <2>1 DEF ReqOK, ReqSet, PickerOK
  <2>3. ReqsOK'
    BY <1>7, <2>2, SendOK DEF PickerFolder
  <2> QED
    BY <1>1, <1>2, <1>7, <2>3 DEF PickerFolder, others, ViewOK, FilesOK, ClipOK, PickerOK
<1>8. CASE Paste
  <2>1. FilesOK'
    <3>1. files' \subseteq files
      BY <1>8 DEF Paste, Without
    <3> QED
      BY <3>1, FewerRows
  <2>2. ReqOK(Req(clip.action, clip.ids)) /\ clip.action \notin ShareOps
    <3>1. clip.action \in {"move", "copy"} /\ clip.ids \in SUBSET Items
      BY <1>8 DEF Paste, ClipOK
    <3>2. clip.action \in ReqOps /\ clip.action \notin ShareOps
      BY <3>1 DEF ReqOps, ShareOps
    <3> QED
      BY <1>3, <3>1, <3>2, NewReqOK
  <2>3. ReqOK([Req(clip.action, clip.ids) EXCEPT !.dest = picker.path])
    BY <2>2 DEF ReqOK, ReqSet, PickerOK
  <2>4. ReqsOK'
    BY <1>8, <2>3, SendOK DEF Paste
  <2> QED
    BY <1>1, <1>2, <1>8, <2>1, <2>4 DEF Paste, others, ViewOK, ClipOK, PickerOK
<1> QED
  BY <1>4, <1>5, <1>6, <1>7, <1>8 DEF Picking

LEMMA EffectOK ==
  ASSUME disk \in Disk, NEW r, ReqOK(r), Effect(r)
  PROVE  disk' \in Disk
<1>1. r.dest \in Paths /\ \A i \in Items : disk[i] \in ItemSet
  BY DEF ReqOK, ReqSet, Disk
<1>2. CASE r.op \in {"delete", "batch"}
  <2>1. disk' = [i \in Items |-> IF i \in Content(r.ids \cap Items) /\ disk[i].at # "none"
                                   THEN [disk[i] EXCEPT !.trashed = TRUE] ELSE disk[i]]
    BY <1>2 DEF Effect
  <2> QED
    BY <1>1, <2>1 DEF Disk, ItemSet
<1>3. CASE r.op = "rename"
  <2>1. disk' = [i \in Items |-> IF i \in r.ids THEN [disk[i] EXCEPT !.name = "new"] ELSE disk[i]]
    BY <1>3 DEF Effect
  <2> QED
    BY <1>1, <2>1 DEF Disk, ItemSet
<1>4. CASE r.op \in {"share", "unshare"}
  <2>1. PICK s \in {"none", "link"} :
          disk' = [i \in Items |-> IF i \in r.ids THEN [disk[i] EXCEPT !.share = s] ELSE disk[i]]
    BY <1>4 DEF Effect
  <2> QED
    BY <1>1, <2>1 DEF Disk, ItemSet
<1>5. CASE r.op \in {"folder", "newdir", "copy"}
  <2>1. PICK i \in Items : disk' = [disk EXCEPT ![i].at = r.dest]
    BY <1>5 DEF Effect
  <2> QED
    BY <1>1, <2>1 DEF Disk, ItemSet
<1>6. CASE r.op = "move"
  <2>1. disk' = [i \in Items |-> IF i \in r.ids /\ ~disk[i].trashed
                                   THEN [disk[i] EXCEPT !.at = r.dest] ELSE disk[i]]
    BY <1>6 DEF Effect
  <2> QED
    BY <1>1, <2>1 DEF Disk, ItemSet
<1>7. CASE r.op = "restore"
  <2>1. disk' = [i \in Items |-> IF i \in Content(r.ids)
                                   THEN [disk[i] EXCEPT !.trashed = FALSE] ELSE disk[i]]
    BY <1>7 DEF Effect
  <2> QED
    BY <1>1, <2>1 DEF Disk, ItemSet
<1>8. CASE r.op \in {"purge", "empty"}
  <2>1. disk' = [i \in Items |-> IF i \in Trashed /\ (r.op = "empty" \/ i \in Content(r.ids))
                                   THEN [disk[i] EXCEPT !.at = "none", !.trashed = FALSE]
                                   ELSE disk[i]]
    BY <1>8 DEF Effect
  <2> QED
    BY <1>1, <2>1 DEF Disk, ItemSet
<1> QED
  BY <1>2, <1>3, <1>4, <1>5, <1>6, <1>7, <1>8 DEF Effect

LEMMA TypedServe ==
  ASSUME Typed, NEW r \in reqs, Serve(r)
  PROVE  Typed'
<1> USE DEF Typed
<1>1. ReqOK(r)
  BY DEF ReqsOK
<1>2. disk' \in Disk
  BY <1>1, EffectOK DEF Serve
<1>3. ReqsOK'
  <2>1. \A pc \in {"ok", "refused"} : ReqOK([r EXCEPT !.pc = pc])
    BY <1>1 DEF ReqOK, ReqSet
  <2> QED
    BY <2>1 DEF Serve, Answer, ReqsOK
<1> QED
  BY <1>2, <1>3 DEF Serve, view, others, FilesOK, ViewOK, PageOK, ListOK, TrashOK, ClipOK,
                    PickerOK, FormOK

\* The answer to a request for a link, or its loss, changes rows in place or not at all.
LEMMA LinkedRows ==
  ASSUME FilesOK, NEW r, ReqOK(r), NEW s \in Shares, files' = Linked(r, s)
  PROVE  Relabelled
<1>1. r.ids \in SUBSET Items
  BY DEF ReqOK, ReqSet
<1>2. CASE r.live
  <2>1. files' = {IF f.id \in r.ids THEN [f EXCEPT !.share = s] ELSE f : f \in files}
    BY <1>2 DEF Linked
  <2> QED
    BY <1>1, <2>1, SharedRows
<1>3. CASE ~r.live
  BY <1>3 DEF Linked, FilesOK, Relabelled
<1> QED
  BY <1>2, <1>3

LEMMA AnswerRows ==
  ASSUME FilesOK, NEW r \in reqs, ReqOK(r), Answered(r) \/ Lost(r)
  PROVE  Relabelled
<1>1. CASE UNCHANGED files
  BY <1>1 DEF FilesOK, Relabelled
<1>2. CASE ~UNCHANGED files
  <2>1. PICK s \in Shares : files' = Linked(r, s)
    BY <1>2 DEF Answered, Lost, ShareAnswer, Shares
  <2> QED
    BY <2>1, LinkedRows
<1> QED
  BY <1>1, <1>2

LEMMA TypedAnswer ==
  ASSUME Typed, NEW r \in reqs, Answered(r) \/ Lost(r)
  PROVE  Typed'
<1> USE DEF Typed
<1>1. ReqOK(r)
  BY DEF ReqsOK
<1>2. UNCHANGED <<disk, path, origin, page, list, selected, form>>
  BY DEF Answered, Lost, view
<1>3. disk' \in Disk /\ PageOK' /\ ListOK' /\ FormOK'
  BY <1>2 DEF PageOK, ListOK, FormOK
<1>4. FilesOK'
  BY <1>1, AnswerRows DEF Relabelled
<1>5. ReqsOK'
  BY DEF Answered, Lost, ReqsOK
<1>6. ViewOK'
  BY <1>2 DEF ViewOK, Answered, Lost, Refresh, Keep, Unloaded
<1>7. TrashOK'
  <2>1. CASE Answered(r)
    BY <2>1 DEF TrashOK, Answered, TrashAsk
  <2>2. CASE Lost(r)
    BY <2>2 DEF TrashOK, Lost
  <2> QED
    BY <2>1, <2>2
<1>8. ClipOK'
  BY DEF ClipOK, Answered, Lost
<1>9. PickerOK'
  <2>1. picker' = picker \/ picker' = [picker EXCEPT !.show = FALSE]
        \/ picker' = [picker EXCEPT !.asked = @ \cup {picker.path}]
    BY DEF Answered, Lost
  <2> QED
    BY <2>1 DEF PickerOK
<1> QED
  BY <1>3, <1>4, <1>5, <1>6, <1>7, <1>8, <1>9

LEMMA TypedStep == Typed /\ [Next]_vars => Typed'
<1> SUFFICES ASSUME Typed, [Next]_vars PROVE Typed'
  OBVIOUS
<1>1. CASE TimerFires \/ ListAnswered \/ ListRested \/ TrashAnswered \/ TrashApplied
  BY <1>1, TypedLoads
<1>2. CASE ListApplied \/ ListFails
  BY <1>2, TypedApplied
<1>3. CASE Asking \/ Dismiss \/ \E p \in Paths : Navigate(p)
  BY <1>3, TypedUser DEF Asking
<1>4. CASE Picking
  BY <1>4, TypedPicking
<1>5. CASE Confirm
  BY <1>5, TypedConfirm
<1>6. CASE \E r \in reqs : Serve(r)
  BY <1>6, TypedServe
<1>7. CASE \E r \in reqs : Answered(r) \/ Lost(r)
  BY <1>7, TypedAnswer
<1>8. CASE UNCHANGED vars
  BY <1>8 DEF vars, Typed, FilesOK, ViewOK, PageOK, ListOK, TrashOK, ClipOK, PickerOK, FormOK,
              ReqsOK
<1> QED
  BY <1>1, <1>2, <1>3, <1>4, <1>5, <1>6, <1>7, <1>8 DEF Next, Loading

LEMMA TypedAlways == Spec => []Typed
<1> QED
  BY TypedInit, TypedStep, PTL DEF Spec

\* The page's lists, dialogs, requests and loads keep their shape, for every instance.
THEOREM BrowserTypeCorrect == Spec => []TypeOK
<1>1. Typed => TypeOK
  BY DEF Typed, TypeOK, FilesOK, ViewOK, PageOK, ListOK, TrashOK, ClipOK, PickerOK, FormOK,
         ReqsOK, ReqOK, ReqSet, RowSet, Disk, ItemSet
<1> QED
  BY <1>1, TypedAlways, PTL

-----------------------------------------------------------------------------
(* The rows belong to the folder the path names *)

FolderInv == list.pc \in {"idle", "rest"} /\ ~missed => origin = path

\* A folder is left only while no rows are being loaded, and the load that follows sets
\* the origin or is missed.
THEOREM RowsOfThePath == Spec => []ShowsItsFolder
<1>1. Init => FolderInv
  BY DEF Init, FolderInv
<1>2. Typed /\ FolderInv /\ [Next]_vars => FolderInv'
  <2> SUFFICES ASSUME Typed, FolderInv, [Next]_vars PROVE FolderInv'
    OBVIOUS
  <2>1. list.pc \in {"idle", "asked", "answered", "rest"} /\ missed \in BOOLEAN
    BY DEF Typed, ListOK, ViewOK
  <2>2. CASE TimerFires
    BY <2>1, <2>2 DEF TimerFires, FolderInv, Busy, Ask
  <2>3. CASE ListAnswered \/ ListRested
    BY <2>1, <2>3 DEF ListAnswered, ListRested, FolderInv, Typed, ListOK
  <2>4. CASE ListApplied \/ ListFails
    BY <2>4 DEF ListApplied, ListFails, FolderInv
  <2>5. CASE \E p \in Paths : Navigate(p)
    BY <2>5 DEF Navigate, FolderInv, Ask
  <2>6. CASE \E r \in reqs : Serve(r) \/ Answered(r) \/ Lost(r)
    BY <2>1, <2>6 DEF Serve, Answered, Lost, view, FolderInv
  <2>7. CASE Confirm \/ Dismiss \/ TrashAnswered \/ TrashApplied
    BY <2>7 DEF Confirm, Dismiss, TrashAnswered, TrashApplied, view, FolderInv
  <2>8. CASE Asking
    BY <2>8 DEF Asking, AskDelete, AskName, AskPurge, Restore, Select, ToggleShare, AskBatch,
                AskFolder, AskEmpty, FetchTrash, TurnPage, Open, view, FolderInv
  <2>9. CASE Picking
    BY <2>9 DEF Picking, Take, PickerNavigate, PickerAnswered, PickerClosed, PickerFolder, Paste,
                view, FolderInv
  <2>10. CASE UNCHANGED vars
    BY <2>10 DEF vars, FolderInv
  <2> QED
    BY <2>2, <2>3, <2>4, <2>5, <2>6, <2>7, <2>8, <2>9, <2>10 DEF Next, Loading
<1>3. FolderInv => ShowsItsFolder
  BY DEF FolderInv, ShowsItsFolder, Busy
<1> QED
  BY <1>1, <1>2, <1>3, TypedAlways, PTL DEF Spec

-----------------------------------------------------------------------------
(* The ids and the names of the rows *)

\* A request after whose answer the rows are loaded again, or that is missed: the rows are
\* not the server's until then.
Dirty(r) ==
  \/ r.op \in {"delete", "batch", "rename", "move", "copy", "folder"}
  \/ r.pc = "ok" /\ r.op \in {"restore", "newdir", "empty"}
Settled == ~missed /\ ~timer /\ \A r \in reqs : ~Dirty(r)

Shows(rows) ==
  /\ \A i \in Items : In(i, path) => i \in Ids(rows)
  /\ \A f \in rows : f.id \in Items /\ In(f.id, path) /\ f.name = disk[f.id].name

\* While no load is due and no request will ask for one, the rows have the ids and names
\* the server has, and so have the rows of a load that was answered.
RowsInv == Settled =>
  /\ list.pc = "answered" => Shows(list.rows)
  /\ list.pc \in {"idle", "rest"} =>
       Shows(files) /\ page <= TotalPages(files) /\ selected \subseteq Ids(files)

LEMMA ListingShows == Shows(Listing(path))
<1>1. \A f \in Listing(path) : \E i \in Items : f = Row(i) /\ In(i, path)
  BY DEF Listing
<1>2. \A i \in Items : In(i, path) => Row(i) \in Listing(path)
  BY DEF Listing
<1>3. \A i \in Items : Row(i).id = i /\ Row(i).name = disk[i].name
  BY DEF Row
<1> QED
  BY <1>1, <1>2, <1>3 DEF Shows, Ids

LEMMA RelabelledShows ==
  ASSUME FilesOK, Relabelled, Shows(files), UNCHANGED <<disk, path>>
  PROVE  Shows(files)' /\ TotalPages(files)' = TotalPages(files)
<1>1. Cardinality(files) = Cardinality(Ids(files))
  BY RowCount DEF FilesOK
<1>2. Cardinality(files') = Cardinality(Ids(files'))
  <2>1. files' \subseteq RowSet /\ OneEach(files')
    BY DEF Relabelled, FilesOK
  <2> QED
    BY <2>1, RowCount
<1>3. TotalPages(files)' = TotalPages(files)
  BY <1>1, <1>2 DEF TotalPages, Relabelled
<1> QED
  BY <1>3 DEF Relabelled, Shows, In

LEMMA RowsFrame ==
  ASSUME RowsInv, UNCHANGED <<disk, path, files, page, list>>, selected' \subseteq selected,
         Settled' => Settled
  PROVE  RowsInv'
BY DEF RowsInv, Shows, In

\* A request that keeps the server's folders and names as they are.
LEMMA EffectKeeps ==
  ASSUME Typed, NEW r, ReqOK(r), Effect(r), r.op \in {"share", "unshare", "purge"}
  PROVE  \A i \in Items : /\ disk'[i].name = disk[i].name
                          /\ \A p \in Paths : In(i, p)' <=> In(i, p)
<1>1. \A i \in Items : disk[i] \in ItemSet
  BY DEF Typed, Disk
<1>2. "none" \notin Paths
  BY DEF Paths
<1>3. CASE r.op \in {"share", "unshare"}
  <2>1. PICK s \in {"none", "link"} :
          disk' = [i \in Items |-> IF i \in r.ids THEN [disk[i] EXCEPT !.share = s] ELSE disk[i]]
    BY <1>3 DEF Effect
  <2> QED
    BY <1>1, <2>1 DEF In, ItemSet
<1>4. CASE r.op = "purge"
  <2>1. disk' = [i \in Items |-> IF i \in Trashed /\ (r.op = "empty" \/ i \in Content(r.ids))
                                   THEN [disk[i] EXCEPT !.at = "none", !.trashed = FALSE]
                                   ELSE disk[i]]
    BY <1>4 DEF Effect
  <2> QED
    BY <1>1, <1>2, <2>1 DEF In, ItemSet, Trashed
<1> QED
  BY <1>3, <1>4

LEMMA RowsStep == Typed /\ RowsInv /\ [Next]_vars => RowsInv'
<1> SUFFICES ASSUME Typed, RowsInv, [Next]_vars, Settled' PROVE RowsInv'
  BY DEF RowsInv
<1>1. FilesOK /\ disk \in Disk /\ path \in Paths /\ ReqsOK
  BY DEF Typed, ViewOK
<1>2. ~missed' /\ ~timer' /\ \A r \in reqs' : ~Dirty(r)
  BY DEF Settled, Dirty
<1>3. CASE TimerFires
  BY <1>2, <1>3 DEF TimerFires, Ask, RowsInv
<1>4. CASE ListAnswered
  BY <1>1, <1>4, ListingShows DEF ListAnswered, RowsInv, Typed, ListOK, Shows, In
<1>5. CASE ListApplied
  <2>1. Settled
    <3>1. ASSUME NEW r \in reqs PROVE ~Dirty(r)
      <4>1. [r EXCEPT !.live = FALSE] \in reqs'
        BY <1>5 DEF ListApplied, Detached
      <4>2. r \in ReqSet
        BY <1>1 DEF ReqsOK, ReqOK
      <4> QED
        BY <1>2, <4>1, <4>2 DEF Dirty, ReqSet
    <3> QED
      BY <1>2, <1>5, <3>1 DEF ListApplied, Settled
  <2>2. Shows(list.rows)
    BY <1>5, <2>1 DEF ListApplied, RowsInv
  <2>3. Shows(files)'
    BY <1>5, <2>2 DEF ListApplied, Shows, In
  <2>4. page' <= TotalPages(list.rows)
    <3>1. list.rows \subseteq RowSet /\ OneEach(list.rows)
      BY DEF Typed, ListOK, ServerRows, RowSet, Shares
    <3>2. TotalPages(list.rows) \in 1..(Cardinality(Items) + 1)
      BY <3>1, PageBounds
    <3>3. Cardinality(Items) \in Nat /\ page \in Nat
      BY BrowserAssumption, FS_CardinalityType DEF Typed, PageOK
    <3> QED
      BY <1>5, <3>2, <3>3 DEF ListApplied, Clamp
  <2> QED
    BY <1>5, <2>3, <2>4 DEF ListApplied, RowsInv, Typed, ListOK, StillListed
<1>6. CASE ListFails
  BY <1>2, <1>6 DEF ListFails
<1>7. CASE ListRested
  <2>1. Settled
    BY <1>2, <1>7 DEF ListRested, Settled
  <2> QED
    BY <1>7, <2>1 DEF ListRested, RowsInv, NoAsk, Shows, In
<1>8. CASE TrashAnswered \/ TrashApplied \/ Dismiss \/ FetchTrash \/ PickerClosed
  BY <1>2, <1>8, RowsFrame DEF TrashAnswered, TrashApplied, Dismiss, FetchTrash, PickerClosed, view, Settled
<1>9. CASE AskBatch \/ AskFolder \/ AskEmpty
           \/ \E i \in Items : AskDelete(i) \/ AskName(i) \/ AskPurge(i)
  <2>1. PICK op, ids : Open(op, ids)
    BY <1>9 DEF AskBatch, AskFolder, AskEmpty, AskDelete, AskName, AskPurge
  <2> QED
    BY <1>2, <2>1, RowsFrame DEF Open, view, Settled
<1>10. CASE \E i \in Items : Restore(i)
  BY <1>2, <1>10, RowsFrame DEF Restore, view, Settled, Send
<1>11. CASE \E r \in files : ToggleShare(r)
  BY <1>2, <1>11, RowsFrame DEF ToggleShare, Open, view, Settled, Send
<1>12. CASE \E i \in Items : Select(i)
  <2>1. Settled
    BY <1>2, <1>12 DEF Select, Settled
  <2> QED
    BY <1>12, <2>1 DEF Select, view, RowsInv, Shows, In
<1>13. CASE TurnPage
  <2>1. Settled
    BY <1>2, <1>13 DEF TurnPage, Settled
  <2>2. TotalPages(files) \in Nat /\ page \in Nat
    BY <1>1, PageBounds, BrowserAssumption, FS_CardinalityType DEF FilesOK, Typed, PageOK
  <2> QED
    BY <1>13, <2>1, <2>2 DEF TurnPage, RowsInv, Shows, In
<1>14. CASE \E p \in Paths : Navigate(p)
  BY <1>14 DEF Navigate, Ask, RowsInv
<1>15. CASE \/ \E a \in {"move", "copy"}, ids \in SUBSET Items : Take(a, ids)
            \/ \E p \in Paths : PickerNavigate(p) \/ PickerAnswered(p)
            \/ PickerFolder
  <2>1. Settled
    <3>1. reqs \subseteq reqs' /\ timer' = timer /\ missed' = missed
      <4>1. CASE PickerFolder
        BY <4>1 DEF PickerFolder, Send
      <4>2. CASE ~PickerFolder
        BY <1>15, <4>2 DEF Take, PickerNavigate, PickerAnswered
      <4> QED
        BY <4>1, <4>2
    <3> QED
      BY <1>2, <3>1 DEF Settled
  <2>2. UNCHANGED <<disk, path, files, page, list>> /\ selected' \subseteq selected
    BY <1>15 DEF Take, PickerNavigate, PickerAnswered, PickerFolder, view
  <2> QED
    BY <2>1, <2>2, RowsFrame
<1>16. CASE Paste
  <2>1. clip.action \in {"move", "copy"}
    BY <1>16 DEF Paste, Typed, ClipOK
  <2>2. [Req(clip.action, clip.ids) EXCEPT !.dest = picker.path] \in reqs'
    BY <1>16 DEF Paste, Send
  <2> QED
    BY <1>2, <2>1, <2>2 DEF Dirty, Req
<1>17. CASE Confirm
  <2>1. form.op \notin {"delete", "batch", "rename", "folder"}
    <3>1. \A op, ids : Req(op, ids).op = op
      BY DEF Req
    <3>2. form.op \in {"delete", "batch", "rename", "folder"} => \E ids : Req(form.op, ids) \in reqs'
      BY <1>17 DEF Confirm, Send
    <3> QED
      BY <1>2, <3>1, <3>2 DEF Dirty
  <2>2. Settled
    BY <1>2, <1>17 DEF Confirm, Send, Settled
  <2>3. CASE form.op = "share"
    <3>1. files' = {IF r.id \in form.ids THEN [r EXCEPT !.share = "loading"] ELSE r : r \in files}
          /\ UNCHANGED <<disk, path, page, list, selected>>
      BY <1>17, <2>3 DEF Confirm, view
    <3>2. form.ids \in SUBSET Items
      BY DEF Typed, FormOK
    <3>3. Relabelled
      BY <1>1, <3>1, <3>2, SharedRows DEF Shares
    <3>4. Shows(files) => Shows(files)' /\ TotalPages(files)' = TotalPages(files)
      BY <1>1, <3>1, <3>3, RelabelledShows
    <3> QED
      BY <2>2, <3>1, <3>3, <3>4 DEF RowsInv, Relabelled, Shows, In
  <2>4. CASE form.op # "share"
    BY <1>17, <2>1, <2>2, <2>4, RowsFrame DEF Confirm, view
  <2> QED
    BY <2>3, <2>4
<1>18. CASE \E r \in reqs : Serve(r)
  <2>1. PICK r \in reqs : Serve(r)
    BY <1>18
  <2>2. ReqOK(r)
    BY <1>1 DEF ReqsOK
  <2>3. PICK pc \in {"ok", "refused"} : Answer(r, pc) /\ (pc = "ok" => Effect(r))
                                      /\ (pc = "refused" => UNCHANGED disk)
    BY <2>1 DEF Serve
  <2>4. [r EXCEPT !.pc = pc] \in reqs' /\ r.pc = "sent"
    BY <2>1, <2>3 DEF Answer, Serve
  <2>5. ~Dirty([r EXCEPT !.pc = pc])
    BY <1>2, <2>4
  <2>6. ~Dirty(r)
    BY <2>2, <2>4, <2>5 DEF Dirty, ReqOK, ReqSet
  <2>7. Settled
    BY <1>2, <2>1, <2>3, <2>6 DEF Serve, Answer, Settled
  <2>8. CASE pc = "refused"
    BY <2>1, <2>3, <2>7, <2>8, RowsFrame DEF Serve, view
  <2>9. CASE pc = "ok"
    <3>1. r.op \in {"share", "unshare", "purge"}
      BY <2>2, <2>5, <2>9 DEF Dirty, ReqOK, ReqSet, ReqOps, ShareOps
    <3>2. \A i \in Items : disk'[i].name = disk[i].name /\ (In(i, path)' <=> In(i, path))
      <4>1. Effect(r) /\ UNCHANGED path
        BY <2>1, <2>3, <2>9 DEF Serve, view
      <4> QED
        BY <1>1, <2>2, <3>1, <4>1, EffectKeeps DEF In
    <3>3. \A rows : Shows(rows) => Shows(rows)'
      BY <3>2 DEF Shows
    <3> QED
      BY <2>1, <2>7, <3>3 DEF Serve, view, RowsInv
  <2> QED
    BY <2>3, <2>8, <2>9
<1>19. CASE \E r \in reqs : Answered(r)
  <2>1. PICK r \in reqs : Answered(r)
    BY <1>19
  <2>2. ReqOK(r)
    BY <1>1 DEF ReqsOK
  <2>3. ~Refreshed(r) /\ ~Unloaded(r) /\ ~missed /\ ~timer
    BY <1>2, <2>1 DEF Answered, Refresh, Keep
  <2>4. ~Dirty(r)
    BY <2>1, <2>3 DEF Answered, Dirty, Refreshed, Unloaded
  <2>5. Settled
    BY <1>2, <2>1, <2>3, <2>4 DEF Answered, Settled
  <2>6. UNCHANGED <<disk, path, page, list, selected>>
    BY <2>1 DEF Answered, view
  <2>7. Relabelled
    BY <1>1, <2>1, <2>2, AnswerRows
  <2>8. Shows(files) => Shows(files)' /\ TotalPages(files)' = TotalPages(files)
    BY <1>1, <2>6, <2>7, RelabelledShows
  <2> QED
    BY <2>5, <2>6, <2>7, <2>8 DEF RowsInv, Relabelled, Shows, In
<1>20. CASE \E r \in reqs : Lost(r)
  BY <1>2, <1>20 DEF Lost
<1>21. CASE UNCHANGED vars
  BY <1>2, <1>21, RowsFrame DEF vars, Settled
<1> QED
  BY <1>3, <1>4, <1>5, <1>6, <1>7, <1>8, <1>9, <1>10, <1>11, <1>12, <1>13, <1>14, <1>15, <1>16,
     <1>17, <1>18, <1>19, <1>20, <1>21 DEF Next, Loading, Asking, Picking

-----------------------------------------------------------------------------
(* The links of the rows *)

\* The requests under way that make or revoke the link of an item; they are clear of each
\* other when all ask for the same and their row is still in the list: otherwise the first
\* answer is missed.
Pending(i) == {r \in reqs : r.op \in ShareOps /\ r.ids = {i}}
Clear(i) == \A q, r \in Pending(i) : r.live /\ q.op = r.op
Accepted(i) == \E r \in Pending(i) : r.pc = "ok"
Sharing(i) == \E r \in Pending(i) : r.op = "share"
RowShare(s, i) == IF Sharing(i) THEN s = "loading" ELSE Accepted(i) \/ s = disk[i].share

\* A row has the link the server has, or waits for an answer that will give it that one.
ItemShares(i) == Clear(i) =>
  /\ \A f \in files : f.id = i => RowShare(f.share, i)
  /\ Sharing(i) => disk[i].share = IF Accepted(i) THEN "link" ELSE "none"
  /\ ~Sharing(i) /\ Accepted(i) => disk[i].share = "none"
  /\ form.op = "share" /\ i \in form.ids => ~Sharing(i) /\ disk[i].share = "none"
LoadedShares(i) == list.pc = "answered" /\ Pending(i) = {} =>
  \A f \in list.rows : f.id = i => f.share = disk[i].share
SharesInv == ~missed => \A i \in Items : ItemShares(i) /\ LoadedShares(i)

FormSame(i) == form'.op = "share" /\ i \in form'.ids => form.op = "share" /\ i \in form.ids
RowsSame(i) == \A g \in files' : g.id = i => \E f \in files : f.id = i /\ f.share = g.share
ItemSame(i) == Pending(i)' = Pending(i) /\ disk'[i].share = disk[i].share

LEMMA ItemFrame ==
  ASSUME NEW i \in Items, ItemShares(i), ItemSame(i), RowsSame(i), FormSame(i)
  PROVE  ItemShares(i)'
<1>1. (Clear(i)' <=> Clear(i)) /\ (Sharing(i)' <=> Sharing(i)) /\ (Accepted(i)' <=> Accepted(i))
  BY DEF ItemSame, Clear, Sharing, Accepted
<1> QED
  BY <1>1 DEF ItemShares, ItemSame, RowsSame, FormSame, RowShare

LEMMA LoadedFrame ==
  ASSUME NEW i \in Items, LoadedShares(i), ItemSame(i), list' = list \/ list'.pc # "answered"
  PROVE  LoadedShares(i)'
BY DEF LoadedShares, ItemSame

LEMMA SameRequests ==
  ASSUME NEW i \in Items, UNCHANGED <<disk, reqs>>
  PROVE  ItemSame(i)
BY DEF ItemSame, Pending

LEMMA OtherRequest ==
  ASSUME NEW i \in Items, UNCHANGED disk, NEW r, Send(r), r.op \notin ShareOps \/ r.ids # {i}
  PROVE  ItemSame(i)
BY DEF ItemSame, Pending, Send

LEMMA SameRows ==
  ASSUME NEW i \in Items, files' \subseteq files
  PROVE  RowsSame(i)
BY DEF RowsSame

\* Only a request for the link of an item changes it.
LEMMA EffectShares ==
  ASSUME disk \in Disk, NEW r, ReqOK(r), Effect(r), NEW i \in Items,
         r.op \notin ShareOps \/ r.ids # {i}
  PROVE  disk'[i].share = disk[i].share
<1>1. disk[i] \in ItemSet
  BY DEF Disk
<1>2. CASE r.op \in {"delete", "batch"}
  <2>1. disk' = [j \in Items |-> IF j \in Content(r.ids \cap Items) /\ disk[j].at # "none"
                                   THEN [disk[j] EXCEPT !.trashed = TRUE] ELSE disk[j]]
    BY <1>2 DEF Effect
  <2> QED
    BY <1>1, <2>1 DEF ItemSet
<1>3. CASE r.op = "rename"
  <2>1. disk' = [j \in Items |-> IF j \in r.ids THEN [disk[j] EXCEPT !.name = "new"] ELSE disk[j]]
    BY <1>3 DEF Effect
  <2> QED
    BY <1>1, <2>1 DEF ItemSet
<1>4. CASE r.op \in ShareOps
  <2>1. PICK s \in {"none", "link"} :
          disk' = [j \in Items |-> IF j \in r.ids THEN [disk[j] EXCEPT !.share = s] ELSE disk[j]]
    BY <1>4 DEF Effect, ShareOps
  <2>2. i \notin r.ids
    BY <1>4 DEF ReqOK
  <2> QED
    BY <2>1, <2>2
<1>5. CASE r.op \in {"folder", "newdir", "copy"}
  <2>1. PICK j \in Items : disk' = [disk EXCEPT ![j].at = r.dest]
    BY <1>5 DEF Effect
  <2> QED
    BY <1>1, <2>1 DEF ItemSet, Disk
<1>6. CASE r.op = "move"
  <2>1. disk' = [j \in Items |-> IF j \in r.ids /\ ~disk[j].trashed
                                   THEN [disk[j] EXCEPT !.at = r.dest] ELSE disk[j]]
    BY <1>6 DEF Effect
  <2> QED
    BY <1>1, <2>1 DEF ItemSet
<1>7. CASE r.op = "restore"
  <2>1. disk' = [j \in Items |-> IF j \in Content(r.ids)
                                   THEN [disk[j] EXCEPT !.trashed = FALSE] ELSE disk[j]]
    BY <1>7 DEF Effect
  <2> QED
    BY <1>1, <2>1 DEF ItemSet
<1>8. CASE r.op \in {"purge", "empty"}
  <2>1. disk' = [j \in Items |-> IF j \in Trashed /\ (r.op = "empty" \/ j \in Content(r.ids))
                                   THEN [disk[j] EXCEPT !.at = "none", !.trashed = FALSE]
                                   ELSE disk[j]]
    BY <1>8 DEF Effect
  <2> QED
    BY <1>1, <2>1 DEF ItemSet
<1> QED
  BY <1>2, <1>3, <1>4, <1>5, <1>6, <1>7, <1>8 DEF Effect, ShareOps

\* The rows change in place, a link is marked.
LEMMA MarkedRows ==
  ASSUME FilesOK, NEW i \in Items, NEW ids \in SUBSET Items, NEW s \in Shares,
         files' = {IF r.id \in ids THEN [r EXCEPT !.share = s] ELSE r : r \in files}
  PROVE  /\ i \notin ids => RowsSame(i)
         /\ i \in ids => \A g \in files' : g.id = i => g.share = s
<1>1. ASSUME NEW g \in files', g.id = i
      PROVE  \E r \in files : r.id = i /\ g = IF i \in ids THEN [r EXCEPT !.share = s] ELSE r
  BY <1>1 DEF FilesOK, RowSet
<1>2. \A r \in files : [r EXCEPT !.share = s].share = s
  BY DEF FilesOK, RowSet
<1> QED
  BY <1>1, <1>2 DEF RowsSame

LEMMA RenamedSame ==
  ASSUME FilesOK, NEW i \in Items, NEW ids \in SUBSET Items,
         files' = {IF r.id \in ids THEN [r EXCEPT !.name = "new"] ELSE r : r \in files}
  PROVE  RowsSame(i)
BY DEF RowsSame, FilesOK, RowSet

Linkage(i) == ItemShares(i) /\ LoadedShares(i)

LEMMA SharesToggle ==
  ASSUME Typed, NEW i \in Items, Linkage(i), NEW r \in files, ToggleShare(r)
  PROVE  Linkage(i)'
<1> USE DEF Linkage
<1>1. r.id \in Items /\ FilesOK
  BY DEF ToggleShare, Typed, FilesOK, RowSet
<1>2. UNCHANGED <<disk, files, list>>
  BY DEF ToggleShare, Open, view
<1>3. RowsSame(i)
  BY <1>2, SameRows
<1>4. CASE Open("share", {r.id}) /\ r.share = "none"
  <2>1. form' = [op |-> "share", ids |-> {r.id}] /\ ItemSame(i)
    BY <1>4, SameRequests DEF Open
  <2>2. LoadedShares(i)'
    BY <1>2, <2>1, LoadedFrame
  <2>3. CASE i # r.id
    BY <1>3, <2>1, <2>2, <2>3, ItemFrame DEF FormSame
  <2>4. CASE i = r.id
    <3>1. Clear(i) => ~Sharing(i) /\ disk[i].share = "none"
      BY <1>4, <2>4 DEF ItemShares, RowShare
    <3>2. (Clear(i)' <=> Clear(i)) /\ (Sharing(i)' <=> Sharing(i)) /\ (Accepted(i)' <=> Accepted(i))
      BY <2>1 DEF ItemSame, Clear, Sharing, Accepted
    <3> QED
      BY <1>2, <2>2, <3>1, <3>2 DEF ItemShares, RowShare
  <2> QED
    BY <2>3, <2>4
<1>5. CASE r.share # "none" /\ Send(Req("unshare", {r.id})) /\ UNCHANGED form
  <2> DEFINE u == Req("unshare", {r.id})
  <2>1. u.op = "unshare" /\ u.ids = {r.id} /\ u.pc = "sent" /\ u.live
    BY DEF Req
  <2> HIDE DEF u
  <2>2. CASE i # r.id
    <3>1. ItemSame(i)
      BY <1>2, <1>5, <2>1, <2>2, OtherRequest DEF u
    <3> QED
      BY <1>2, <1>3, <1>5, <3>1, ItemFrame, LoadedFrame DEF FormSame
  <2>3. CASE i = r.id
    <3>1. Pending(i)' = Pending(i) \cup {u}
      BY <1>5, <2>1, <2>3 DEF Pending, Send, u, ShareOps
    <3>2. Clear(i)' => Clear(i) /\ ~Sharing(i) /\ ~Sharing(i)'
      BY <2>1, <3>1 DEF Clear, Sharing
    <3>3. Accepted(i)' <=> Accepted(i)
      BY <2>1, <3>1 DEF Accepted
    <3>4. ItemShares(i)'
      BY <1>2, <1>5, <3>2, <3>3 DEF ItemShares, RowShare
    <3> QED
      BY <3>1, <3>4 DEF LoadedShares
  <2> QED
    BY <2>2, <2>3
<1> QED
  BY <1>4, <1>5 DEF ToggleShare

LEMMA SharesConfirm ==
  ASSUME Typed, NEW i \in Items, Linkage(i), Confirm
  PROVE  Linkage(i)'
<1> USE DEF Linkage
<1>1. FilesOK /\ form.ids \in SUBSET Items
  BY DEF Typed, FormOK
<1>2. UNCHANGED <<disk, list>> /\ form'.op = "none"
  BY DEF Confirm, view, NoForm
<1>3. FormSame(i)
  BY <1>2 DEF FormSame
<1>4. CASE form.op # "share"
  <2>1. ItemSame(i)
    <3>1. \A op, ids : Req(op, ids).op = op
      BY DEF Req
    <3>2. PICK op \in FormOps \ {"share"} : \E ids : Send(Req(op, ids))
      BY <1>4 DEF Confirm, FormOps
    <3>3. op \notin ShareOps
      BY DEF FormOps, ShareOps
    <3> QED
      BY <1>2, <3>1, <3>2, <3>3, OtherRequest
  <2>2. RowsSame(i)
    <3>1. CASE form.op \in {"delete", "batch", "purge", "empty"}
      BY <3>1, SameRows DEF Confirm, Without
    <3>2. CASE form.op = "rename"
      BY <1>1, <3>2, RenamedSame DEF Confirm
    <3>3. CASE form.op = "folder"
      BY <3>3, BrowserAssumption DEF Confirm, RowsSame
    <3> QED
      BY <1>4, <3>1, <3>2, <3>3 DEF Confirm
  <2> QED
    BY <1>2, <1>3, <2>1, <2>2, ItemFrame, LoadedFrame
<1>5. CASE form.op = "share"
  <2>1. files' = {IF r.id \in form.ids THEN [r EXCEPT !.share = "loading"] ELSE r : r \in files}
    BY <1>5 DEF Confirm
  <2>2. PICK s : /\ Send(s) /\ s.op = "share" /\ s.pc = "sent"
                 /\ \/ form.ids = {} /\ s.ids = {Dir} /\ ~s.live
                    \/ form.ids # {} /\ s.ids = form.ids /\ s.live
    <3> DEFINE d == [Req("share", {Dir}) EXCEPT !.live = FALSE]
    <3>1. d.op = "share" /\ d.ids = {Dir} /\ d.pc = "sent" /\ ~d.live
      BY DEF Req
    <3>2. CASE form.ids = {}
      <4>1. Send(d)
        BY <1>5, <3>2 DEF Confirm
      <4> QED
        BY <3>1, <3>2, <4>1
    <3>3. CASE form.ids # {}
      BY <1>5, <3>3 DEF Confirm, Req
    <3> QED
      BY <3>2, <3>3
  <2>3. CASE s.ids # {i}
    <3>1. ItemSame(i)
      BY <1>2, <2>2, <2>3, OtherRequest
    <3>2. i \notin form.ids
      BY <1>5, <2>2, <2>3 DEF Typed, FormOK
    <3>3. RowsSame(i)
      BY <1>1, <2>1, <3>2, MarkedRows DEF Shares
    <3> QED
      BY <1>2, <1>3, <3>1, <3>3, ItemFrame, LoadedFrame
  <2>4. CASE s.ids = {i}
    <3>1. Pending(i)' = Pending(i) \cup {s}
      BY <2>2, <2>4 DEF Pending, Send, ShareOps
    <3>2. LoadedShares(i)'
      BY <3>1 DEF LoadedShares
    <3>3. CASE ~s.live
      BY <3>1, <3>2, <3>3 DEF ItemShares, Clear
    <3>4. CASE s.live
      <4>1. i \in form.ids
        BY <2>2, <2>4, <3>4
      <4>2. Clear(i)' => Clear(i) /\ \A q \in Pending(i) : q.op = "share"
        BY <2>2, <3>1 DEF Clear
      <4>3. Clear(i)' => Pending(i) = {} /\ disk[i].share = "none"
        BY <1>5, <4>1, <4>2 DEF ItemShares, Sharing
      <4>4. Clear(i)' => ~Accepted(i)' /\ Sharing(i)'
        BY <2>2, <3>1, <4>3 DEF Accepted, Sharing
      <4>5. \A g \in files' : g.id = i => g.share = "loading"
        BY <1>1, <2>1, <4>1, MarkedRows DEF Shares
      <4> QED
        BY <1>2, <3>2, <4>3, <4>4, <4>5 DEF ItemShares, RowShare
    <3> QED
      BY <3>3, <3>4
  <2> QED
    BY <2>3, <2>4
<1> QED
  BY <1>4, <1>5

LEMMA SharesServe ==
  ASSUME Typed, NEW i \in Items, Linkage(i), NEW r \in reqs, Serve(r)
  PROVE  Linkage(i)'
<1> USE DEF Linkage
<1>1. ReqOK(r) /\ disk \in Disk
  BY DEF Typed, ReqsOK
<1>2. UNCHANGED <<files, list, form>>
  BY DEF Serve, view
<1>3. PICK pc \in {"ok", "refused"} : Answer(r, pc) /\ (pc = "ok" => Effect(r))
                                    /\ (pc = "refused" => UNCHANGED disk)
  BY DEF Serve
<1> DEFINE q == [r EXCEPT !.pc = pc]
<1>4. q.op = r.op /\ q.ids = r.ids /\ q.live = r.live /\ q.pc = pc /\ r.pc = "sent"
  BY <1>1, <1>3 DEF ReqOK, ReqSet, Serve
<1>5. reqs' = (reqs \ {r}) \cup {q}
  BY <1>3 DEF Answer
<1> HIDE DEF q
<1>6. CASE r \notin Pending(i)
  <2>1. Pending(i)' = Pending(i)
    BY <1>4, <1>5, <1>6 DEF Pending
  <2>2. r.op \notin ShareOps \/ r.ids # {i}
    BY <1>6 DEF Pending
  <2>3. disk'[i].share = disk[i].share
    BY <1>1, <1>3, <2>2, EffectShares
  <2>4. ItemSame(i) /\ RowsSame(i) /\ FormSame(i)
    BY <1>2, <2>1, <2>3 DEF ItemSame, RowsSame, FormSame
  <2> QED
    BY <1>2, <2>4, ItemFrame, LoadedFrame
<1>7. CASE r \in Pending(i)
  <2>1. Pending(i)' = (Pending(i) \ {r}) \cup {q}
    BY <1>4, <1>5, <1>7 DEF Pending
  <2>2. (Clear(i)' => Clear(i)) /\ (Sharing(i)' <=> Sharing(i))
    BY <1>4, <1>7, <2>1 DEF Clear, Sharing
  <2>3. Accepted(i)' <=> Accepted(i) \/ pc = "ok"
    BY <1>4, <2>1 DEF Accepted
  <2>4. LoadedShares(i)'
    BY <2>1 DEF LoadedShares
  <2>5. CASE pc = "refused"
    BY <1>2, <1>3, <2>2, <2>3, <2>4, <2>5 DEF ItemShares, RowShare
  <2>6. CASE pc = "ok"
    <3>1. disk'[i].share = IF r.op = "share" THEN "link" ELSE "none"
      <4>1. r.op \in {"share", "unshare"} /\ i \in r.ids
        BY <1>7 DEF Pending, ShareOps
      <4>2. disk' = [j \in Items |-> IF j \in r.ids
               THEN [disk[j] EXCEPT !.share = IF r.op = "share" THEN "link" ELSE "none"] ELSE disk[j]]
        BY <1>3, <2>6, <4>1 DEF Effect
      <4>3. disk[i] \in ItemSet
        BY <1>1 DEF Disk
      <4> QED
        BY <4>1, <4>2, <4>3 DEF ItemSet
    <3>2. Clear(i)' => (Sharing(i) <=> r.op = "share")
      BY <1>7, <2>2 DEF Clear, Sharing
    <3>3. Clear(i)' => (form.op = "share" /\ i \in form.ids => ~Sharing(i))
      BY <2>2 DEF ItemShares
    <3>4. Clear(i)' /\ Sharing(i) => \A f \in files : f.id = i => f.share = "loading"
      BY <2>2 DEF ItemShares, RowShare
    <3> QED
      BY <1>2, <2>2, <2>3, <2>4, <2>6, <3>1, <3>2, <3>3, <3>4 DEF ItemShares, RowShare
  <2> QED
    BY <1>3, <2>5, <2>6
<1> QED
  BY <1>6, <1>7

LEMMA SharesAnswer ==
  ASSUME Typed, NEW i \in Items, Linkage(i), NEW r \in reqs, Answered(r), ~missed'
  PROVE  Linkage(i)'
<1> USE DEF Linkage
<1>1. ReqOK(r) /\ FilesOK
  BY DEF Typed, ReqsOK
<1>2. UNCHANGED <<disk, list, form>> /\ ~Unloaded(r) /\ reqs' = reqs \ {r}
  BY DEF Answered, view
<1>3. FormSame(i) /\ r.pc \in {"ok", "refused"} /\ r.ids \in SUBSET Items
  BY <1>1, <1>2 DEF FormSame, Answered, ReqOK, ReqSet
<1>4. r.op \in ShareOps /\ r.live =>
        \/ r.op = "share" /\ \E s \in {"link", "none"} : (s = "link" <=> r.pc = "ok")
              /\ files' = {IF f.id \in r.ids THEN [f EXCEPT !.share = s] ELSE f : f \in files}
        \/ r.op = "unshare" /\ r.pc = "ok"
              /\ files' = {IF f.id \in r.ids THEN [f EXCEPT !.share = "none"] ELSE f : f \in files}
        \/ r.op = "unshare" /\ r.pc = "refused" /\ files' = files
  BY <1>3 DEF Answered, ShareAnswer, Linked, ShareOps
<1>5. r.op \notin ShareOps => files' = files
  BY DEF Answered, ShareOps
<1>6. r.op \in ShareOps => r.live /\ list.pc # "answered"
  BY <1>2 DEF Unloaded, ShareOps
<1>7. CASE r \notin Pending(i)
  <2>1. Pending(i)' = Pending(i)
    BY <1>2, <1>7 DEF Pending
  <2>2. ItemSame(i)
    BY <1>2, <2>1 DEF ItemSame
  <2>3. RowsSame(i)
    <3>1. CASE files' = files
      BY <3>1, SameRows
    <3>2. CASE files' # files
      <4>1. r.op \in ShareOps /\ i \notin r.ids
        BY <1>1, <1>5, <1>7, <3>2 DEF Pending, ReqOK
      <4>2. PICK s \in Shares :
              files' = {IF f.id \in r.ids THEN [f EXCEPT !.share = s] ELSE f : f \in files}
        BY <1>4, <1>6, <3>2, <4>1 DEF Shares
      <4> QED
        BY <1>1, <1>3, <4>1, <4>2, MarkedRows
    <3> QED
      BY <3>1, <3>2
  <2> QED
    BY <1>2, <1>3, <2>2, <2>3, ItemFrame, LoadedFrame
<1>8. CASE r \in Pending(i)
  <2>1. r.op \in ShareOps /\ r.ids = {i}
    BY <1>8 DEF Pending
  <2>2. Pending(i) = {r} /\ Pending(i)' = {}
    BY <1>2, <1>8, <2>1 DEF Pending, Unloaded, ShareOps
  <2>3. Clear(i) /\ ~Sharing(i)' /\ ~Accepted(i)'
    BY <1>6, <2>1, <2>2 DEF Clear, Sharing, Accepted
  <2>4. (Sharing(i) <=> r.op = "share") /\ (Accepted(i) <=> r.pc = "ok")
    BY <2>2 DEF Sharing, Accepted
  <2>5. \A g \in files' : g.id = i => g.share = disk[i].share
    <3>1. CASE r.op = "share"
      <4>1. PICK s \in {"link", "none"} : (s = "link" <=> r.pc = "ok")
              /\ files' = {IF f.id \in r.ids THEN [f EXCEPT !.share = s] ELSE f : f \in files}
        BY <1>4, <1>6, <2>1, <3>1
      <4>2. \A g \in files' : g.id = i => g.share = s
        <5>1. s \in Shares /\ i \in r.ids
          BY <2>1 DEF Shares
        <5> QED
          BY <1>1, <1>3, <4>1, <5>1, MarkedRows
      <4>3. disk[i].share = s
        BY <2>3, <2>4, <3>1, <4>1 DEF ItemShares
      <4> QED
        BY <4>2, <4>3
    <3>2. CASE r.op = "unshare" /\ r.pc = "ok"
      <4>1. files' = {IF f.id \in r.ids THEN [f EXCEPT !.share = "none"] ELSE f : f \in files}
        BY <1>4, <1>6, <2>1, <3>2
      <4>2. \A g \in files' : g.id = i => g.share = "none"
        BY <1>1, <1>3, <2>1, <4>1, MarkedRows DEF Shares
      <4>3. disk[i].share = "none"
        BY <2>3, <2>4, <3>2 DEF ItemShares
      <4> QED
        BY <4>2, <4>3
    <3>3. CASE r.op = "unshare" /\ r.pc = "refused"
      <4>1. files' = files
        BY <1>4, <1>6, <2>1, <3>3
      <4> QED
        BY <2>3, <2>4, <3>3, <4>1 DEF ItemShares, RowShare
    <3> QED
      BY <1>3, <2>1, <3>1, <3>2, <3>3 DEF ShareOps
  <2>6. form.op = "share" /\ i \in form.ids => disk[i].share = "none"
    BY <2>3 DEF ItemShares
  <2>7. ItemShares(i)'
    BY <1>2, <2>3, <2>5, <2>6 DEF ItemShares, RowShare
  <2> QED
    BY <1>2, <1>6, <2>1, <2>7 DEF LoadedShares
<1> QED
  BY <1>7, <1>8

LEMMA SharesApplied ==
  ASSUME Typed, NEW i \in Items, Linkage(i), ListApplied
  PROVE  Linkage(i)'
<1> USE DEF Linkage
<1>1. list'.pc = "rest" /\ files' = list.rows /\ UNCHANGED disk /\ list.pc = "answered"
  BY DEF ListApplied, Typed, ListOK
<1>2. LoadedShares(i)'
  BY <1>1 DEF LoadedShares
<1>3. ~(form'.op = "share" /\ i \in form'.ids)
  BY DEF ListApplied, Typed, FormOK
<1>4. \A r \in reqs : LET q == [r EXCEPT !.live = FALSE]
                     IN q.op = r.op /\ q.ids = r.ids /\ ~q.live
  BY DEF Typed, ReqsOK, ReqOK, ReqSet
<1>5. CASE Pending(i) = {}
  <2>1. Pending(i)' = {}
    <3> SUFFICES ASSUME NEW q \in Pending(i)' PROVE FALSE
      OBVIOUS
    <3>1. PICK r \in reqs : q = [r EXCEPT !.live = FALSE]
      BY DEF ListApplied, Detached, Pending
    <3>2. q.op \in ShareOps /\ q.ids = {i}
      BY DEF Pending
    <3>3. r \in Pending(i)
      BY <1>4, <3>1, <3>2 DEF Pending
    <3> QED
      BY <1>5, <3>3
  <2>2. ~Sharing(i)' /\ ~Accepted(i)'
    BY <2>1 DEF Sharing, Accepted
  <2> QED
    BY <1>1, <1>2, <1>3, <1>5, <2>2 DEF ItemShares, RowShare, LoadedShares
<1>6. CASE Pending(i) # {}
  <2>1. PICK r \in Pending(i) : TRUE
    BY <1>6
  <2>2. [r EXCEPT !.live = FALSE] \in Pending(i)'
    BY <1>4, <2>1 DEF ListApplied, Detached, Pending
  <2>3. ~Clear(i)'
    BY <1>4, <2>1, <2>2 DEF Clear, Pending
  <2> QED
    BY <1>2, <2>3 DEF ItemShares
<1> QED
  BY <1>5, <1>6

\* Everything else leaves requests for a link, its row and the dialog about it alone.
LEMMA SharesQuiet ==
  ASSUME Typed, NEW i \in Items, Linkage(i),
         \/ TimerFires \/ ListAnswered \/ ListRested \/ TrashAnswered \/ TrashApplied \/ Dismiss
         \/ AskBatch \/ AskFolder \/ AskEmpty \/ FetchTrash \/ TurnPage \/ Picking
         \/ \E p \in Paths : Navigate(p)
         \/ \E j \in Items : AskDelete(j) \/ AskName(j) \/ AskPurge(j) \/ Restore(j) \/ Select(j)
  PROVE  Linkage(i)'
<1> USE DEF Linkage
<1>1. ASSUME UNCHANGED <<disk, reqs, files>>, form' = form \/ form'.op # "share",
             list' = list \/ list'.pc # "answered"
      PROVE  Linkage(i)'
  BY <1>1, SameRequests, SameRows, ItemFrame, LoadedFrame DEF FormSame
<1>2. ASSUME UNCHANGED <<disk, form, list>>, files' \subseteq files, NEW r, Send(r),
             r.op \notin ShareOps
      PROVE  Linkage(i)'
  BY <1>2, OtherRequest, SameRows, ItemFrame, LoadedFrame DEF FormSame
<1>3. CASE TimerFires \/ ListRested \/ TrashAnswered \/ TrashApplied \/ FetchTrash \/ TurnPage
           \/ \E p \in Paths : Navigate(p)
  BY <1>1, <1>3 DEF TimerFires, ListRested, TrashAnswered, TrashApplied, FetchTrash, TurnPage,
                    Navigate, view, Ask, NoAsk
<1>4. CASE Dismiss \/ \E j \in Items : Select(j)
  BY <1>1, <1>4 DEF Dismiss, Select, view, NoForm
<1>5. CASE ListAnswered
  <2>1. \A f \in Listing(path) : f.id = i => f.share = disk[i].share
    <3>1. \A f \in Listing(path) : \E j \in Items : f = Row(j)
      BY DEF Listing
    <3> QED
      BY <3>1 DEF Row
  <2>2. LoadedShares(i)'
    BY <1>5, <2>1 DEF ListAnswered, LoadedShares, Typed, ListOK
  <2>3. ItemShares(i)'
    BY <1>5, SameRequests, SameRows, ItemFrame DEF FormSame, ListAnswered
  <2> QED
    BY <2>2, <2>3
<1>6. CASE AskBatch \/ AskFolder \/ AskEmpty
           \/ \E j \in Items : AskDelete(j) \/ AskName(j) \/ AskPurge(j)
  <2>1. PICK op \in {"delete", "batch", "rename", "folder", "purge", "empty"} :
          \E ids : Open(op, ids)
    BY <1>6 DEF AskBatch, AskFolder, AskEmpty, AskDelete, AskName, AskPurge
  <2> QED
    BY <1>1, <2>1 DEF Open, view
<1>7. CASE \E j \in Items : Restore(j)
  <2>1. PICK j \in Items : Restore(j)
    BY <1>7
  <2>2. Req("restore", {j}).op \notin ShareOps
    BY DEF Req, ShareOps
  <2> QED
    BY <1>2, <2>1, <2>2 DEF Restore, view
<1>8. CASE Picking
  <2>1. CASE PickerFolder
    <3>1. [Req("newdir", {}) EXCEPT !.dest = picker.path].op \notin ShareOps
      BY DEF Req, ShareOps
    <3> QED
      BY <1>2, <2>1, <3>1 DEF PickerFolder, view
  <2>2. CASE Paste
    <3>1. clip.action \in {"move", "copy"}
      BY <2>2 DEF Paste, Typed, ClipOK
    <3>2. [Req(clip.action, clip.ids) EXCEPT !.dest = picker.path].op \notin ShareOps
      BY <3>1 DEF Req, ShareOps
    <3> QED
      BY <1>2, <2>2, <3>2 DEF Paste, Without, view
  <2>3. CASE ~PickerFolder /\ ~Paste
    BY <1>1, <1>8, <2>3 DEF Picking, Take, PickerNavigate, PickerAnswered, PickerClosed, view
  <2> QED
    BY <2>1, <2>2, <2>3
<1> QED
  BY <1>3, <1>4, <1>5, <1>6, <1>7, <1>8

LEMMA SharesStep == Typed /\ SharesInv /\ [Next]_vars => SharesInv'
<1> SUFFICES ASSUME Typed, SharesInv, [Next]_vars, ~missed', NEW i \in Items
             PROVE  Linkage(i)'
  BY DEF SharesInv, Linkage
<1>1. ~missed
  BY DEF Typed, ViewOK, Next, Loading, TimerFires, ListAnswered, ListApplied, ListFails,
         ListRested, TrashAnswered, TrashApplied, Asking, AskDelete, AskName, AskPurge, Restore,
         Select, ToggleShare, AskBatch, AskFolder, AskEmpty, FetchTrash, TurnPage, Open, Picking,
         Take, PickerNavigate, PickerAnswered, PickerClosed, PickerFolder, Paste, Confirm,
         Dismiss, Navigate, Serve, Answered, Lost, vars
<1>2. Linkage(i)
  BY <1>1 DEF SharesInv, Linkage
<1>3. CASE ListApplied
  BY <1>2, <1>3, SharesApplied
<1>4. CASE ListFails \/ \E r \in reqs : Lost(r)
  BY <1>4 DEF ListFails, Lost
<1>5. CASE \E r \in files : ToggleShare(r)
  BY <1>2, <1>5, SharesToggle
<1>6. CASE Confirm
  BY <1>2, <1>6, SharesConfirm
<1>7. CASE \E r \in reqs : Serve(r)
  BY <1>2, <1>7, SharesServe
<1>8. CASE \E r \in reqs : Answered(r)
  BY <1>2, <1>8, SharesAnswer
<1>9. CASE UNCHANGED vars
  <2>1. ItemSame(i) /\ RowsSame(i) /\ FormSame(i) /\ UNCHANGED list
    BY <1>9, SameRequests, SameRows DEF vars, FormSame
  <2> QED
    BY <1>2, <2>1, ItemFrame, LoadedFrame DEF Linkage
<1> QED
  BY <1>2, <1>3, <1>4, <1>5, <1>6, <1>7, <1>8, <1>9, SharesQuiet DEF Next, Loading, Asking

-----------------------------------------------------------------------------
(* The list, when nothing is under way *)

ListInv == RowsInv /\ SharesInv

LEMMA ListInvInit == Init => ListInv
<1> SUFFICES ASSUME Init PROVE ListInv
  OBVIOUS
<1>1. path = "root" /\ files = Listing(path) /\ reqs = {} /\ form = NoForm /\ list.pc = "idle"
      /\ page = 1 /\ selected = {} /\ disk \in Disk
  BY TypedInit DEF Init, NoAsk, Typed
<1>2. RowsInv
  <2>1. files \subseteq RowSet /\ OneEach(files)
    BY TypedInit DEF Typed, FilesOK
  <2>2. TotalPages(files) \in 1..(Cardinality(Items) + 1)
    BY <2>1, PageBounds
  <2>3. 1 <= TotalPages(files)
    BY <2>2, BrowserAssumption, FS_CardinalityType
  <2> QED
    BY <1>1, <2>3, ListingShows DEF RowsInv
<1>3. SharesInv
  <2> SUFFICES ASSUME NEW i \in Items PROVE ItemShares(i) /\ LoadedShares(i)
    BY DEF SharesInv
  <2>1. ~Sharing(i) /\ ~Accepted(i)
    BY <1>1 DEF Sharing, Accepted, Pending
  <2>2. \A f \in files : \E j \in Items : f = Row(j)
    BY <1>1 DEF Listing
  <2> QED
    BY <1>1, <2>1, <2>2 DEF ItemShares, LoadedShares, RowShare, Row, NoForm
<1> QED
  BY <1>2, <1>3 DEF ListInv

LEMMA ListInvAlways == Spec => [](Typed /\ ListInv)
<1>1. Typed /\ ListInv /\ [Next]_vars => ListInv'
  BY RowsStep, SharesStep DEF ListInv
<1> QED
  BY <1>1, TypedInit, TypedStep, ListInvInit, PTL DEF Spec

\* When no load and no request is under way and none was missed, the rows are exactly the
\* ones the server has in the folder, and the page that is shown exists, whatever the page
\* changed before it was answered.
THEOREM QuietListIsCurrent == Spec => []QuietIsCurrent
<1>1. Typed /\ ListInv => QuietIsCurrent
  <2> SUFFICES ASSUME Typed, ListInv, Quiet, ~missed
               PROVE  files = Listing(path) /\ page <= TotalPages(files)
    BY DEF QuietIsCurrent
  <2>1. list.pc = "idle" /\ ~timer /\ reqs = {}
    BY DEF Quiet, Busy
  <2>2. Shows(files) /\ page <= TotalPages(files)
    BY <2>1 DEF ListInv, RowsInv, Settled
  <2>3. \A f \in files : f.id \in Items /\ f.share = disk[f.id].share
    <3>1. \A i \in Items : Pending(i) = {}
      BY <2>1 DEF Pending
    <3>2. \A i \in Items : Clear(i) /\ ~Sharing(i) /\ ~Accepted(i)
      BY <3>1 DEF Clear, Sharing, Accepted
    <3> QED
      BY <2>2, <3>2 DEF ListInv, SharesInv, ItemShares, RowShare, Shows
  <2>4. \A f \in files : f = Row(f.id)
    BY <2>2, <2>3 DEF Typed, FilesOK, RowSet, Shows, Row
  <2>5. \A f \in files : f \in Listing(path)
    BY <2>2, <2>3, <2>4 DEF Shows, Listing
  <2>6. \A f \in Listing(path) : f \in files
    <3> SUFFICES ASSUME NEW i \in Items, In(i, path) PROVE Row(i) \in files
      BY DEF Listing
    <3>1. PICK f \in files : f.id = i
      BY <2>2 DEF Shows, Ids
    <3> QED
      BY <2>4, <3>1
  <2> QED
    BY <2>2, <2>5, <2>6
<1> QED
  BY <1>1, ListInvAlways, PTL

\* Then what is selected is on the list too: a batch acts on rows the user sees.
THEOREM SelectionIsShown == Spec => []SelectionShown
<1>1. Typed /\ ListInv => SelectionShown
  BY DEF ListInv, RowsInv, Settled, SelectionShown, Quiet, Busy
<1> QED
  BY <1>1, ListInvAlways, PTL
=============================================================================
