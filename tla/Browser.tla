------------------------------ MODULE Browser -------------------------------
(***************************************************************************)
(* The file browser of a page (cloudApp): the rows of a folder, what is    *)
(* selected, the clipboard and the folder picker, the trash, and the share *)
(* links.  The page changes its rows before it asks the server, sends the  *)
(* request, and loads the rows again 800 ms after the answer, unless it is *)
(* loading them already; every answer is applied to what the page has      *)
(* become in the meantime.                                                 *)
(*                                                                         *)
(* One folder, Dir, is in the root; the other items are files or become    *)
(* one.  The server does what it is asked or refuses; either message of a  *)
(* request can be lost.                                                    *)
(***************************************************************************)
EXTENDS Naturals, FiniteSets

CONSTANTS
  Items,    \* items of the user
  Dir,      \* the item that is a folder; its content is the path "sub"
  PerPage,  \* itemsPerPage
  MaxOps    \* bound on what the user does

Paths == {"root", "sub"}
Shares == {"none", "loading", "link"}
Temp == "temp"     \* id of the row of a folder that is being created, no item's id
NoAsk == [pc |-> "idle", silent |-> FALSE, rows |-> {}]

ASSUME BrowserAssumption ==
  /\ IsFiniteSet(Items) /\ Dir \in Items /\ Temp \notin Items
  /\ PerPage \in Nat \ {0} /\ MaxOps \in Nat

VARIABLES
  disk,      \* the server: item to its folder, its name, whether trashed, its share
  path,      \* currentPath
  files,     \* rows of the list
  origin,    \* history: the folder the rows were loaded from
  selected,  \* selectedIds
  page,      \* currentPage
  timer,     \* _fetchDebounceTimer runs
  list,      \* the load of the rows: idle, asked, answered or resting
  trash,     \* ids listed in the trash, and its load
  clip,      \* clipboard
  picker,    \* the folder picker and its loads
  form,      \* the dialog that is open: for a new folder, a name, a link, a deletion
  reqs,      \* requests under way
  ops,       \* what the user has done so far
  missed     \* history: a load that was due was dropped, or lost, or a request was lost

vars == <<disk, path, files, origin, selected, page, timer, list, trash, clip, picker, form,
          reqs, ops, missed>>
view == <<path, origin, page, list>>
others == <<trash, clip, picker>>

NoForm == [op |-> "none", ids |-> {}]
Row(i) == [id |-> i, name |-> disk[i].name, share |-> disk[i].share]
In(i, p) == disk[i].at = p /\ ~disk[i].trashed
Listing(p) == {Row(i) : i \in {j \in Items : In(j, p)}}
Trashed == {i \in Items : disk[i].at # "none" /\ disk[i].trashed}
Ids(rows) == {r.id : r \in rows}
Without(rows, ids) == {r \in rows : r.id \notin ids}

Init ==
  /\ disk = [i \in Items |->
       [at |-> IF i = Dir THEN "root" ELSE "none", name |-> "old", trashed |-> FALSE,
        share |-> "none"]]
     \/ \E p \in Paths, i \in Items \ {Dir}, t \in BOOLEAN :
          disk = [j \in Items |->
            [at |-> CASE j = Dir -> "root" [] j = i -> p [] OTHER -> "none",
             name |-> "old", trashed |-> j = i /\ t, share |-> "none"]]
  /\ path = "root" /\ files = Listing("root") /\ origin = "root"
  /\ selected = {} /\ page = 1 /\ timer = FALSE /\ list = NoAsk
  /\ trash = [ids |-> Trashed, pc |-> "idle", answer |-> {}]
  /\ clip = [action |-> "none", ids |-> {}]
  /\ picker = [show |-> FALSE, path |-> "root", folders |-> {}, asked |-> {}]
  /\ form = NoForm
  /\ reqs = {} /\ ops = 0 /\ missed = FALSE

-----------------------------------------------------------------------------
(* Loading the rows *)

TotalPagesBare(rows) == Cardinality(rows) \div PerPage                  \* a mutant
\* Math.ceil(n / itemsPerPage) || 1
TotalPages(rows) ==
  LET n == Cardinality(rows) IN IF n = 0 THEN 1 ELSE (n + PerPage - 1) \div PerPage
Clamp(p, rows) == IF p > TotalPages(rows) THEN TotalPages(rows) ELSE p

Busy == list.pc # "idle"
Ask(silent) == [pc |-> "asked", silent |-> silent, rows |-> {}]

\* fetchFiles(true): the timer is started, or started again.
Refresh == timer' = TRUE
Keep == UNCHANGED timer

TimerFires ==
  /\ timer
  /\ timer' = FALSE
  /\ list' = IF Busy THEN list ELSE Ask(TRUE)
  /\ missed' = (missed \/ Busy)
  /\ UNCHANGED <<disk, path, files, origin, selected, page, others, form, reqs, ops>>

ListAnswered ==
  /\ list.pc = "asked"
  /\ list' = [list EXCEPT !.pc = "answered", !.rows = Listing(path)]
  /\ UNCHANGED <<disk, path, files, origin, selected, page, timer, others, form, reqs, ops, missed>>

StillSelected(rows) == selected                                        \* a mutant
StillListed(rows) == selected \cap Ids(rows)

\* A share request keeps its row object: new rows leave it detached.
Detached == {[r EXCEPT !.live = FALSE] : r \in reqs}
ListApplied ==
  /\ list.pc = "answered"
  /\ files' = list.rows
  /\ origin' = path
  /\ selected' = StillListed(list.rows)
  /\ page' = IF list.silent THEN Clamp(page, list.rows) ELSE 1
  /\ list' = [list EXCEPT !.pc = "rest", !.rows = {}]
  /\ reqs' = Detached
  /\ form' = IF form.op = "share" THEN [form EXCEPT !.ids = {}] ELSE form
  /\ UNCHANGED <<disk, path, timer, others, ops, missed>>

\* An error in JSON empties the list; without an answer it stays.
ListFails ==
  /\ list.pc = "asked"
  /\ list' = [list EXCEPT !.pc = "rest"]
  /\ missed' = TRUE
  /\ \/ files' = {} /\ selected' = {} /\ origin' = path /\ reqs' = Detached
        /\ page' = 1
        /\ form' = IF form.op = "share" THEN [form EXCEPT !.ids = {}] ELSE form
     \/ UNCHANGED <<files, selected, origin, reqs, page, form>>
  /\ UNCHANGED <<disk, path, timer, others, ops>>

\* The finally block, 500 ms after the load began.
ListRested ==
  /\ list.pc = "rest"
  /\ list' = NoAsk
  /\ UNCHANGED <<disk, path, files, origin, selected, page, timer, others, form, reqs, ops, missed>>

\* fetchTrashFiles: one load at a time, another call is dropped.
TrashAsk(t) == IF t.pc = "idle" THEN [t EXCEPT !.pc = "asked"] ELSE t
TrashAnswered ==
  /\ trash.pc = "asked"
  /\ trash' = [trash EXCEPT !.pc = "answered", !.answer = Trashed]
  /\ UNCHANGED <<disk, view, files, selected, timer, clip, picker, form, reqs, ops, missed>>
TrashApplied ==
  /\ trash.pc \in {"asked", "answered"}
  /\ trash' = [ids |-> IF trash.pc = "answered" THEN trash.answer ELSE trash.ids,
               pc |-> "idle", answer |-> {}]
  /\ UNCHANGED <<disk, view, files, selected, timer, clip, picker, form, reqs, ops, missed>>

-----------------------------------------------------------------------------
(* The user *)

\* A dialog, or the picker, covers the page.
Does == ops < MaxOps /\ ops' = ops + 1
Free == Does /\ form = NoForm /\ ~picker.show
Send(r) == reqs' = reqs \cup {r}
Req(op, ids) == [op |-> op, ids |-> ids, dest |-> path, pc |-> "sent", live |-> TRUE]

NavigateAnyway(p) ==                                                  \* a mutant
  /\ Free /\ p # path
  /\ path' = p
  /\ list' = IF Busy THEN list ELSE Ask(FALSE)
  /\ UNCHANGED <<disk, files, origin, selected, page, timer, others, form, reqs, missed>>
Navigate(p) ==
  /\ Free /\ p # path
  /\ ~Busy
  /\ path' = p
  /\ list' = Ask(FALSE)
  /\ UNCHANGED <<disk, files, origin, selected, page, timer, others, form, reqs, missed>>

Select(i) ==
  /\ Free /\ i \in Ids(files) \ selected
  /\ selected' = selected \cup {i}
  /\ UNCHANGED <<disk, view, files, timer, others, form, reqs, missed>>

TurnPage ==
  /\ Free /\ page < TotalPages(files)
  /\ page' = page + 1
  /\ UNCHANGED <<disk, path, origin, list, files, selected, timer, others, form, reqs, missed>>

\* A dialog opens; what it is about is looked up again when it is confirmed.
Open(op, ids) ==
  /\ Free
  /\ form' = [op |-> op, ids |-> ids]
  /\ UNCHANGED <<disk, view, files, selected, timer, others, reqs, missed>>
AskDelete(i) == i \in Ids(files) /\ Open("delete", {i})
AskBatch == selected # {} /\ Open("batch", {})
AskName(i) == i \in Ids(files) /\ Open("rename", {i})
AskFolder == Open("folder", {})
AskPurge(i) == i \in trash.ids /\ Open("purge", {i})
AskEmpty == Open("empty", {})

\* toggleShare of a row without a link opens the dialog, of another one revokes the link.
ToggleShare(r) ==
  /\ r \in files /\ r.id # Temp
  /\ \/ r.share = "none" /\ Open("share", {r.id})
     \/ /\ r.share # "none" /\ Free
        /\ Send(Req("unshare", {r.id}))
        /\ UNCHANGED <<disk, view, files, selected, timer, others, form, missed>>

\* Confirmed: the rows change first, then the request is sent.
Confirm ==
  /\ form # NoForm
  /\ form' = NoForm
  /\ \/ /\ form.op = "delete"
        /\ files' = Without(files, form.ids) /\ Send(Req("delete", form.ids))
        /\ UNCHANGED <<selected, trash>>
     \/ /\ form.op = "batch"
        /\ files' = Without(files, selected) /\ Send(Req("batch", selected))
        /\ selected' = {} /\ UNCHANGED trash
     \/ /\ form.op = "rename"
        /\ files' = {IF r.id \in form.ids THEN [r EXCEPT !.name = "new"] ELSE r : r \in files}
        /\ Send(Req("rename", form.ids))
        /\ UNCHANGED <<selected, trash>>
     \/ /\ form.op = "folder"
        /\ files' = files \cup {[id |-> Temp, name |-> "new", share |-> "none"]}
        /\ Send(Req("folder", {}))
        /\ UNCHANGED <<selected, trash>>
     \/ /\ form.op = "share"   \* a row that was replaced is changed out of sight
        /\ files' = {IF r.id \in form.ids THEN [r EXCEPT !.share = "loading"] ELSE r : r \in files}
        /\ Send(IF form.ids = {} THEN [Req("share", {Dir}) EXCEPT !.live = FALSE]
                                 ELSE Req("share", form.ids))
        /\ UNCHANGED <<selected, trash>>
     \/ form.op = "purge" /\ Send(Req("purge", form.ids)) /\ UNCHANGED <<files, selected, trash>>
     \/ /\ form.op = "empty" /\ Send(Req("empty", {}))
        /\ trash' = [trash EXCEPT !.pc = IF @ = "idle" THEN "empty" ELSE @]
        /\ UNCHANGED <<files, selected>>
  /\ UNCHANGED <<disk, view, timer, clip, picker, ops, missed>>
Dismiss ==
  /\ form # NoForm /\ form' = NoForm
  /\ UNCHANGED <<disk, view, files, selected, timer, others, reqs, ops, missed>>

Restore(i) ==
  /\ Free /\ i \in trash.ids
  /\ Send(Req("restore", {i}))
  /\ UNCHANGED <<disk, view, files, selected, timer, others, form, missed>>

FetchTrash ==
  /\ Free /\ trash.pc = "idle"
  /\ trash' = TrashAsk(trash)
  /\ UNCHANGED <<disk, view, files, selected, timer, clip, picker, form, reqs, missed>>

-----------------------------------------------------------------------------
(* The clipboard and the folder picker *)

PickerAt(p) == [picker EXCEPT !.show = TRUE, !.path = p, !.asked = @ \cup {p}]

\* copyToClipboard, and openFolderPicker at once.
Take(action, ids) ==
  /\ Free /\ ids # {} /\ ids \subseteq Ids(files)
  /\ clip' = [action |-> action, ids |-> ids]
  /\ selected' = {}
  /\ picker' = PickerAt(path)
  /\ UNCHANGED <<disk, view, files, timer, trash, form, reqs, missed>>

PickerNavigate(p) ==
  /\ Does /\ picker.show /\ p # picker.path
  /\ p = "sub" => \E i \in picker.folders : i = Dir
  /\ picker' = PickerAt(p)
  /\ UNCHANGED <<disk, view, files, selected, timer, trash, clip, form, reqs, missed>>

\* An answer shows the folders of the path it was asked for, whatever the path is now.
PickerAnswered(p) ==
  /\ p \in picker.asked
  /\ picker' = [picker EXCEPT !.asked = @ \ {p},
                              !.folders = IF In(Dir, p) THEN {Dir} ELSE {}]
  /\ UNCHANGED <<disk, view, files, selected, timer, trash, clip, form, reqs, ops, missed>>

PickerClosed ==
  /\ picker.show
  /\ picker' = [picker EXCEPT !.show = FALSE]
  /\ clip' = [action |-> "none", ids |-> {}]
  /\ UNCHANGED <<disk, view, files, selected, timer, trash, form, reqs, ops, missed>>

PickerFolder ==
  /\ Does /\ picker.show
  /\ Send([Req("newdir", {}) EXCEPT !.dest = picker.path])
  /\ UNCHANGED <<disk, view, files, selected, timer, others, form, missed>>

\* executePasteToSelected: a folder that is listed does not move into itself (one that was
\* taken from old rows while its content was being loaded does); nothing stops a second
\* click.
Conflicts(dest) ==
  Dir \in clip.ids /\ Dir \in Ids(files) \cup picker.folders /\ dest = "sub"
Paste ==
  /\ Does /\ picker.show /\ clip.ids # {}
  /\ clip.action = "move" => ~Conflicts(picker.path)
  /\ files' = IF clip.action = "move" /\ picker.path # path
                THEN Without(files, clip.ids) ELSE files
  /\ Send([Req(clip.action, clip.ids) EXCEPT !.dest = picker.path])
  /\ UNCHANGED <<disk, view, selected, timer, others, form, missed>>

-----------------------------------------------------------------------------
(* The server *)

New(i, p) == i # Dir /\ disk[i].at = "none"
Change(ids, f) == disk' = [i \in Items |-> IF i \in ids THEN f ELSE disk[i]]
Content(ids) == ids \cup IF Dir \in ids THEN {i \in Items : disk[i].at = "sub"} ELSE {}

\* What the server makes of a request that it accepts.
Effect(r) ==
  \/ /\ r.op \in {"delete", "batch"}
     /\ disk' = [i \in Items |-> IF i \in Content(r.ids \cap Items) /\ disk[i].at # "none"
                                   THEN [disk[i] EXCEPT !.trashed = TRUE] ELSE disk[i]]
  \/ /\ r.op = "rename"
     /\ disk' = [i \in Items |-> IF i \in r.ids THEN [disk[i] EXCEPT !.name = "new"] ELSE disk[i]]
  \/ /\ r.op \in {"share", "unshare"}
     /\ disk' = [i \in Items |-> IF i \in r.ids
          THEN [disk[i] EXCEPT !.share = IF r.op = "share" THEN "link" ELSE "none"] ELSE disk[i]]
  \/ /\ r.op \in {"folder", "newdir", "copy"}
     /\ \E i \in Items : New(i, r.dest) /\ disk' = [disk EXCEPT ![i].at = r.dest]
  \/ /\ r.op = "move" /\ ~(Dir \in r.ids /\ r.dest = "sub")
     /\ disk' = [i \in Items |-> IF i \in r.ids /\ ~disk[i].trashed
                                   THEN [disk[i] EXCEPT !.at = r.dest] ELSE disk[i]]
  \/ /\ r.op = "restore"
     /\ disk' = [i \in Items |-> IF i \in Content(r.ids)
                                   THEN [disk[i] EXCEPT !.trashed = FALSE] ELSE disk[i]]
  \/ /\ r.op \in {"purge", "empty"}
     /\ disk' = [i \in Items |-> IF i \in Trashed /\ (r.op = "empty" \/ i \in Content(r.ids))
                                   THEN [disk[i] EXCEPT !.at = "none", !.trashed = FALSE]
                                   ELSE disk[i]]

Answer(r, pc) == reqs' = (reqs \ {r}) \cup {[r EXCEPT !.pc = pc]}
Serve(r) ==
  /\ r \in reqs /\ r.pc = "sent"
  /\ \/ Effect(r) /\ Answer(r, "ok")
     \/ Answer(r, "refused") /\ UNCHANGED disk
  /\ UNCHANGED <<view, files, selected, timer, others, form, ops, missed>>

-----------------------------------------------------------------------------
(* The answers *)

\* A share link that was asked for: the row gets it, or loses the mark.
Linked(r, s) == IF r.live THEN {IF f.id \in r.ids THEN [f EXCEPT !.share = s] ELSE f : f \in files}
                          ELSE files
ShareAnswer(r) == Linked(r, IF r.pc = "ok" THEN "link" ELSE "none")

RefreshedIfOk(r) == r.pc = "ok" /\ r.op \notin {"share", "unshare", "purge", "newdir"}  \* a mutant
\* Operations that load the rows again, some even when they were refused.
Refreshed(r) ==
  \/ r.op \in {"delete", "batch", "rename", "move", "copy"}
  \/ r.pc = "ok" /\ r.op \in {"folder", "restore", "empty"}

\* Answers no load follows: a folder that was refused keeps its row, one made in the picker
\* gets none, and a link goes to a row that was replaced, or will be by older rows, or
\* crosses the answer to another click on the same row.
Unloaded(r) ==
  \/ r.op = "folder" /\ r.pc = "refused"
  \/ r.op = "newdir" /\ r.pc = "ok"
  \/ /\ r.op \in {"share", "unshare"}
     /\ \/ ~r.live \/ list.pc = "answered"
        \/ \E q \in reqs \ {r} : q.op \in {"share", "unshare"} /\ q.ids = r.ids

Answered(r) ==
  /\ r \in reqs /\ r.pc \in {"ok", "refused"}
  /\ reqs' = reqs \ {r}
  /\ IF Refreshed(r) THEN Refresh ELSE Keep
  /\ files' = CASE r.op = "share" -> ShareAnswer(r)
                [] r.op = "unshare" /\ r.pc = "ok" -> Linked(r, "none")
                [] OTHER -> files
  \* The clipboard is emptied and the picker closed, even if they are others by now.
  /\ IF r.op \in {"move", "copy"} /\ r.pc = "ok"
       THEN clip' = [action |-> "none", ids |-> {}] /\ picker' = [picker EXCEPT !.show = FALSE]
       ELSE IF r.op = "newdir" /\ r.pc = "ok"
         THEN picker' = [picker EXCEPT !.asked = @ \cup {picker.path}] /\ UNCHANGED clip
         ELSE UNCHANGED <<clip, picker>>
  /\ trash' = CASE r.op \in {"restore", "purge"} /\ r.pc = "ok" -> TrashAsk(trash)
                [] r.op = "empty" -> [trash EXCEPT !.ids = IF r.pc = "ok" THEN {} ELSE @,
                                                   !.pc = IF @ = "empty" THEN "idle" ELSE @]
                [] OTHER -> trash
  /\ missed' = (missed \/ Unloaded(r))
  /\ UNCHANGED <<disk, view, selected, form, ops>>

\* The connection breaks: fetch throws, and only some operations catch it.
Lost(r) ==
  /\ r \in reqs
  /\ reqs' = reqs \ {r}
  /\ missed' = TRUE
  /\ files' = IF r.op = "share" THEN Linked(r, "none") ELSE files
  /\ trash' = [trash EXCEPT !.pc = IF r.op = "empty" /\ @ = "empty" THEN "idle" ELSE @]
  /\ UNCHANGED <<disk, view, selected, timer, clip, picker, form, ops>>

-----------------------------------------------------------------------------
Loading == ListAnswered \/ ListApplied \/ ListFails \/ ListRested \/ TrashAnswered \/ TrashApplied
Asking ==
  \/ \E i \in Items : AskDelete(i) \/ AskName(i) \/ AskPurge(i) \/ Restore(i) \/ Select(i)
  \/ \E r \in files : ToggleShare(r)
  \/ AskBatch \/ AskFolder \/ AskEmpty \/ FetchTrash \/ TurnPage
Picking ==
  \/ \E a \in {"move", "copy"}, ids \in SUBSET Items : Take(a, ids)
  \/ \E p \in Paths : PickerNavigate(p) \/ PickerAnswered(p)
  \/ PickerClosed \/ PickerFolder \/ Paste
Next ==
  \/ TimerFires \/ Loading \/ Asking \/ Picking \/ Confirm \/ Dismiss
  \/ \E p \in Paths : Navigate(p)
  \/ \E r \in reqs : Serve(r) \/ Answered(r) \/ Lost(r)

Spec == Init /\ [][Next]_vars

-----------------------------------------------------------------------------
(* Properties *)

\* The page's lists, dialogs and requests have the shape the code gives them, one load of
\* the rows at a time.
TypeOK ==
  /\ disk \in [Items -> [at: Paths \cup {"none"}, name: {"old", "new"}, trashed: BOOLEAN,
                         share: {"none", "link"}]]
  /\ files \subseteq [id: Items \cup {Temp}, name: {"old", "new"}, share: Shares]
  /\ {path, origin, picker.path} \subseteq Paths
  /\ selected \subseteq Items
  /\ page \in 1..(Cardinality(Items) + 1)
  /\ list.pc \in {"idle", "asked", "answered", "rest"}
  /\ trash.pc \in {"idle", "asked", "answered", "empty"}
  /\ \A r \in reqs : r.pc \in {"sent", "ok", "refused"}

\* The rows belong to the folder the path names: nobody goes on to a folder while another
\* is being loaded.  (A load that gets no answer leaves the old rows under the new path.)
ShowsItsFolder == ~Busy /\ ~missed => origin = path

\* When nothing is under way the list is what the server has and the page exists, though
\* the page changed its rows before it knew.
Quiet == ~Busy /\ ~timer /\ reqs = {}
QuietIsCurrent == Quiet /\ ~missed => files = Listing(path) /\ page <= TotalPages(files)

\* What is selected, and so what the next batch deletes or moves, is on the list the user
\* sees: the selection does not survive the way to another folder.
SelectionShown == Quiet /\ ~missed => selected \subseteq Ids(files)

\* "Coalesce into a single call after 800ms of quiet": the call the timer makes is made.
RefreshMade == [][timer /\ ~timer' => list'.pc = "asked"]_vars
=============================================================================
