------------------------------- MODULE Dialogs ------------------------------
(***************************************************************************)
(* The page's one confirmation dialog and the operations that wait for its *)
(* answer: what they ask is shown in a single slot, with the resolver of   *)
(* the promise they await.  The buttons of the page lie under an open      *)
(* dialog, but a paste from the clipboard and the answer of the update     *)
(* check open a dialog over another one.                                   *)
(***************************************************************************)
EXTENDS Naturals, FiniteSets

CONSTANTS
  Users,        \* user names
  Keys,         \* passkeys
  MaxDialogOps  \* bound on what the user does

Nobody == "nobody"

ASSUME DialogsAssumption ==
  /\ Nobody \notin Users /\ IsFiniteSet(Users) /\ IsFiniteSet(Keys)
  /\ MaxDialogOps \in Nat

VARIABLES
  dialog,     \* modal: whether it shows, what is asked, and whose resolver it holds
  asks,       \* operations that wait for a dialog or, once confirmed, for the server, which
              \* may have served them in vain
  accounts,   \* the server's users
  keys,       \* the server's passkeys
  apiKey,     \* whether there is an API key: on the server, on the page
  fetching,   \* lists of users and passkeys on their way to the page
  userList,   \* users on the page
  keyList,    \* passkeys on the page
  form,       \* userForm.username
  creating,   \* isCreatingUser: the name it was sent with, and whether the server did it
  issued,     \* childSuccessModal: the user named, and the one the password belongs to, if any
  restart,    \* the page and the server in a restart
  update,     \* the update check is under way
  dops        \* what the user has done so far

dialogServer == <<accounts, keys, apiKey>>
dialogLists == <<fetching, userList, keyList>>
dialogPage == <<form, creating, issued, restart, update>>
dialogVars == <<dialog, asks, dialogServer, dialogLists, dialogPage, dops>>

\* What may be asked, and about whom.
Subject == [op : {"delete user", "reset password"}, of : Users]
             \cup [op : {"delete passkey", "rename passkey"}, of : Keys]
             \cup [op : {"register", "delete key", "new key", "restore", "restart", "update", "paste"}, of : {Nobody}]
AskIds == 1..(MaxDialogOps + 1)

DialogsInit ==
  /\ dialog = [show |-> FALSE, what |-> [op |-> "update", of |-> Nobody], resolve |-> 1]
  /\ asks = {}
  /\ userList \in SUBSET Users /\ keys \in SUBSET Keys
  /\ accounts \in SUBSET userList   \* some were deleted on another page since
  /\ apiKey = [server |-> TRUE, page |-> TRUE]
  /\ fetching = {} /\ keyList = keys
  /\ form = Nobody /\ creating = [who |-> Nobody, done |-> FALSE]
  /\ issued = [show |-> FALSE, who |-> Nobody, password |-> Nobody]
  /\ restart = [page |-> "running", server |-> "old"]
  /\ update = TRUE /\ dops = 0

DialogDoes == dops < MaxDialogOps /\ dops' = dops + 1
Moved(a, step) == (asks \ {a}) \cup {[a EXCEPT !.step = step]}
Clear == ~(dialog.show \/ issued.show)   \* nothing lies over the page

-----------------------------------------------------------------------------
(* The dialog *)

NextId == CHOOSE i \in AskIds : \A a \in asks : a.id # i
Asked(what) == [id |-> NextId, what |-> what, step |-> "asked"]
\* showUIModal overwrites the slot, resolver included.
ShowUIModalKeeping(what) ==                                                 \* a mutant
  /\ dialog' = [show |-> TRUE, what |-> what,
                resolve |-> IF dialog.show THEN dialog.resolve ELSE NextId]
  /\ asks' = asks \cup {Asked(what)}
ShowUIModal(what) ==
  /\ dialog' = [show |-> TRUE, what |-> what, resolve |-> NextId]
  /\ asks' = asks \cup {Asked(what)}

\* The buttons there are: one for each user and passkey listed, one for the key there is.
Offered(what) ==
  /\ what.op \notin {"update", "new key"}
  /\ what.op \in {"delete user", "reset password"} => what.of \in userList
  /\ what.op \in {"delete passkey", "rename passkey"} => what.of \in keyList
  /\ what.op = "delete key" => apiKey.page
  /\ what.op = "restart" => restart.page = "running"
Ask(what) ==
  /\ DialogDoes /\ Offered(what)
  /\ what.op = "paste" \/ Clear
  /\ ShowUIModal(what)
  /\ UNCHANGED <<dialogServer, dialogLists, dialogPage>>

\* closeUIModal, and the operation it resumes: it returns, or goes on to send its request.
\* A changelog and a list of files to upload need none.  The credentials lie over the dialog,
\* where only the Enter key of a prompt reaches it.
Answer(yes) ==
  LET mine == {a \in asks : a.id = dialog.resolve /\ a.step = "asked"} IN
  /\ DialogDoes /\ dialog.show
  /\ issued.show => yes /\ dialog.what.op \in {"register", "rename passkey"}
  /\ dialog' = [dialog EXCEPT !.show = FALSE]
  /\ asks' = (asks \ mine) \cup
       {[a EXCEPT !.step = IF a.what.op \in {"update", "paste"} THEN "done" ELSE "sent"] :
          a \in {b \in mine : yes}}
  /\ restart' = IF yes /\ \E a \in mine : a.what.op = "restart"
                  THEN [restart EXCEPT !.page = "asking"] ELSE restart
  /\ UNCHANGED <<dialogServer, dialogLists, form, creating, issued, update>>

\* checkUpdate: the answer of GitHub opens a dialog, unless there is nothing new.
CheckUpdate ==
  /\ update /\ update' = FALSE
  /\ \/ ShowUIModal([op |-> "update", of |-> Nobody])
     \/ UNCHANGED <<dialog, asks>>
  /\ UNCHANGED <<dialogServer, dialogLists, form, creating, issued, restart, dops>>

-----------------------------------------------------------------------------
(* What the server does for a request, and what the page does with its answer *)

\* deleteUser, resetUserPassword, deletePasskey, renamePasskey, registerPasskey (which adds a
\* key after a dialog of the browser's own) and the making and deleting of the API key.  No
\* handler looks whether the row it names is there: a password issued for a user that is gone
\* is answered like any other, and is nobody's.
InVain(a) == a.what.op = "reset password" /\ a.what.of \notin accounts
Serve(a) ==
  /\ a.step = "sent" /\ restart.server # "down"
  /\ asks' = Moved(a, IF InVain(a) THEN "in vain" ELSE "served")
  /\ CASE a.what.op = "delete user" -> accounts' = accounts \ {a.what.of} /\ UNCHANGED <<keys, apiKey>>
       [] a.what.op = "delete passkey" -> keys' = keys \ {a.what.of} /\ UNCHANGED <<accounts, apiKey>>
       [] a.what.op \in {"delete key", "new key"} -> /\ apiKey' = [apiKey EXCEPT !.server = a.what.op = "new key"]
                                                     /\ UNCHANGED <<accounts, keys>>
       [] a.what.op = "register" -> UNCHANGED <<accounts, apiKey>> /\ \E k \in Keys \ keys : keys' = keys \cup {k}
       [] OTHER -> a.what.op \in {"reset password", "rename passkey"} /\ UNCHANGED dialogServer
  /\ UNCHANGED <<dialog, dialogLists, dialogPage, dops>>

\* fetchUsers and fetchPasskeys ask for a list, whose answer may come after a later one's.
ListOf(of) == [of |-> of, read |-> FALSE, list |-> {}]
PasswordOf(a) == IF a.step = "in vain" THEN Nobody ELSE a.what.of
Credentials(who, password) == [show |-> TRUE, who |-> who, password |-> password]
Answered(a) ==
  /\ a.step \in {"served", "in vain"} /\ asks' = asks \ {a}
  /\ CASE a.what.op = "delete user" -> fetching' = fetching \cup {ListOf("users")} /\ UNCHANGED <<apiKey, issued>>
       [] a.what.op \in {"delete key", "new key"} -> /\ apiKey' = [apiKey EXCEPT !.page = a.what.op = "new key"]
                                                     /\ UNCHANGED <<fetching, issued>>
       [] a.what.op = "reset password" -> /\ issued' = Credentials(a.what.of, PasswordOf(a))
                                          /\ UNCHANGED <<fetching, apiKey>>
       [] OTHER -> fetching' = fetching \cup {ListOf("passkeys")} /\ UNCHANGED <<apiKey, issued>>
  /\ UNCHANGED <<dialog, accounts, keys, userList, keyList, form, creating, restart, update, dops>>
\* The server refused, or the answer was lost: the user sees a message.
Refused(a) ==
  /\ a.step \in {"sent", "served", "in vain"} /\ asks' = asks \ {a}
  /\ IF a.what.op # "restart" THEN UNCHANGED restart
     ELSE \E s \in {restart.server, "stopping"} : restart' = [page |-> "running", server |-> s]
  /\ UNCHANGED <<dialog, dialogServer, dialogLists, form, creating, issued, update, dops>>

ListRead(f) ==
  /\ f \in fetching /\ ~f.read /\ restart.server # "down"
  /\ fetching' = (fetching \ {f}) \cup
       {[f EXCEPT !.read = TRUE, !.list = IF f.of = "users" THEN accounts ELSE keys]}
  /\ UNCHANGED <<dialog, asks, dialogServer, userList, keyList, dialogPage, dops>>
\* A list of passkeys that fails empties the page's; one of users leaves it.
ListArrives(f, ok) ==
  /\ f \in fetching /\ ok => f.read
  /\ fetching' = fetching \ {f}
  /\ userList' = IF f.of = "users" /\ ok THEN f.list ELSE userList
  /\ keyList' = IF f.of = "users" THEN keyList ELSE IF ok THEN f.list ELSE {}
  /\ UNCHANGED <<dialog, asks, dialogServer, dialogPage, dops>>
\* regenerateAPIKey, of the button or of toggleUploadAPI when there is no key.
RegenerateAPIKey ==
  /\ DialogDoes /\ Clear
  /\ asks' = asks \cup {[id |-> NextId, what |-> [op |-> "new key", of |-> Nobody], step |-> "sent"]}
  /\ UNCHANGED <<dialog, dialogServer, dialogLists, dialogPage>>
OpenUsers ==
  /\ DialogDoes /\ Clear
  /\ fetching' = fetching \cup {ListOf("users")}
  /\ UNCHANGED <<dialog, asks, dialogServer, userList, keyList, dialogPage>>

-----------------------------------------------------------------------------
(* createUser *)

TypeName(u) ==
  /\ DialogDoes /\ Clear
  /\ u # form /\ form' = u
  /\ UNCHANGED <<dialog, asks, dialogServer, dialogLists, creating, issued, restart, update>>
\* The name is taken when the button is clicked, which it stays until the answer.
CreateUser ==
  /\ DialogDoes /\ Clear
  /\ creating.who = Nobody /\ form # Nobody
  /\ creating' = [who |-> form, done |-> FALSE]
  /\ UNCHANGED <<dialog, asks, dialogServer, dialogLists, form, issued, restart, update>>
CreateServed ==
  /\ creating.who \notin accounts \cup {Nobody} /\ ~creating.done /\ restart.server # "down"
  /\ accounts' = accounts \cup {creating.who}
  /\ creating' = [creating EXCEPT !.done = TRUE]
  /\ UNCHANGED <<dialog, asks, keys, apiKey, dialogLists, form, issued, restart, update, dops>>
CreateAnsweredFromForm ==                                                   \* a mutant
  /\ creating.done /\ creating' = [who |-> Nobody, done |-> FALSE]
  /\ form' = Nobody /\ fetching' = fetching \cup {ListOf("users")}
  /\ issued' = Credentials(form, creating.who)
  /\ UNCHANGED <<dialog, asks, dialogServer, userList, keyList, restart, update, dops>>
CreateAnswered ==
  /\ creating.done /\ creating' = [who |-> Nobody, done |-> FALSE]
  /\ form' = Nobody /\ fetching' = fetching \cup {ListOf("users")}
  /\ issued' = Credentials(creating.who, creating.who)
  /\ UNCHANGED <<dialog, asks, dialogServer, userList, keyList, restart, update, dops>>
CreateFails ==
  /\ creating.who # Nobody /\ creating' = [who |-> Nobody, done |-> FALSE]
  /\ UNCHANGED <<dialog, asks, dialogServer, dialogLists, form, issued, restart, update, dops>>
CloseCredentials ==
  /\ DialogDoes /\ issued.show
  /\ issued' = [issued EXCEPT !.show = FALSE]
  /\ UNCHANGED <<dialog, asks, dialogServer, dialogLists, form, creating, restart, update>>

-----------------------------------------------------------------------------
(* restartApp and triggerRestore: the page is loaded again in the end *)

\* The server answers, and stops after it; restartApp polls it three seconds later.
RestartAnswered(a) ==
  /\ a.what.op = "restart" /\ a.step = "sent" /\ asks' = asks \ {a}
  /\ restart' = [page |-> "polling", server |-> "stopping"]
  /\ UNCHANGED <<dialog, dialogServer, dialogLists, form, creating, issued, update, dops>>
ServerRestarts ==
  /\ restart.server \in {"stopping", "down"}
  /\ restart' = [restart EXCEPT !.server = IF @ = "stopping" THEN "down" ELSE "new"]
  /\ UNCHANGED <<dialog, asks, dialogServer, dialogLists, form, creating, issued, update, dops>>
\* Any server that answers will do, the one that has not stopped yet too.
Polled ==
  /\ restart.page = "polling" /\ restart.server # "down"
  /\ restart' = [restart EXCEPT !.page = "reloading"]
  /\ UNCHANGED <<dialog, asks, dialogServer, dialogLists, form, creating, issued, update, dops>>
RestoreAnswered(a) ==
  /\ a.what.op = "restore" /\ a.step = "sent" /\ asks' = asks \ {a}
  /\ restart' = [page |-> "reloading", server |-> "stopping"]
  /\ accounts' \in SUBSET Users /\ keys' \in SUBSET Keys   \* those of the backup
  /\ UNCHANGED <<dialog, apiKey, dialogLists, form, creating, issued, update, dops>>
\* location.reload: nothing that was open or awaited is left.
Reload ==
  /\ restart.page = "reloading" /\ restart.server # "down"
  /\ restart' = [restart EXCEPT !.page = "running"]
  /\ dialog' = [dialog EXCEPT !.show = FALSE] /\ asks' = {}
  /\ userList' = {} /\ keyList' = {} /\ fetching' = {ListOf("passkeys")}
  /\ apiKey' = [apiKey EXCEPT !.page = apiKey.server]
  /\ form' = Nobody /\ creating' = [who |-> Nobody, done |-> FALSE]
  /\ issued' = [show |-> FALSE, who |-> Nobody, password |-> Nobody]
  /\ update' = TRUE
  /\ UNCHANGED <<accounts, keys, dops>>

-----------------------------------------------------------------------------
DialogsNext ==
  \/ \E what \in Subject : Ask(what)
  \/ \E yes \in BOOLEAN : Answer(yes)
  \/ CheckUpdate
  \/ \E a \in asks : Serve(a) \/ Answered(a) \/ Refused(a) \/ RestartAnswered(a) \/ RestoreAnswered(a)
  \/ \E f \in fetching : ListRead(f) \/ \E ok \in BOOLEAN : ListArrives(f, ok)
  \/ OpenUsers \/ RegenerateAPIKey
  \/ \E u \in Users : TypeName(u)
  \/ CreateUser \/ CreateServed \/ CreateAnswered \/ CreateFails \/ CloseCredentials
  \/ ServerRestarts \/ Polled \/ Reload

DialogsTypeOK ==
  /\ dialog.what \in Subject /\ dialog.resolve \in AskIds
  /\ \A a \in asks : a.what \in Subject /\ a.step \in {"asked", "sent", "served", "in vain", "done"}
  /\ \A a, b \in asks : a.id = b.id => a = b
  /\ accounts \cup userList \subseteq Users /\ keys \cup keyList \subseteq Keys
  /\ {form, creating.who, issued.who, issued.password} \subseteq Users \cup {Nobody}

\* An operation goes on only when the user confirms the dialog in which it was asked, although
\* another dialog may have taken its place (showUIModal, closeUIModal).
ConfirmedOnly ==
  [][\A a \in asks : (a.step = "asked" /\ \E b \in asks' : b.id = a.id /\ b.step # "asked")
       => dialog.show /\ dialog.what = a.what /\ ~dialog'.show]_dialogVars

\* The password that is shown once is that of no other user than the one named beside it: while
\* createUser waits the form may change, and answers to resets come in between.  It is nobody's
\* when the user was deleted before the reset was served; it may since have been replaced.
PasswordOfItsUser == issued.show => issued.who # Nobody /\ issued.password \in {issued.who, Nobody}
=============================================================================
