----------------------------- MODULE TaskPromise ----------------------------
(***************************************************************************)
(* What the task registry promises a client that looks at a task: a task   *)
(* runs, and ends done, failed or cancelled; done is shown for a stored    *)
(* file only; a task that is done or cancelled does not run again under    *)
(* the eyes of the client, except by being forgotten first; one that       *)
(* failed may, when it is retried (the comment on the guard of             *)
(* UpdateTaskWithFile; that the guard never lets it is RetryShown of       *)
(* UploadTasks).                                                           *)
(***************************************************************************)
CONSTANT Tasks   \* task ids

VARIABLES
  shown,   \* what a client sees of each task
  kept     \* tasks whose file is stored

promiseVars == <<shown, kept>>

Init == shown = [t \in Tasks |-> "none"] /\ kept = {}

Shows(t, s) == shown' = [shown EXCEPT ![t] = s] /\ UNCHANGED kept

Run(t) == shown[t] \in {"none", "running", "error"} /\ Shows(t, "running")
Store(t) == kept' = kept \cup {t} /\ UNCHANGED shown
Finish(t) == t \in kept /\ Shows(t, "done")
\* A late failure or cancellation may be what is seen last, also of a stored file.
EndBadly(t) == \E s \in {"error", "cancelled"} : Shows(t, s)
Forget(t) == Shows(t, "none")

Next == \E t \in Tasks : Run(t) \/ Store(t) \/ Finish(t) \/ EndBadly(t) \/ Forget(t)

Spec == Init /\ [][Next]_promiseVars
=============================================================================
