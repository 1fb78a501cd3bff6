---------------------------- MODULE MCUploadTasks ----------------------------
(* Small instances of UploadTasks. *)
EXTENDS UploadTasks, TLC

CONSTANTS w1, w2, w3, t1, t2

WorkerSymmetry == Permutations(Workers)
=============================================================================
