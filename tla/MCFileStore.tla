----------------------------- MODULE MCFileStore -----------------------------
(* Small instances of FileStore. *)
EXTENDS FileStore, TLC

CONSTANTS u1, u2, u3, d1, d2, a, b, p1, p2

Ask(d, base, ow, n) == [dir |-> d, base |-> base, overwrite |-> ow, parts |-> n]

SingleJob == {Ask(d1, a, FALSE, 1)}
OverwriteSingles == {Ask(d1, a, TRUE, 1)}
PlainJobs == {Ask(d1, a, FALSE, n) : n \in 1 .. 2}
SomeJobs == PlainJobs \cup {Ask(d1, a, TRUE, 2)}
UploadSymmetry == Permutations(Uploads)
=============================================================================
