-------------------------- MODULE MCFsTransaction --------------------------
(* Small instances of FsTransaction. *)
EXTENDS FsTransaction, TLC

CONSTANTS t1, t2, f1, f2

\* Two transactions meet on one file, and one of them has another.
SharedFile == t1 :> {f1, f2} @@ t2 :> {f2}
SingleFiles == t1 :> {f1} @@ t2 :> {}

Interchangeable == Permutations(Procs)
=============================================================================
