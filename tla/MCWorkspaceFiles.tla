--------------------------- MODULE MCWorkspaceFiles ---------------------------
(* A small instance of WorkspaceFiles. *)
EXTENDS WorkspaceFiles, TLC

Interchangeable == Permutations(Procs) \cup Permutations(Entries)
=============================================================================
