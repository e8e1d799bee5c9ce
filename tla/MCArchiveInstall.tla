--------------------------- MODULE MCArchiveInstall ---------------------------
(* Small instances of ArchiveInstall. *)
EXTENDS ArchiveInstall, TLC

Interchangeable == Permutations(Writers) \cup Permutations(Inodes)
=============================================================================
