--------------------------- MODULE MCArchiveCommit ---------------------------
(* Three runs in one directory. *)
EXTENDS ArchiveCommit
=============================================================================
