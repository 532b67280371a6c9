----------------------------- MODULE MCFileLock -----------------------------
(* Small instances of FileLock for TLC. *)
EXTENDS FileLock, TLC

CONSTANTS p1, p2, p3
=============================================================================
