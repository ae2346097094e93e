--------------------------- MODULE MCLockManager ---------------------------
(* Instance of LockManager for TLC, and the mutants of its definitions.    *)
EXTENDS LockManager
=============================================================================
