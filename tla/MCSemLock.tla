----------------------------- MODULE MCSemLock -----------------------------
(* Small instances of SemLock for TLC. *)
EXTENDS SemLock
============================================================================
