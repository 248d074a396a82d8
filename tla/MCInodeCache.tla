---------------------------- MODULE MCInodeCache ----------------------------
(* Small instances of InodeCache for TLC. *)
EXTENDS InodeCache
============================================================================
