----------------------------- MODULE MCFirstFit -----------------------------
(* A small memory in which blocks of up to three pages come and go. *)
EXTENDS FirstFit
============================================================================
