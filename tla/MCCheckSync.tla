---------------------------- MODULE MCCheckSync ----------------------------
(* Small instances of CheckSync for TLC. *)
EXTENDS CheckSync

CONSTANTS idle, main

MCProcs == Phil \cup {idle, main}
MCConds == Phil
============================================================================
