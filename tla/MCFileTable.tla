---------------------------- MODULE MCFileTable ----------------------------
(* Small instances of FileTable for TLC. *)
EXTENDS FileTable, TLC

MCSymmetry == Permutations(Procs \ {InitProc}) \cup Permutations(Tables)
============================================================================
