------------------------------ MODULE MCStdin ------------------------------
(* A small instance of Stdin for TLC. *)
EXTENDS Stdin

CONSTANTS u1, u2,       \* slots for user processes
          x             \* a letter
============================================================================
