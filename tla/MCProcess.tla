----------------------------- MODULE MCProcess -----------------------------
(* Small instances of Process for TLC. *)
EXTENDS Process, TLC

CONSTANTS u1, u2, u3,   \* slots for user processes
          kt            \* a kernel thread

\* The slots that are free at the start are interchangeable.
Slots == Permutations({u2, u3})
============================================================================
