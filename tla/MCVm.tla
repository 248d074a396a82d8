------------------------------- MODULE MCVm -------------------------------
(* A small instance of Vm for TLC. *)
EXTENDS Vm

CONSTANTS p1, p2

Seg(s, e, f) == [start |-> s, end |-> e, flags |-> f]

\* Text and data in one page table, and a large data segment (testbss.c).
Small == <<Seg(0, 1, "R"), Seg(1, 2, "RW")>>
Large == <<Seg(0, 1, "R"), Seg(2, 3, "RW")>>
MCPrograms == {Small, Large}
============================================================================
