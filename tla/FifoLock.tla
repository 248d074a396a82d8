------------------------------ MODULE FifoLock ------------------------------
(***************************************************************************)
(* What a semaphore that is used as a lock promises: at most Permits       *)
(* processes hold it, no permit lies idle while somebody waits, and those  *)
(* who wait are served in the order in which they came.                    *)
(***************************************************************************)
EXTENDS Integers, Sequences, FiniteSets

CONSTANTS Procs, Permits

VARIABLES
    holding,    \* the processes that have a permit
    waiting     \* those that wait for one, in the order of their requests

fvars == <<holding, waiting>>

Waits(p) == \E i \in 1 .. Len(waiting) : waiting[i] = p

Init == holding = {} /\ waiting = << >>

Acquire(p) ==
    /\ p \notin holding /\ waiting = << >>
    /\ Cardinality(holding) < Permits
    /\ holding' = holding \cup {p}
    /\ UNCHANGED waiting

Request(p) ==
    /\ p \notin holding /\ ~Waits(p)
    /\ Cardinality(holding) = Permits
    /\ waiting' = Append(waiting, p)
    /\ UNCHANGED holding

Release(p) ==
    /\ p \in holding
    /\ IF waiting = << >>
       THEN holding' = holding \ {p} /\ UNCHANGED waiting
       ELSE holding' = (holding \ {p}) \cup {Head(waiting)} /\ waiting' = Tail(waiting)

Next == \E p \in Procs : Acquire(p) \/ Request(p) \/ Release(p)

Spec == Init /\ [][Next]_fvars

============================================================================
