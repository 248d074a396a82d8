----------------------------- MODULE AddrSpaces -----------------------------
(***************************************************************************)
(* What the memory management promises to user programs: every process has *)
(* a memory of its own.  mem[p] tells for every virtual page of p what it  *)
(* contains and whether p can write it, or that it is not mapped.          *)
(***************************************************************************)
CONSTANTS Procs, VPages, Values, Unmapped

VARIABLES live,     \* the processes that exist
          mem

avars == <<live, mem>>

Spaces == [VPages -> [val : Values, w : BOOLEAN] \cup {Unmapped}]
Nothing == [v \in VPages |-> Unmapped]

Init == live \subseteq Procs /\ mem = [p \in Procs |-> Nothing]

(* The memory of p, and of nobody else, becomes new. *)
Becomes(p, new) == mem' = [mem EXCEPT ![p] = new]

(* exec takes away the old memory, and at some later time a program has been
   loaded. *)
Exec(p) == p \in live /\ Becomes(p, Nothing) /\ UNCHANGED live

Load(p) ==
    /\ p \in live /\ mem[p] = Nothing
    /\ mem'[p] \in Spaces /\ Becomes(p, mem'[p])
    /\ UNCHANGED live

(* The process, or a system call of it, writes pages that it may write. *)
Store(p) ==
    /\ p \in live
    /\ \A v \in VPages : \/ mem'[p][v] = mem[p][v]
                         \/ /\ mem[p][v] # Unmapped /\ mem[p][v].w
                            /\ \E x \in Values : mem'[p][v] = [val |-> x, w |-> TRUE]
    /\ Becomes(p, mem'[p])
    /\ UNCHANGED live

(* The child starts with the contents of its parent's memory. *)
Fork(p, child) ==
    /\ p \in live /\ child \notin live
    /\ live' = live \cup {child}
    /\ Becomes(child, mem[p])

Exit(p) == p \in live /\ live' = live \ {p} /\ Becomes(p, Nothing)

Next ==
    \E p \in Procs : \/ Exec(p) \/ Load(p) \/ Store(p) \/ Exit(p)
                     \/ \E child \in Procs : Fork(p, child)

Spec == Init /\ [][Next]_avars

============================================================================
