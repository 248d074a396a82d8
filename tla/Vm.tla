--------------------------------- MODULE Vm ---------------------------------
(***************************************************************************)
(* The memory of user processes: the vma list of kern/mm/vmm.c and the     *)
(* page tables of kern/mm/pmm.c under the fork, exec and exit of           *)
(* kern/process/proc.c, up to the exhaustion of the physical memory.       *)
(*                                                                         *)
(* fork and exit run in the kernel with interrupts disabled: one step.     *)
(* load_icode reads the program from the disk and may sleep for it, so a   *)
(* process that loads a program does so page by page between the steps of  *)
(* the others.  The mm_structs and vma_structs come from kmalloc, which    *)
(* may fail; the program file may be unreadable at any place.              *)
(***************************************************************************)
EXTENDS PageTables, SequencesExt

CONSTANTS
    Procs,
    FirstProc,      \* the process that runs at the start
    Programs,       \* the programs: sequences of segments [start, end, flags]
    StackLow,       \* USTACKTOP - USTACKSIZE; USTACKTOP is the end of VPages
    StackPages,     \* the stack pages that load_icode allocates (4)
    Values,         \* contents of a page; 0 is what the program file holds
    MaxAccess,      \* the pages that one copy_to_user touches
    MaxSpaces       \* bound: the address spaces made, by fork or exec

USTACKTOP == Fan * Fan * Fan

Vmas == [start : VPages, end : 1 .. USTACKTOP, flags : {"R", "RW", "STACK"}]
AddressSpaces == [pgdir : Pages, mmap_list : Seq(Vmas)]

(* mm_map refuses a segment that is empty or exceeds the user's addresses. *)
ASSUME VmAssumption ==
    /\ FirstProc \in Procs /\ IsFiniteSet(Procs)
    /\ \A prog \in Programs :
          /\ prog \in Seq(Vmas)
          /\ \A i \in 1 .. Len(prog) : prog[i].start < prog[i].end /\ prog[i].flags # "STACK"
    /\ StackLow \in VPages /\ StackPages \in Nat /\ StackLow + StackPages \in VPages
    /\ 0 \in Values
    /\ NULL \notin Vmas /\ NULL \notin AddressSpaces /\ NULL \notin [val : Values, w : BOOLEAN]

VARIABLES
    m,              \* the physical memory, see module PageTables
    mm,             \* current->mm: [pgdir, mmap_list], or NULL
    todo,           \* the segments that load_icode has still to load
    state,          \* "none", "run", "load", "exec" (load_icode at its start)
    down,           \* the kernel has panicked or hangs
    made            \* counts the calls of setup_pgdir

vars == <<m, mm, todo, state, down, made>>

Init ==
    /\ m = EmptyMemory
    /\ mm = [p \in Procs |-> NULL]
    /\ todo = [p \in Procs |-> << >>]
    /\ state = [p \in Procs |-> IF p = FirstProc THEN "exec" ELSE "none"]
    /\ down = FALSE
    /\ made = 0

---------------------------------------------------------------------------
(* vmm.c                                                                   *)

Covers(vma, v) == vma.start <= v /\ v < vma.end

(* find_vma.  The code tries mmap_cache, the vma it found last, first; a vma
   stays in the list as long as the mm exists and overlaps no other, so the
   answer is the same without it. *)
find_vma(x, v) ==
    LET found == {i \in 1 .. Len(x.mmap_list) : Covers(x.mmap_list[i], v)}
    IN  IF found = {} THEN NULL ELSE x.mmap_list[Min(found)]

(* Mutant: the new vma is always linked at the end. *)
insert_pos_end(l, vma) == Len(l) + 1

(* The list is sorted: a vma goes before the first one that starts later. *)
insert_pos(l, vma) ==
    Min({i \in 1 .. Len(l) : l[i].start > vma.start} \cup {Len(l) + 1})

insert_vma_struct(x, vma) ==
    [x EXCEPT !.mmap_list = InsertAt(@, insert_pos(@, vma), vma)]

(* check_vma_overlap, for both neighbours. *)
Overlaps(l) == \E i \in 1 .. Len(l) - 1 : l[i].end > l[i + 1].start

unmap_all(m1, x) ==
    LET l == x.mmap_list
        done[i \in 0 .. Len(l)] ==
            IF i = 0 THEN m1 ELSE unmap_range(done[i - 1], x.pgdir, l[i].start, l[i].end)
    IN  done[Len(l)]

exit_all(m1, x) ==
    LET l == x.mmap_list
        done[i \in 0 .. Len(l)] ==
            IF i = 0 THEN m1 ELSE exit_range(done[i - 1], x.pgdir, l[i].start, l[i].end)
    IN  done[Len(l)]

(* Mutant: the tables are freed while they still map pages. *)
exit_mmap_tables_first(m1, x) == unmap_all(exit_all(m1, x), x)

(* exit_mmap: all mappings are removed before any table is freed. *)
exit_mmap(m1, x) == exit_all(unmap_all(m1, x), x)

(* exit_mmap, put_pgdir, mm_destroy *)
Release(m1, x) == free_page(exit_mmap(m1, x), x.pgdir)

(* dup_mmap copies the vmas of x to y from the last to the first and links the
   new one before it copies the pages.  kmalloc fails after n of them. *)
dup_vma(r, x, a) ==
    IF r.m.err # "none" THEN r
    ELSE [m |-> copy_range(r.m, r.y.pgdir, x.pgdir, a.start, a.end),
          y |-> insert_vma_struct(r.y, a)]

dup_mmap(m1, y, x, n) ==
    LET l == x.mmap_list
        done[i \in 0 .. n] == IF i = 0 THEN [m |-> m1, y |-> y]
                              ELSE dup_vma(done[i - 1], x, l[Len(l) - i + 1])
    IN  done[n]

Allows(vma, v, write) ==
    /\ vma # NULL
    /\ write => vma.flags \in {"RW", "STACK"}
    /\ write /\ vma.flags = "STACK" => v > vma.start

(* user_mem_check.  The code visits one page of every vma of the range, the
   other ones give the same answer. *)
user_mem_check(x, s, e, write) == \A v \in s .. e - 1 : Allows(find_vma(x, v), v, write)

---------------------------------------------------------------------------
(* proc.c                                                                  *)

Runs(p) == ~down /\ state[p] = "run"

(* The whole process is gone, its memory given back. *)
Ends(p, m1) ==
    /\ m' = m1
    /\ mm' = [mm EXCEPT ![p] = NULL]
    /\ todo' = [todo EXCEPT ![p] = << >>]
    /\ state' = [state EXCEPT ![p] = "none"]
    /\ down' = (m1.err = "panic")

(* copy_mm for the child q.  It fails when there is no page for the directory
   or a table, or when kmalloc has no vma_struct after n of them: then it
   takes back what it has copied.  It panics when a copy finds no page.
   Where copy_files fails behind it, the child goes (see module FileTable),
   but nothing gives back the memory that was copied for it. *)
do_fork(p, q) ==
    /\ Runs(p) /\ state[q] = "none" /\ m.free # {}
    /\ made < MaxSpaces /\ made' = made + 1
    /\ \E n \in 0 .. Len(mm[p].mmap_list) :
       LET dup == dup_mmap(Take(m), [pgdir |-> NextFree(m), mmap_list |-> << >>], mm[p], n)
       IN  IF dup.m.err = "none" /\ n = Len(mm[p].mmap_list)
           THEN /\ m' = dup.m
                /\ \/ /\ mm' = [mm EXCEPT ![q] = dup.y]
                      /\ state' = [state EXCEPT ![q] = "run"]
                   \/ UNCHANGED <<mm, state>>
                /\ UNCHANGED down
           ELSE /\ m' = IF dup.m.err = "panic" THEN dup.m
                        ELSE Release([dup.m EXCEPT !.err = "none"], dup.y)
                /\ down' = (m'.err = "panic")
                /\ UNCHANGED <<mm, state>>
    /\ UNCHANGED todo

do_exit(p) == Runs(p) /\ Ends(p, Release(m, mm[p])) /\ UNCHANGED made

(* do_execve gives up the old memory before load_icode makes a new one. *)
do_execve(p) ==
    /\ Runs(p) /\ made < MaxSpaces
    /\ m' = Release(m, mm[p])
    /\ mm' = [mm EXCEPT ![p] = NULL]
    /\ state' = [state EXCEPT ![p] = "exec"]
    /\ down' = (m'.err = "panic")
    /\ UNCHANGED <<todo, made>>

(* mm_create and setup_pgdir; the program is read. *)
load_icode(p, prog) ==
    /\ ~down /\ state[p] = "exec" /\ m.free # {}
    /\ made' = made + 1
    /\ m' = Take(m)
    /\ mm' = [mm EXCEPT ![p] = [pgdir |-> NextFree(m), mmap_list |-> << >>]]
    /\ todo' = [todo EXCEPT ![p] = prog]
    /\ state' = [state EXCEPT ![p] = "load"]
    /\ UNCHANGED down

(* mm_create finds no memory for the mm_struct, at any time, or setup_pgdir
   finds no page for the directory: load_icode fails before anything is mapped
   and do_execve ends in do_exit. *)
load_icode_no_pgdir(p) == ~down /\ state[p] = "exec" /\ Ends(p, m) /\ UNCHANGED made

(* mm_map of the segment a.  It compares a with the vma at its start only;
   an overlap that it misses meets the asserts of insert_vma_struct. *)
MapSegment(p, a) ==
    /\ find_vma(mm[p], a.start) = NULL
    /\ mm' = [mm EXCEPT ![p] = insert_vma_struct(@, a)]
    /\ down' = Overlaps(mm'[p].mmap_list)

Segment(p) == Head(todo[p])
Loading(p) == ~down /\ state[p] = "load" /\ todo[p] # << >>

load_map(p) ==
    /\ Loading(p) /\ ~Contains(mm[p].mmap_list, Segment(p))
    /\ MapSegment(p, Segment(p))
    /\ UNCHANGED <<m, todo, state, made>>

(* The pages of the segment that load_icode has allocated so far. *)
Loaded(p) ==
    {v \in Segment(p).start .. Segment(p).end - 1 : Pte(m, mm[p].pgdir, v) # NULL}

(* pgdir_alloc_page for the next page of the segment, and the read or the
   memset that fills it. *)
load_page(p) ==
    /\ Loading(p) /\ Contains(mm[p].mmap_list, Segment(p))
    /\ Segment(p).start + Cardinality(Loaded(p)) < Segment(p).end
    /\ LET v  == Segment(p).start + Cardinality(Loaded(p))
           m1 == pgdir_alloc_page(m, mm[p].pgdir, v, Segment(p).flags = "RW")
       IN  IF m1.err = "none"
           THEN /\ m' = m1
                /\ todo' = [todo EXCEPT ![p] = IF v + 1 = Segment(p).end THEN Tail(@) ELSE @]
                /\ UNCHANGED <<mm, state, down>>
           ELSE Ends(p, Release([m1 EXCEPT !.err = "none"], mm[p]))
    /\ UNCHANGED made

(* A header or a page cannot be read, mm_map refuses the segment or the stack,
   or kmalloc fails: bad_cleanup_mmap. *)
load_fails(p) ==
    ~down /\ state[p] = "load" /\ Ends(p, Release(m, mm[p])) /\ UNCHANGED made

StackVma == [start |-> StackLow, end |-> USTACKTOP, flags |-> "STACK"]

alloc_stack_page(m1, dir, v) ==
    IF m1.err # "none" THEN m1 ELSE pgdir_alloc_page(m1, dir, v, TRUE)

alloc_stack(m1, dir) ==
    LET done[i \in 0 .. StackPages] ==
            IF i = 0 THEN m1 ELSE alloc_stack_page(done[i - 1], dir, USTACKTOP - i)
    IN  done[StackPages]

(* The pages of p's virtual pages s, ..., e - 1. *)
PagesAt(m1, dir, s, e) == {Pte(m1, dir, v).pg : v \in s .. e - 1}

(* The pages in the domain of new get new contents. *)
Filled(m1, new) ==
    [m1 EXCEPT !.data = [g \in Pages |-> IF g \in DOMAIN new THEN new[g] ELSE m1.data[g]]]

(* The stack: its pages are allocated from the top and not cleared, so each
   holds what its last user left in it, or the arguments of the program.  No
   page is an assert.  Up to 32 arguments of a page each are accepted; where
   they do not fit into the pages that were allocated, the kernel faults for
   ever, see copy_to_user. *)
load_stack(p) ==
    /\ ~down /\ state[p] = "load" /\ todo[p] = << >>
    /\ find_vma(mm[p], StackLow) = NULL
    /\ mm' = [mm EXCEPT ![p] = insert_vma_struct(@, StackVma)]
    /\ LET m1 == alloc_stack(m, mm[p].pgdir)
       IN  IF Overlaps(mm'[p].mmap_list) THEN UNCHANGED m /\ down' = TRUE
           ELSE IF m1.err # "none" THEN m' = m1 /\ down' = TRUE
           ELSE \E old \in [PagesAt(m1, mm[p].pgdir, USTACKTOP - StackPages, USTACKTOP) -> Values],
                   fit \in BOOLEAN : m' = Filled(m1, old) /\ down' = ~fit
    /\ state' = [state EXCEPT ![p] = "run"]
    /\ UNCHANGED <<todo, made>>

Writable(p, v) == Pte(m, mm[p].pgdir, v) # NULL /\ Pte(m, mm[p].pgdir, v).w

(* The process writes its memory. *)
store(p, v, val) ==
    /\ Runs(p) /\ Writable(p, v)
    /\ m' = [m EXCEPT !.data[Pte(m, mm[p].pgdir, v).pg] = val]
    /\ UNCHANGED <<mm, todo, state, down, made>>

(* A system call writes the pages s, ..., e - 1 for p.  Where user_mem_check
   consents and a page is not mapped for writing, the kernel faults for ever:
   exception_handler returns to the instruction that faulted. *)
copy_to_user(p, s, e) ==
    /\ Runs(p) /\ e <= USTACKTOP
    /\ user_mem_check(mm[p], s, e, TRUE)
    /\ IF \A v \in s .. e - 1 : Writable(p, v)
       THEN /\ \E val \in Values :
                  m' = Filled(m, [g \in PagesAt(m, mm[p].pgdir, s, e) |-> val])
            /\ UNCHANGED down
       ELSE down' = TRUE /\ UNCHANGED m
    /\ UNCHANGED <<mm, todo, state, made>>

(* The kernel is down, or the last process has ended. *)
Halted == (down \/ \A p \in Procs : state[p] = "none") /\ UNCHANGED vars

Next ==
    \/ \E p \in Procs :
          \/ \E q \in Procs : do_fork(p, q)
          \/ do_exit(p) \/ do_execve(p)
          \/ \E prog \in Programs : load_icode(p, prog)
          \/ load_icode_no_pgdir(p) \/ load_map(p) \/ load_page(p) \/ load_fails(p) \/ load_stack(p)
          \/ \E v \in VPages, val \in Values : store(p, v, val)
          \/ \E s \in VPages, len \in 1 .. MaxAccess : copy_to_user(p, s, s + len)
    \/ Halted

Spec == Init /\ [][Next]_vars

---------------------------------------------------------------------------
(* The pages that are page tables of the address space x. *)
Below(g) == {m.ent[g][i].pg : i \in {j \in 0 .. Fan - 1 : m.ent[g][j] # NULL}}
Pd0s(x) == Below(x.pgdir)
Tables(x) == {x.pgdir} \cup Pd0s(x) \cup UNION {Below(g) : g \in Pd0s(x)}
Leaves(x) == UNION {Below(t) : t \in UNION {Below(g) : g \in Pd0s(x)}}

Spaces == {mm[p] : p \in Procs} \ {NULL}

(* The valid entries of all page tables, as triples of table, index and the
   page they point to. *)
Pointers ==
    {<<e[1], e[2], m.ent[e[1]][e[2]].pg>> : e \in
        {e \in (UNION {Tables(x) : x \in Spaces}) \X (0 .. Fan - 1) : m.ent[e[1]][e[2]] # NULL}}

(* No page has two uses, in one address space or in two, and none is free
   while it has one; page->ref counts the entries that point to it. *)
PagesOwned ==
    ~down => LET dirs == {x.pgdir : x \in Spaces}
                 ptrs == Pointers
                 used == {e[3] : e \in ptrs}
             IN  /\ Cardinality(dirs) = Cardinality({p \in Procs : mm[p] # NULL})
                 /\ Cardinality(used) = Cardinality(ptrs)
                 /\ dirs \cap used = {}
                 /\ (dirs \cup used) \cap m.free = {}
                 /\ \A g \in used : m.ref[g] = 1

(* The vmas are sorted and disjoint and say
   what is mapped: no page outside them, so that exit_mmap finds every page,
   and, once the program runs, every page of a segment with the rights of
   the segment. *)
VmaMapped ==
    ~down => \A p \in Procs : mm[p] # NULL =>
       LET l == mm[p].mmap_list
       IN  /\ \A i, j \in 1 .. Len(l) : i < j => l[i].end <= l[j].start
           /\ \A v \in VPages :
                LET pte == Pte(m, mm[p].pgdir, v)
                    in  == {i \in 1 .. Len(l) : Covers(l[i], v)}
                IN  /\ pte # NULL => in # {}
                    /\ \A i \in in : /\ pte # NULL => (pte.w <=> l[i].flags # "R")
                                     /\ state[p] = "run" /\ l[i].flags # "STACK" => pte # NULL

(* exit_mmap loses no page of a process: a page that was mapped and is not
   any more is free again. *)
LeavesFreed ==
    [][~down' => \A x \in Spaces : \A g \in Leaves(x) :
                    g \in m'.free \/ \E x2 \in Spaces' : g \in Leaves(x2)']_vars

Seen(p) ==
    IF state[p] # "run" THEN [v \in VPages |-> NULL]
    ELSE [v \in VPages |->
             LET pte == Pte(m, mm[p].pgdir, v)
             IN  IF pte = NULL THEN NULL ELSE [val |-> m.data[pte.pg], w |-> pte.w]]

Abstract == INSTANCE AddrSpaces WITH
    live <- {p \in Procs : state[p] # "none"}, mem <- [p \in Procs |-> Seen(p)], Unmapped <- NULL

(* Every process has a memory of its own: a store changes nothing that another
   process sees, a child starts with its parent's contents, an exit or an exec
   of one process leaves the others alone. *)
MemorySpec == Abstract!Spec

(* exit_range: "free level 0 page directory only when all pde0s in it are
   already invalid"; then no page table is left allocated without being part
   of an address space.  The code looks only at the entries of the range. *)
TablesFreed ==
    ~down => \A g \in Pages \ m.free : g \in UNION {Tables(x) \cup Leaves(x) : x \in Spaces}

============================================================================
