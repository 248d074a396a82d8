----------------------------- MODULE PageTables -----------------------------
(***************************************************************************)
(* The three-level page tables of kern/mm/pmm.c as operators on a record m *)
(* of the physical memory:                                                 *)
(*                                                                         *)
(*   m.free   the pages alloc_page can hand out                            *)
(*   m.ref    page->ref                                                    *)
(*   m.ent    the entries of a page used as a page table: NULL when PTE_V  *)
(*            is clear, else the page it points to and its PTE_W bit       *)
(*   m.data   the contents of a page used by a process                     *)
(*   m.err    "E_NO_MEM" or "panic" when a step has failed                 *)
(*                                                                         *)
(* A table has Fan entries instead of 512; a virtual page is a number.     *)
(* Which free page alloc_page returns is the subject of module FirstFit;   *)
(* here it is the lowest.  A free page keeps no contents: what alloc_page  *)
(* returns is cleared, copied over or, for a stack, arbitrary.             *)
(***************************************************************************)
EXTENDS Integers, FiniteSetsExt

CONSTANTS NPages,   \* physical pages
          Fan,      \* entries of a table (512)
          NULL

Pages == 1 .. NPages
Entries == [pg : Pages, w : BOOLEAN]

ASSUME PagesAssumption ==
    NPages \in Nat \ {0} /\ Fan \in Nat \ {0} /\ NULL \notin Int /\ NULL \notin Entries

VPages == 0 .. Fan * Fan * Fan - 1

PDX1(v) == (v \div Fan) \div Fan
PDX0(v) == (v \div Fan) % Fan
PTX(v) == v % Fan

NoEntries == [i \in 0 .. Fan - 1 |-> NULL]

EmptyMemory ==
    [free |-> Pages, ref |-> [g \in Pages |-> 0], ent |-> [g \in Pages |-> NoEntries],
     data |-> [g \in Pages |-> 0], err |-> "none"]

NextFree(m) == Min(m.free)
Take(m) == [m EXCEPT !.free = @ \ {NextFree(m)}]

(* free_page: the assert of default_free_pages stops a second free. *)
free_page(m, g) ==
    [m EXCEPT !.free = @ \cup {g}, !.ref[g] = 0, !.ent[g] = NoEntries, !.data[g] = 0,
              !.err = IF g \in m.free THEN "panic" ELSE @]

---------------------------------------------------------------------------
(* get_pte without create: the page table with the entry of v, or NULL. *)
TableOf(m, dir, v) ==
    LET pd0 == m.ent[dir][PDX1(v)]
    IN  IF pd0 = NULL \/ m.ent[pd0.pg][PDX0(v)] = NULL THEN NULL
        ELSE m.ent[pd0.pg][PDX0(v)].pg

(* get_page, with the entry instead of the page. *)
Pte(m, dir, v) ==
    IF TableOf(m, dir, v) = NULL THEN NULL ELSE m.ent[TableOf(m, dir, v)][PTX(v)]

(* Entry i of a directory gets a table unless it has one. *)
AddTable(m, dir, i) ==
    IF m.ent[dir][i] # NULL \/ m.free = {} THEN m
    ELSE [Take(m) EXCEPT !.ref[NextFree(m)] = 1,
                         !.ent[dir][i] = [pg |-> NextFree(m), w |-> FALSE]]

(* get_pte with create: there is a table for v afterwards, unless the memory
   is exhausted. *)
get_pte(m, dir, v) ==
    LET m1 == AddTable(m, dir, PDX1(v))
    IN  IF m1.ent[dir][PDX1(v)] = NULL THEN m1
        ELSE AddTable(m1, m1.ent[dir][PDX1(v)].pg, PDX0(v))

page_remove_pte(m, dir, v) ==
    LET t == TableOf(m, dir, v)
        g == m.ent[t][PTX(v)].pg
        m1 == [m EXCEPT !.ref[g] = @ - 1, !.ent[t][PTX(v)] = NULL]
    IN  IF m1.ref[g] = 0 THEN free_page(m1, g) ELSE m1

page_insert(m, dir, g, v, w) ==
    LET m1  == get_pte(m, dir, v)
        old == Pte(m1, dir, v)
        m2  == [m1 EXCEPT !.ref[g] = @ + 1]
        m3  == IF old = NULL THEN m2
               ELSE IF old.pg = g THEN m1
               ELSE page_remove_pte(m2, dir, v)
    IN  IF TableOf(m1, dir, v) = NULL THEN [m1 EXCEPT !.err = "E_NO_MEM"]
        ELSE [m3 EXCEPT !.ent[TableOf(m1, dir, v)][PTX(v)] = [pg |-> g, w |-> w]]

(* The page is given back when there is no table for it. *)
pgdir_alloc_page(m, dir, v, w) ==
    IF m.free = {} THEN [m EXCEPT !.err = "E_NO_MEM"]
    ELSE LET m1 == page_insert(Take(m), dir, NextFree(m), v, w)
         IN  IF m1.err = "none" THEN m1 ELSE free_page(m1, NextFree(m))

unmap_page(m, dir, v) == IF Pte(m, dir, v) = NULL THEN m ELSE page_remove_pte(m, dir, v)

(* In the loops over an address range at[v] is the memory when the loop has
   come to the page v. *)
unmap_range(m, dir, s, e) ==
    LET at[v \in s .. e] == IF v = s THEN m ELSE unmap_page(at[v - 1], dir, v - 1)
    IN  at[e]

(* The table of entry i of the level 0 directory pd0 is freed when it is empty. *)
exit_table(m, pd0, i) ==
    IF m.ent[pd0][i] # NULL /\ m.ent[m.ent[pd0][i].pg] = NoEntries
    THEN free_page([m EXCEPT !.ent[pd0][i] = NULL], m.ent[pd0][i].pg)
    ELSE m

exit_tables(m, pd0, visited) ==
    LET at[i \in 0 .. Fan] == IF i = 0 THEN m
                              ELSE IF i - 1 \in visited THEN exit_table(at[i - 1], pd0, i - 1)
                              ELSE at[i - 1]
    IN  at[Fan]

(* The outer loop of exit_range for one entry d of the page directory.  It
   visits the entries of the level 0 directory that belong to the range and
   frees their tables if they are empty; it frees the directory itself when
   each of these entries had a table, whatever became of it and whatever the
   other entries hold. *)
exit_region(m, dir, d, s, e) ==
    IF m.ent[dir][d] = NULL THEN m
    ELSE LET pd0     == m.ent[dir][d].pg
             visited == {i \in 0 .. Fan - 1 : d * Fan + i \in (s \div Fan) .. ((e - 1) \div Fan)}
             tables  == exit_tables(m, pd0, visited)
         IN  IF \A i \in visited : m.ent[pd0][i] # NULL
             THEN free_page([tables EXCEPT !.ent[dir][d] = NULL], pd0)
             ELSE tables

exit_range(m, dir, s, e) ==
    LET at[d \in PDX1(s) .. PDX1(e - 1) + 1] ==
            IF d = PDX1(s) THEN m ELSE exit_region(at[d - 1], dir, d - 1, s, e)
    IN  at[PDX1(e - 1) + 1]

(* Mutants: the parent's page is mapped instead of the copy; the contents are
   not copied. *)
copy_page_shares(m, to, from, v) ==
    LET m1 == get_pte(m, to, v)
    IN  IF TableOf(m1, to, v) = NULL THEN [m1 EXCEPT !.err = "E_NO_MEM"]
        ELSE page_insert(m1, to, Pte(m, from, v).pg, v, Pte(m, from, v).w)
copy_page_no_memcpy(m, to, from, v) ==
    LET m1 == get_pte(m, to, v)
    IN  IF TableOf(m1, to, v) = NULL THEN [m1 EXCEPT !.err = "E_NO_MEM"]
        ELSE IF m1.free = {} THEN [m1 EXCEPT !.err = "panic"]
        ELSE page_insert(Take(m1), to, NextFree(m1), v, Pte(m, from, v).w)

(* One page of copy_range.  Only a missing page table makes it fail; that
   alloc_page finds no page for the copy is an assert. *)
copy_page(m, to, from, v) ==
    LET src == Pte(m, from, v)
        m1  == get_pte(m, to, v)
    IN  IF TableOf(m1, to, v) = NULL THEN [m1 EXCEPT !.err = "E_NO_MEM"]
        ELSE IF m1.free = {} THEN [m1 EXCEPT !.err = "panic"]
        ELSE page_insert([Take(m1) EXCEPT !.data[NextFree(m1)] = m1.data[src.pg]],
                         to, NextFree(m1), v, src.w)

copy_if_mapped(m, to, from, v) ==
    IF m.err # "none" \/ Pte(m, from, v) = NULL THEN m ELSE copy_page(m, to, from, v)

copy_range(m, to, from, s, e) ==
    LET at[v \in s .. e] == IF v = s THEN m ELSE copy_if_mapped(at[v - 1], to, from, v - 1)
    IN  at[e]

============================================================================
