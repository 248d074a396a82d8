------------------------------ MODULE FirstFit ------------------------------
(***************************************************************************)
(* The physical page allocators that keep a doubly linked list of free     *)
(* blocks in the order of their addresses and merge neighbours:            *)
(* default_pmm.c (first fit) and best_fit_pmm.c of lab2/Best-Fit, whose    *)
(* pmm.c installs it as pmm_manager instead.  alloc_pages and free_pages   *)
(* of pmm.c call them with interrupts disabled: every call is one step.    *)
(*                                                                         *)
(*   fa.next, fa.prev   the links of page_link and of the list head        *)
(*   fa.property        page->property, the size kept in a block's first   *)
(*                      page; it is not cleared when the page is allocated *)
(*   fa.PG_property     the pages whose PG_property bit is set             *)
(*   fa.nr_free         free_area.nr_free                                  *)
(*                                                                         *)
(* The links are modelled one by one, because default_free_pages does not  *)
(* always leave a list.                                                    *)
(***************************************************************************)
EXTENDS Integers, Sequences, FiniteSets

CONSTANTS
    NPages,     \* the pages page_init hands to init_memmap
    MaxAlloc,   \* the largest request that is tried
    SpareTop,   \* TRUE: memory is large enough, its last page stays free
    NULL

ASSUME FirstFitAssumption ==
    NPages \in Nat \ {0} /\ MaxAlloc \in Nat \ {0} /\ SpareTop \in BOOLEAN

Pages == 0 .. NPages - 1
free_list == -1         \* the list head
Links == Pages \cup {free_list}

VARIABLES
    pmm_manager,    \* the allocator pmm.c was built with
    fa,         \* the free area
    reserved,   \* PG_reserved is set on the pages: init_memmap was not called
    owned,      \* the pages that callers have allocated and not freed
    ret,        \* what the last call returned
    panic       \* an assert() of the allocator has failed

vars == <<pmm_manager, fa, reserved, owned, ret, panic>>

Init ==
    /\ pmm_manager \in {"default", "best_fit"}
    /\ fa = [next |-> [e \in Links |-> e], prev |-> [e \in Links |-> e],
             property |-> [p \in Pages |-> 0], PG_property |-> {}, nr_free |-> 0]
    /\ reserved = TRUE
    /\ owned = {}
    /\ ret = NULL
    /\ panic = FALSE

Extent(base, n) == base .. base + n - 1

---------------------------------------------------------------------------
(* libs/list.h                                                             *)

(* Mutant: next->prev is not assigned. *)
__list_add_one_way(f, elm, prev, next) ==
    [f EXCEPT !.next = [[f.next EXCEPT ![prev] = elm] EXCEPT ![elm] = next],
              !.prev = [f.prev EXCEPT ![elm] = prev]]

(* The assignments in their order: prev->next and next->prev, then those of
   elm, which wins when elm is its own neighbour. *)
__list_add(f, elm, prev, next) ==
    [f EXCEPT !.next = [[f.next EXCEPT ![prev] = elm] EXCEPT ![elm] = next],
              !.prev = [[f.prev EXCEPT ![next] = elm] EXCEPT ![elm] = prev]]

list_add(f, listelm, elm) == __list_add(f, elm, listelm, f.next[listelm])

list_add_before(f, listelm, elm) == __list_add(f, elm, f.prev[listelm], listelm)

list_del(f, e) ==
    [f EXCEPT !.next = [f.next EXCEPT ![f.prev[e]] = f.next[e]],
              !.prev = [f.prev EXCEPT ![f.next[e]] = f.prev[e]]]

(* What a loop over list_next sees, up to the list head; in a list that does
   not come back to its head the loop never ends. *)
Nth(f) ==
    LET nth[i \in 0 .. NPages + 1] == IF i = 0 THEN free_list ELSE f.next[nth[i - 1]]
    IN  nth

Ends(f) == \E i \in 1 .. NPages + 1 : Nth(f)[i] = free_list

Chain(f) ==
    LET nth == Nth(f)
        stop == IF Ends(f)
                THEN CHOOSE i \in 1 .. NPages + 1 :
                        nth[i] = free_list /\ \A j \in 1 .. i - 1 : nth[j] # free_list
                ELSE NPages + 1
    IN  [i \in 1 .. stop - 1 |-> nth[i]]

(* The pages the links lead to.  What page_link and property of any other page
   hold is never read before it is written, and left out of the state. *)
Live(f) ==
    LET near[i \in 0 .. NPages] ==
            IF i = 0 THEN {free_list}
            ELSE LET n == near[i - 1]
                 IN  n \cup {f.next[e] : e \in n} \cup {f.prev[e] : e \in n}
    IN  near[NPages]

Forget(f) ==
    LET live == Live(f)
    IN  [f EXCEPT !.next = [e \in Links |-> IF e \in live THEN f.next[e] ELSE e],
                  !.prev = [e \in Links |-> IF e \in live THEN f.prev[e] ELSE e],
                  !.property = [p \in Pages |-> IF p \in live THEN f.property[p] ELSE 0]]

InChain(f) == {Chain(f)[i] : i \in 1 .. Len(Chain(f))}

---------------------------------------------------------------------------
(* The loop that links a block in front of the first one with a higher
   address.  When there is none the block is added at the end, and since the
   loop does not stop there it finds base itself at the end and adds it
   again, behind itself. *)
Link(f, base) ==
    LET l == Chain(f)
        behind == {i \in 1 .. Len(l) : base < l[i]}
    IN  IF l = << >> THEN list_add(f, free_list, base)
        ELSE IF behind # {}
        THEN list_add_before(f, l[CHOOSE i \in behind : \A j \in behind : i <= j], base)
        ELSE LET last == l[Len(l)]  g == list_add(f, last, base)
             IN  IF last # base THEN list_add(g, base, base) ELSE g

(* The loop of best_fit_free_pages only looks for the place; the block is
   linked once, behind the last one with a lower address. *)
LinkBehind(f, base) ==
    LET before == {free_list} \cup {p \in InChain(f) : p < base}
    IN  list_add(f, CHOOSE p \in before : \A q \in before : q <= p, base)

(* base becomes the first page of a free block of n pages. *)
AddBlock(f, base, n) ==
    LET Place(g, b) == IF pmm_manager = "default" THEN Link(g, b) ELSE LinkBehind(g, b)
    IN  Place([f EXCEPT !.property = [f.property EXCEPT ![base] = n],
                   !.PG_property = (f.PG_property \ Extent(base, n)) \cup {base},
                   !.nr_free = f.nr_free + n], base)

(* Block p swallows block q. *)
Swallow(f, p, q) ==
    list_del([f EXCEPT !.property = [f.property EXCEPT ![p] = f.property[p] + f.property[q]],
                       !.PG_property = f.PG_property \ {q}], q)

Touch(f, p, q) == p # free_list /\ q # free_list /\ p + f.property[p] = q

(* Mutant: the block is not merged with the one in front of it. *)
Merge_next_only(f, base) ==
    IF Touch(f, base, f.next[base]) THEN Swallow(f, base, f.next[base]) ELSE f

(* The end of both free_pages: merge with the block in front, then what has
   become of it with the block behind. *)
Merge(f, base) ==
    LET front == Touch(f, f.prev[base], base)
        g == IF front THEN Swallow(f, f.prev[base], base) ELSE f
        b == IF front THEN f.prev[base] ELSE base
    IN  IF Touch(g, b, g.next[b]) THEN Swallow(g, b, g.next[b]) ELSE g

---------------------------------------------------------------------------
(* page_init calls it once, for all the memory. *)
init_memmap ==
    /\ reserved
    /\ fa' = AddBlock(fa, 0, NPages)
    /\ reserved' = FALSE
    /\ ret' = NULL
    /\ UNCHANGED <<pmm_manager, owned, panic>>

Suitable(n) == {i \in 1 .. Len(Chain(fa)) : fa.property[Chain(fa)[i]] >= n}

(* Mutant: the rest of the block is linked at the head of the list. *)
TakeBlock_rest_first(p, n) ==
    LET f == list_del(fa, p)
        g == IF fa.property[p] = n THEN f
             ELSE list_add([f EXCEPT !.property = [f.property EXCEPT ![p + n] = f.property[p] - n],
                                     !.PG_property = f.PG_property \cup {p + n}],
                           free_list, p + n)
    IN  [g EXCEPT !.nr_free = g.nr_free - n, !.PG_property = g.PG_property \ {p}]

(* Block p gives its first n pages; what is left takes its place. *)
TakeBlock(p, n) ==
    LET f == list_del(fa, p)
        g == IF fa.property[p] = n THEN f
             ELSE list_add([f EXCEPT !.property = [f.property EXCEPT ![p + n] = f.property[p] - n],
                                     !.PG_property = f.PG_property \cup {p + n}],
                           fa.prev[p], p + n)
    IN  [g EXCEPT !.nr_free = g.nr_free - n, !.PG_property = g.PG_property \ {p}]

(* The loops of the two alloc_pages: the first block that is large enough, and
   the first of the smallest such blocks. *)
FirstFitting(n) == Chain(fa)[CHOOSE i \in Suitable(n) : \A j \in Suitable(n) : i <= j]

(* Mutant: a later block of the same size replaces the one found before. *)
BestFitting_last(n) ==
    LET size(i) == fa.property[Chain(fa)[i]]
    IN  Chain(fa)[CHOOSE i \in Suitable(n) :
                    \A j \in Suitable(n) : size(i) < size(j) \/ (size(i) = size(j) /\ i >= j)]

BestFitting(n) ==
    LET size(i) == fa.property[Chain(fa)[i]]
    IN  Chain(fa)[CHOOSE i \in Suitable(n) :
                    \A j \in Suitable(n) : size(i) < size(j) \/ (size(i) = size(j) /\ i <= j)]

(* The rest of alloc_pages, from page p that the loop found. *)
Allocate(p, n) ==
    /\ ret' = p
    /\ fa' = Forget(TakeBlock(p, n))
    /\ owned' = owned \cup Extent(p, n)
    /\ UNCHANGED <<pmm_manager, reserved, panic>>

(* More pages than are free, or than any block has. *)
alloc_pages_fails(n) ==
    /\ ~reserved /\ Ends(fa)
    /\ n > fa.nr_free \/ Suitable(n) = {}
    /\ ret' = NULL
    /\ UNCHANGED <<pmm_manager, fa, reserved, owned, panic>>

default_alloc_pages(n) ==
    /\ pmm_manager = "default" /\ ~reserved /\ Ends(fa)
    /\ n <= fa.nr_free /\ Suitable(n) # {}
    /\ SpareTop => FirstFitting(n) + n < NPages
    /\ Allocate(FirstFitting(n), n)

best_fit_alloc_pages(n) ==
    /\ pmm_manager = "best_fit" /\ ~reserved /\ Ends(fa)
    /\ n <= fa.nr_free /\ Suitable(n) # {}
    /\ Allocate(BestFitting(n), n)

(* Callers free pages that they own, not always in the portions in which they
   were allocated. *)
free_pages(base, n) ==
    /\ Extent(base, n) \subseteq owned /\ Ends(fa)
    /\ fa' = Forget(Merge(AddBlock(fa, base, n), base))
    /\ owned' = owned \ Extent(base, n)
    /\ panic' = (panic \/ Extent(base, n) \cap fa.PG_property # {})
    /\ ret' = NULL
    /\ UNCHANGED <<pmm_manager, reserved>>

Next ==
    \/ init_memmap
    \/ \E n \in 1 .. MaxAlloc : \/ default_alloc_pages(n)
                                \/ best_fit_alloc_pages(n)
                                \/ alloc_pages_fails(n)
                                \/ \E base \in Pages : free_pages(base, n)

Spec == Init /\ [][Next]_vars

---------------------------------------------------------------------------
(* The type of every variable. *)
TypeOK ==
    /\ fa \in [next : [Links -> Links], prev : [Links -> Links], property : [Pages -> 0 .. NPages],
               PG_property : SUBSET Pages, nr_free : 0 .. NPages]
    /\ pmm_manager \in {"default", "best_fit"} /\ reserved \in BOOLEAN
    /\ owned \subseteq Pages
    /\ ret \in Pages \cup {NULL}
    /\ panic \in BOOLEAN

(* The pages of the free blocks. *)
FreePages(f) == UNION {Extent(p, f.property[p]) : p \in InChain(f)}

(* The blocks are in the order of their addresses, do not overlap and leave a
   gap between them, whatever was split and freed before, and the list can be
   read in both directions; nr_free counts their pages, so that the early
   return of alloc_pages never refuses what a block could serve; and
   PG_property is set on their first pages and on no other, so that the
   assert in free_pages accepts every page that is allocated.  (The type
   invariant is included.) *)
BlocksOK ==
    LET l == Chain(fa)
    IN  /\ TypeOK
        /\ \A e \in InChain(fa) \cup {free_list} : fa.prev[fa.next[e]] = e
        /\ \A i \in 1 .. Len(l) : fa.property[l[i]] > 0
        /\ \A i, j \in 1 .. Len(l) : i < j => l[i] + fa.property[l[i]] < l[j]
        /\ fa.nr_free = Cardinality(FreePages(fa))
        /\ fa.PG_property = InChain(fa) /\ ~panic

(* A split or a merge never gives away a page twice and loses none, alloc_pages
   fails only when no run of free pages is long enough, and otherwise each
   allocator takes the run its policy names. *)
Abstract == INSTANCE PageAlloc WITH
    free <- FreePages(fa), policy <- IF pmm_manager = "best_fit" THEN "best" ELSE "first"
AbstractSpec == Abstract!Spec

(* Pages that are allocated are unlinked: no list of free blocks names them. *)
Unlinked == owned \cap FreePages(fa) = {}

============================================================================
