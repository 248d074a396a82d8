------------------------------ MODULE VmProofs ------------------------------
(***************************************************************************)
(* The memory of processes, for any number of processes and of pages, any  *)
(* programs and tables of any size: every page has one use, and the vmas   *)
(* say what is mapped.                                                     *)
(*                                                                         *)
(* The pages of a memory form a forest along the entries of the tables.    *)
(* The operations on an address space change its tree and the free pages,  *)
(* and nothing else; that is what Local says and what every loop and every *)
(* step of the kernel preserves.                                           *)
(***************************************************************************)
EXTENDS Vm, FiniteSetTheorems, SequenceTheorems, WellFoundedInduction, TLAPS

Idx == 0 .. Fan - 1

Memories == [free : SUBSET Pages, ref : [Pages -> Int],
             ent : [Pages -> [Idx -> Entries \cup {NULL}]],
             data : [Pages -> Values], err : {"none", "E_NO_MEM", "panic"}]

(* Entry i of the page t points to the page g. *)
Points(s, t, i, g) == s.ent[t][i] # NULL /\ s.ent[t][i].pg = g

(* Free pages are blank, and a page that an entry points to is not free, has
   one reference and no other entry that points to it. *)
Forest(s) ==
    /\ s \in Memories
    /\ \A g \in s.free : s.ent[g] = NoEntries /\ s.ref[g] = 0
    /\ \A t, g \in Pages, i \in Idx : Points(s, t, i, g) => g \notin s.free /\ s.ref[g] = 1
    /\ \A t, u, g \in Pages, i, j \in Idx : Points(s, t, i, g) /\ Points(s, u, j, g) => t = u /\ i = j

Root(s, d) == d \in Pages \ s.free /\ \A t \in Pages, i \in Idx : ~Points(s, t, i, d)

(* The entries of the pages X point into X. *)
Closed(s, X) == \A t \in X, i \in Idx, g \in Pages : Points(s, t, i, g) => g \in X

(* The pages that can be reached from d. *)
Tree(s, d) == {x \in Pages : \A X \in SUBSET Pages : d \in X /\ Closed(s, X) => x \in X}

(* The pages that an operation on the address space d may touch. *)
Own(s, d) == s.free \cup Tree(s, d)

(* The step from s to r stays within the pages W. *)
Local(s, r, W) ==
    /\ \A t \in Pages \ W : r.ent[t] = s.ent[t] /\ r.data[t] = s.data[t]
    /\ \A t, g \in Pages, i \in Idx : Points(r, t, i, g) => g \in W \/ Points(s, t, i, g)

(* The address space d and all free pages are in W. *)
Space(s, d, W) ==
    /\ Forest(s) /\ Root(s, d)
    /\ W \in SUBSET Pages /\ d \in W /\ s.free \subseteq W /\ Closed(s, W)

(* A list of vmas as it should be. *)
ListOK(l) ==
    /\ l \in Seq(Vmas)
    /\ \A i \in 1 .. Len(l) : l[i].start < l[i].end
    /\ \A i, j \in 1 .. Len(l) : i < j => l[i].end <= l[j].start

(* Only what the list l covers is mapped, with the rights of the vma. *)
Within(s, d, l) ==
    \A v \in VPages : Pte(s, d, v) # NULL =>
       \E i \in 1 .. Len(l) : Covers(l[i], v) /\ (Pte(s, d, v).w <=> l[i].flags # "R")

Full(s, d, a) == \A v \in a.start .. a.end - 1 : Pte(s, d, v) # NULL

(* load_icode has mapped a part of the segment. *)
Partly(s, d, a) ==
    \E n \in a.start .. a.end - 1 : \A v \in a.start .. a.end - 1 : Pte(s, d, v) # NULL <=> v < n

Segments == {a \in Vmas : a.start < a.end /\ a.flags # "STACK"}

(* The address space x of a process in the state st that has td to load. *)
SpaceOK(s, x, st, td) ==
    /\ Root(s, x.pgdir)
    /\ ListOK(x.mmap_list)
    /\ Within(s, x.pgdir, x.mmap_list)
    /\ st = "run" => \A i \in 1 .. Len(x.mmap_list) :
                        x.mmap_list[i].flags = "STACK" \/ Full(s, x.pgdir, x.mmap_list[i])
    /\ st = "load" => \A i \in 1 .. Len(x.mmap_list) :
                         \/ Full(s, x.pgdir, x.mmap_list[i])
                         \/ td # << >> /\ x.mmap_list[i] = Head(td) /\ Partly(s, x.pgdir, Head(td))

Control ==
    /\ mm \in [Procs -> AddressSpaces \cup {NULL}]
    /\ state \in [Procs -> {"none", "run", "load", "exec"}]
    /\ todo \in [Procs -> Seq(Segments)]
    /\ \A p \in Procs : mm[p] # NULL <=> state[p] \in {"run", "load"}

Apart == \A p, q \in Procs : mm[p] # NULL /\ mm[q] # NULL /\ p # q => mm[p].pgdir # mm[q].pgdir

(* The inductive invariant. *)
Inv ==
    /\ down \in BOOLEAN
    /\ ~down => /\ Control /\ Apart
                /\ Forest(m) /\ m.err = "none"
                /\ \A p \in Procs : mm[p] # NULL => SpaceOK(m, mm[p], state[p], todo[p])

---------------------------------------------------------------------------
(* Arithmetic: a virtual page is its three indices.                        *)

LEMMA Monotone ==
    ASSUME NEW i \in Nat, NEW j \in Nat, NEW b \in Nat, i <= j
    PROVE  i * b <= j * b /\ i * b \in Nat
  <1>1. PICK d \in Nat : d = j - i
    OBVIOUS
  <1>2. d * b \in Nat /\ i * b \in Nat
    OBVIOUS
  <1>3. j * b = i * b + d * b
    BY <1>1
  <1> QED
    BY <1>2, <1>3

LEMMA DivMod ==
    ASSUME NEW n \in Nat, NEW b \in Nat \ {0}
    PROVE  n \div b \in Nat /\ n % b \in 0 .. b - 1 /\ n = (n \div b) * b + (n % b)
  OBVIOUS

(* What is below a product has a quotient below the other factor. *)
LEMMA DivBelow ==
    ASSUME NEW n \in Nat, NEW b \in Nat \ {0}, NEW c \in Nat, n < c * b
    PROVE  n \div b < c
  <1>1. PICK q \in Nat : q = n \div b
    BY DivMod
  <1>2. PICK r \in 0 .. b - 1 : n = q * b + r
    BY <1>1, DivMod
  <1>3. ASSUME c <= q PROVE FALSE
    BY <1>2, <1>3, Monotone
  <1> QED
    BY <1>1, <1>3

LEMMA FanFacts == Fan \in Nat /\ Fan \in Nat \ {0} /\ Fan * Fan \in Nat /\ USTACKTOP \in Nat
  <1>1. Fan \in Nat /\ Fan \in Nat \ {0}
    BY PagesAssumption
  <1>2. Fan * Fan \in Nat
    BY <1>1
  <1> QED
    BY <1>1, <1>2 DEF USTACKTOP

LEMMA IndexFacts ==
    ASSUME NEW v \in VPages
    PROVE  PDX1(v) \in Idx /\ PDX0(v) \in Idx /\ PTX(v) \in Idx
  <1>1. v \in Nat /\ v < (Fan * Fan) * Fan
    BY FanFacts DEF VPages, USTACKTOP
  <1>2. v \div Fan \in Nat /\ v \div Fan < Fan * Fan
    BY <1>1, FanFacts, DivMod, DivBelow
  <1>3. PICK t \in Nat : t = v \div Fan
    BY <1>2
  <1>4. t \div Fan \in Nat /\ t \div Fan < Fan /\ t % Fan \in Idx
    BY <1>2, <1>3, FanFacts, DivMod, DivBelow DEF Idx
  <1>5. t \div Fan \in Idx
    BY <1>4, FanFacts DEF Idx
  <1>6. v % Fan \in Idx
    BY <1>1, FanFacts, DivMod DEF Idx
  <1> QED
    BY <1>3, <1>4, <1>5, <1>6 DEF PDX1, PDX0, PTX

LEMMA IndexInjective ==
    ASSUME NEW u \in VPages, NEW v \in VPages,
           PDX1(u) = PDX1(v), PDX0(u) = PDX0(v), PTX(u) = PTX(v)
    PROVE  u = v
  <1>1. u \in Nat /\ v \in Nat
    BY FanFacts DEF VPages
  <1>2. PICK s \in Nat : s = u \div Fan /\ u = s * Fan + PTX(u)
    BY <1>1, FanFacts, DivMod DEF PTX
  <1>3. PICK t \in Nat : t = v \div Fan /\ v = t * Fan + PTX(v)
    BY <1>1, FanFacts, DivMod DEF PTX
  <1>4. s = PDX1(u) * Fan + PDX0(u)
    BY <1>2, FanFacts, DivMod DEF PDX1, PDX0
  <1>5. t = PDX1(v) * Fan + PDX0(v)
    BY <1>3, FanFacts, DivMod DEF PDX1, PDX0
  <1>6. s = t
    BY <1>4, <1>5
  <1> QED
    BY <1>2, <1>3, <1>6

---------------------------------------------------------------------------
(* Loops.                                                                  *)

LEMMA LeastNat ==
    ASSUME NEW T \in SUBSET Nat, T # {}
    PROVE  Min(T) \in T /\ \A y \in T : Min(T) <= y
  <1>1. PICK x \in T : \A y \in T : ~(<<y, x>> \in OpToRel(<, Nat))
    BY NatLessThanWellFounded, WFMin
  <1>2. ASSUME NEW y \in T PROVE ~(y < x)
    BY <1>1, <1>2 DEF OpToRel
  <1>3. \A y \in T : x <= y
    BY <1>2
  <1> QED
    BY <1>3 DEF Min

(* What holds at the start of a loop and is kept by every turn holds at every
   turn. *)
LEMMA LoopInvariant ==
    ASSUME NEW a \in Nat, NEW b \in Nat, NEW P, NEW w,
           w[a] \in P[a],
           \A i \in a + 1 .. b : w[i - 1] \in P[i - 1] => w[i] \in P[i]
    PROVE  \A i \in a .. b : w[i] \in P[i]
  <1> DEFINE Bad == {i \in a .. b : w[i] \notin P[i]}
  <1>1. SUFFICES ASSUME Bad # {} PROVE FALSE
    OBVIOUS
  <1>2. Bad \in SUBSET Nat
    OBVIOUS
  <1>3. PICK n \in Bad : \A y \in Bad : n <= y
    BY <1>1, <1>2, LeastNat
  <1>4. n \in a .. b /\ w[n] \notin P[n]
    BY <1>3
  <1>5. n # a
    BY <1>4
  <1>6. n \in a + 1 .. b /\ n - 1 \in a .. b /\ ~(n <= n - 1)
    BY <1>4, <1>5
  <1>7. n - 1 \notin Bad
    BY <1>3, <1>6
  <1>8. w[n - 1] \in P[n - 1]
    BY <1>6, <1>7
  <1> QED
    BY <1>4, <1>6, <1>8

(* The function g that a loop from a to b computes: F[i] is the effect of turn i
   on the values it can meet there, P[i - 1]. *)
Computes(g, a, b, base, P, F) ==
    /\ g = [i \in a .. b |-> g[i]]
    /\ g[a] = base /\ \A i \in a + 1 .. b : g[i] = F[i][g[i - 1]]
    /\ \A i \in a .. b : g[i] \in P[i]

LEMMA LoopExists ==
    ASSUME NEW a \in Nat, NEW b \in Nat, a <= b, NEW P, NEW F, NEW base \in P[a],
           \A i \in a + 1 .. b : \A x \in P[i - 1] : F[i][x] \in P[i]
    PROVE  \E g : Computes(g, a, b, base, P, F)
  <1> DEFINE Good(g, n) == /\ g = [i \in a .. n |-> g[i]]
                           /\ g[a] = base /\ \A i \in a + 1 .. n : g[i] = F[i][g[i - 1]]
                           /\ \A i \in a .. n : g[i] \in P[i]
             Bad == {n \in a .. b : ~\E g : Good(g, n)}
  <1>1. SUFFICES ASSUME Bad # {} PROVE FALSE
    <2>1. b \notin Bad => \E g : Good(g, b)
      OBVIOUS
    <2>2. \A g : Good(g, b) => Computes(g, a, b, base, P, F)
      BY Zenon DEF Computes
    <2> HIDE DEF Bad, Good
    <2> QED
      BY <2>1, <2>2
  <1>2. Bad \in SUBSET Nat
    OBVIOUS
  <1>3. PICK n \in Bad : \A y \in Bad : n <= y
    BY <1>1, <1>2, LeastNat
  <1>4. n \in a .. b /\ ~\E g : Good(g, n)
    BY <1>3
  <1>5. n # a
    <2>1. PICK h : h = [i \in a .. a |-> base]
      OBVIOUS
    <2>2. h[a] = base /\ a .. a = {a} /\ a + 1 .. a = {}
      BY <2>1
    <2>3. h = [i \in a .. a |-> h[i]]
      BY <2>1
    <2>4. Good(h, a)
      BY <2>2, <2>3
    <2> QED
      BY <1>4, <2>4
  <1>6. n \in a + 1 .. b /\ n - 1 \in a .. b /\ ~(n <= n - 1)
    BY <1>4, <1>5
  <1>7. n - 1 \notin Bad
    BY <1>3, <1>6
  <1>8. PICK g : Good(g, n - 1)
    BY <1>6, <1>7
  <1>9. PICK h : h = [i \in a .. n |-> IF i = n THEN F[n][g[n - 1]] ELSE g[i]]
    OBVIOUS
  <1>10. /\ h[n] = F[n][g[n - 1]] /\ \A i \in a .. n - 1 : h[i] = g[i]
    BY <1>6, <1>9
  <1>11. h = [i \in a .. n |-> h[i]]
    BY <1>9
  <1>12. h[a] = base
    BY <1>6, <1>8, <1>10
  <1>13. ASSUME NEW i \in a + 1 .. n PROVE h[i] = F[i][h[i - 1]] /\ h[i] \in P[i]
    <2>1. i - 1 \in a .. n - 1
      BY <1>6
    <2>2. h[i - 1] = g[i - 1] /\ g[i - 1] \in P[i - 1]
      BY <1>8, <1>10, <2>1
    <2>3. h[i] = F[i][g[i - 1]]
      <3>1. CASE i = n
        BY <3>1, <1>10
      <3>2. CASE i # n
        <4>1. i \in a + 1 .. n - 1 /\ i \in a .. n - 1
          BY <1>6, <3>2
        <4> QED
          BY <1>8, <1>10, <4>1
      <3> QED
        BY <3>1, <3>2
    <2>4. i \in a + 1 .. b
      BY <1>6
    <2> QED
      BY <2>2, <2>3, <2>4
  <1>14. ASSUME NEW i \in a .. n PROVE h[i] \in P[i]
    <2>1. CASE i = a
      BY <1>12, <2>1
    <2>2. CASE i # a
      <3>1. i \in a + 1 .. n
        BY <2>2
      <3> QED
        BY <1>13, <3>1
    <2> QED
      BY <2>1, <2>2
  <1>15. Good(h, n)
    BY <1>11, <1>12, <1>13, <1>14
  <1> QED
    BY <1>4, <1>15

---------------------------------------------------------------------------
(* The forest of pages.                                                    *)

LEMMA MemoryType ==
    ASSUME NEW s \in Memories
    PROVE  /\ s.free \subseteq Pages
           /\ \A t \in Pages : s.ent[t] \in [Idx -> Entries \cup {NULL}]
           /\ \A t \in Pages, i \in Idx : s.ent[t][i] # NULL => s.ent[t][i] \in Entries /\ s.ent[t][i].pg \in Pages
  <1>1. s.free \subseteq Pages /\ s.ent \in [Pages -> [Idx -> Entries \cup {NULL}]]
    BY DEF Memories
  <1>2. ASSUME NEW t \in Pages, NEW i \in Idx
        PROVE  s.ent[t] \in [Idx -> Entries \cup {NULL}] /\ (s.ent[t][i] # NULL => s.ent[t][i] \in Entries)
    BY <1>1
  <1>3. \A x \in Entries : x.pg \in Pages
    BY DEF Entries
  <1>4. ASSUME NEW t \in Pages PROVE s.ent[t] \in [Idx -> Entries \cup {NULL}]
    BY <1>1
  <1> QED
    BY <1>1, <1>2, <1>3, <1>4

(* What is closed and has the root has the tree, and the tree is closed. *)
LEMMA TreeFacts ==
    ASSUME NEW s, NEW d \in Pages
    PROVE  /\ Tree(s, d) \in SUBSET Pages /\ d \in Tree(s, d) /\ Closed(s, Tree(s, d))
           /\ \A X \in SUBSET Pages : d \in X /\ Closed(s, X) => Tree(s, d) \subseteq X
  <1>1. Tree(s, d) \in SUBSET Pages /\ d \in Tree(s, d)
    BY DEF Tree
  <1>2. \A X \in SUBSET Pages : d \in X /\ Closed(s, X) => Tree(s, d) \subseteq X
    BY DEF Tree
  <1>3. ASSUME NEW t \in Tree(s, d), NEW i \in Idx, NEW g \in Pages, Points(s, t, i, g)
        PROVE  g \in Tree(s, d)
    <2>1. ASSUME NEW X \in SUBSET Pages, d \in X, Closed(s, X) PROVE g \in X
      <3>1. t \in X
        BY <2>1, <1>2
      <3> QED
        BY <1>3, <2>1, <3>1 DEF Closed
    <2> QED
      BY <2>1 DEF Tree
  <1>4. Closed(s, Tree(s, d))
    BY <1>3 DEF Closed
  <1> QED
    BY <1>1, <1>2, <1>4

(* Two address spaces have no page in common. *)
LEMMA TreesApart ==
    ASSUME NEW s, Forest(s), NEW d, Root(s, d), NEW e, Root(s, e), d # e
    PROVE  Tree(s, d) \cap Tree(s, e) = {}
  <1>0. d \in Pages /\ e \in Pages /\ s.free \subseteq Pages
    BY MemoryType DEF Root, Forest
  <1>1. d \notin Tree(s, e)
    <2>1. Closed(s, Pages \ {d})
      BY DEF Closed, Root
    <2> QED
      BY <1>0, <2>1, TreeFacts
  <1>2. ASSUME NEW t \in Tree(s, d) \ Tree(s, e), NEW i \in Idx, NEW g \in Pages, Points(s, t, i, g)
        PROVE  g \in Tree(s, d) \ Tree(s, e)
    <2>1. g \in Tree(s, d) /\ t \in Pages
      BY <1>0, <1>2, TreeFacts DEF Closed
    <2>2. SUFFICES ASSUME g \in Tree(s, e) PROVE FALSE
      BY <2>1
    <2>3. g # e
      BY <1>2, <2>1 DEF Root
    <2>4. ASSUME NEW u \in Tree(s, e) \ {g}, NEW j \in Idx, NEW h \in Pages, Points(s, u, j, h)
          PROVE  h \in Tree(s, e) \ {g}
      <3>1. h \in Tree(s, e) /\ u \in Pages
        BY <1>0, <2>4, TreeFacts DEF Closed
      <3>2. h # g
        BY <1>2, <2>1, <2>4, <3>1 DEF Forest
      <3> QED
        BY <3>1, <3>2
    <2>5. Closed(s, Tree(s, e) \ {g})
      BY <2>4 DEF Closed
    <2>6. Tree(s, e) \ {g} \in SUBSET Pages /\ e \in Tree(s, e) \ {g}
      BY <1>0, <2>3, TreeFacts
    <2>7. Tree(s, e) \subseteq Tree(s, e) \ {g}
      BY <1>0, <2>5, <2>6, TreeFacts
    <2> QED
      BY <2>2, <2>7
  <1>3. Closed(s, Tree(s, d) \ Tree(s, e))
    BY <1>2 DEF Closed
  <1>4. Tree(s, d) \subseteq Tree(s, d) \ Tree(s, e)
    <2>1. Tree(s, d) \ Tree(s, e) \in SUBSET Pages /\ d \in Tree(s, d) \ Tree(s, e)
      BY <1>0, <1>1, TreeFacts
    <2> QED
      BY <1>0, <1>3, <2>1, TreeFacts
  <1> QED
    BY <1>4

(* No page of an address space is free. *)
LEMMA TreeNotFree ==
    ASSUME NEW s, Forest(s), NEW e, Root(s, e)
    PROVE  Tree(s, e) \cap s.free = {}
  <1>0. e \in Pages /\ e \notin s.free /\ s.free \subseteq Pages
    BY MemoryType DEF Root, Forest
  <1>1. Closed(s, Pages \ s.free)
    BY DEF Closed, Forest
  <1> QED
    BY <1>0, <1>1, TreeFacts

(* The pages an operation on d may touch contain its walk and all free pages,
   and no page of another address space. *)
LEMMA OwnSpace ==
    ASSUME NEW s, Forest(s), NEW d, Root(s, d)
    PROVE  /\ Space(s, d, Own(s, d))
           /\ \A e : Root(s, e) /\ e # d => Tree(s, e) \cap Own(s, d) = {}
  <1>0. d \in Pages /\ s.free \subseteq Pages
    BY MemoryType DEF Root, Forest
  <1>1. ASSUME NEW t \in Own(s, d), NEW i \in Idx, NEW g \in Pages, Points(s, t, i, g)
        PROVE  g \in Own(s, d)
    <2>1. CASE t \in s.free
      <3>1. s.ent[t] = NoEntries
        BY <2>1 DEF Forest
      <3>2. s.ent[t][i] = NULL
        BY <3>1 DEF NoEntries, Idx
      <3> QED
        BY <1>1, <3>2 DEF Points
    <2>2. CASE t \in Tree(s, d)
      BY <1>0, <1>1, <2>2, TreeFacts DEF Closed, Own
    <2> QED
      BY <1>1, <2>1, <2>2 DEF Own
  <1>2. Closed(s, Own(s, d))
    BY <1>1 DEF Closed
  <1>3. Own(s, d) \in SUBSET Pages /\ d \in Own(s, d) /\ s.free \subseteq Own(s, d)
    BY <1>0, TreeFacts DEF Own
  <1>4. ASSUME NEW e, Root(s, e), e # d PROVE Tree(s, e) \cap Own(s, d) = {}
    BY <1>4, TreesApart, TreeNotFree DEF Own
  <1> QED
    BY <1>2, <1>3, <1>4 DEF Space

---------------------------------------------------------------------------
(* What a local step leaves alone.                                         *)

(* The page v of the address space e and its contents are the same. *)
SameAt(s, r, e, v) ==
    /\ Pte(r, e, v) = Pte(s, e, v)
    /\ Pte(s, e, v) # NULL => r.data[Pte(s, e, v).pg] = s.data[Pte(s, e, v).pg]

LEMMA LocalTrans ==
    ASSUME NEW s, NEW r, NEW q, NEW W, Local(s, r, W), Local(r, q, W)
    PROVE  Local(s, q, W)
  BY DEF Local

LEMMA LocalSelf == \A s, W : Local(s, s, W)
  BY DEF Local

(* The walk to the page v. *)
LEMMA WalkFacts ==
    ASSUME NEW s \in Memories, NEW d \in Pages, NEW v \in VPages
    PROVE  /\ TableOf(s, d, v) \in Pages \cup {NULL} /\ Pte(s, d, v) \in Entries \cup {NULL}
           /\ Pte(s, d, v) # NULL => TableOf(s, d, v) # NULL /\ Pte(s, d, v).pg \in Pages
           /\ TableOf(s, d, v) # NULL =>
                 /\ Pte(s, d, v) = s.ent[TableOf(s, d, v)][PTX(v)]
                 /\ \E b \in Pages : Points(s, d, PDX1(v), b) /\ Points(s, b, PDX0(v), TableOf(s, d, v))
           /\ \A b, t \in Pages : Points(s, d, PDX1(v), b) /\ Points(s, b, PDX0(v), t) => TableOf(s, d, v) = t
           /\ \A g \in Pages : Pte(s, d, v) # NULL /\ Pte(s, d, v).pg = g
                                 => Points(s, TableOf(s, d, v), PTX(v), g)
  <1>1. PDX1(v) \in Idx /\ PDX0(v) \in Idx /\ PTX(v) \in Idx
    BY IndexFacts
  <1>2. NULL \notin Pages
    BY PagesAssumption DEF Pages
  <1>3. PICK b : b = s.ent[d][PDX1(v)].pg
    OBVIOUS
  <1>4. s.ent[d][PDX1(v)] # NULL => b \in Pages /\ Points(s, d, PDX1(v), b)
    BY <1>1, <1>3, MemoryType DEF Points
  <1>5. TableOf(s, d, v) = IF s.ent[d][PDX1(v)] = NULL \/ s.ent[b][PDX0(v)] = NULL THEN NULL
                           ELSE s.ent[b][PDX0(v)].pg
    BY <1>3 DEF TableOf
  <1>6. TableOf(s, d, v) # NULL => TableOf(s, d, v) \in Pages /\ b \in Pages /\ Points(s, d, PDX1(v), b)
                                    /\ Points(s, b, PDX0(v), TableOf(s, d, v))
    BY <1>1, <1>4, <1>5, MemoryType DEF Points
  <1>7. Pte(s, d, v) = IF TableOf(s, d, v) = NULL THEN NULL ELSE s.ent[TableOf(s, d, v)][PTX(v)]
    BY DEF Pte
  <1>8. TableOf(s, d, v) # NULL => s.ent[TableOf(s, d, v)][PTX(v)] \in Entries \cup {NULL}
    BY <1>1, <1>6, MemoryType
  <1>9. Pte(s, d, v) \in Entries \cup {NULL}
    BY <1>7, <1>8
  <1>10. ASSUME NEW c \in Pages, NEW t \in Pages, Points(s, d, PDX1(v), c), Points(s, c, PDX0(v), t)
         PROVE  TableOf(s, d, v) = t
    BY <1>2, <1>3, <1>5, <1>10 DEF Points
  <1>11. Pte(s, d, v) # NULL => Pte(s, d, v).pg \in Pages
    BY <1>9 DEF Entries
  <1> QED
    BY <1>6, <1>7, <1>9, <1>10, <1>11 DEF Points

(* Another address space is not affected. *)
LEMMA Frame ==
    ASSUME NEW s, Forest(s), NEW e, Root(s, e), NEW W, Tree(s, e) \cap W = {},
           NEW r \in Memories, r.free \subseteq W, Local(s, r, W)
    PROVE  /\ Root(r, e) /\ Tree(r, e) \cap W = {}
           /\ \A v \in VPages : SameAt(s, r, e, v)
  <1>0. s \in Memories /\ e \in Pages /\ e \notin s.free
    BY DEF Forest, Root
  <1>1. e \in Tree(s, e) /\ Tree(s, e) \in SUBSET Pages /\ Closed(s, Tree(s, e))
    BY <1>0, TreeFacts
  <1>2. \A t \in Tree(s, e) : r.ent[t] = s.ent[t] /\ r.data[t] = s.data[t]
    BY <1>1 DEF Local
  <1>3. Root(r, e)
    BY <1>0, <1>1 DEF Root, Local
  <1>4. Closed(r, Tree(s, e))
    BY <1>1, <1>2 DEF Closed, Points
  <1>5. Tree(r, e) \subseteq Tree(s, e)
    BY <1>0, <1>1, <1>4, TreeFacts
  <1>6. ASSUME NEW v \in VPages PROVE SameAt(s, r, e, v)
    <2>0. PDX1(v) \in Idx /\ PDX0(v) \in Idx /\ PTX(v) \in Idx
      BY IndexFacts
    <2>1. r.ent[e][PDX1(v)] = s.ent[e][PDX1(v)]
      BY <1>1, <1>2
    <2>2. ASSUME NEW b \in Pages, Points(s, e, PDX1(v), b) PROVE r.ent[b] = s.ent[b] /\ b \in Tree(s, e)
      BY <1>1, <1>2, <2>0, <2>2 DEF Closed
    <2>3. s.ent[e][PDX1(v)] # NULL => r.ent[s.ent[e][PDX1(v)].pg] = s.ent[s.ent[e][PDX1(v)].pg]
      BY <1>0, <2>0, <2>2, MemoryType DEF Points
    <2>4. TableOf(r, e, v) = TableOf(s, e, v)
      BY <2>1, <2>3 DEF TableOf
    <2>5. ASSUME TableOf(s, e, v) # NULL
          PROVE  TableOf(s, e, v) \in Tree(s, e)
      <3>1. PICK b \in Pages : Points(s, e, PDX1(v), b) /\ Points(s, b, PDX0(v), TableOf(s, e, v))
        BY <1>0, <2>5, WalkFacts
      <3>2. TableOf(s, e, v) \in Pages
        BY <1>0, <2>5, WalkFacts
      <3> QED
        BY <1>1, <2>0, <2>2, <3>1, <3>2 DEF Closed
    <2>6. Pte(r, e, v) = Pte(s, e, v)
      BY <1>2, <2>4, <2>5 DEF Pte
    <2>7. ASSUME Pte(s, e, v) # NULL PROVE r.data[Pte(s, e, v).pg] = s.data[Pte(s, e, v).pg]
      <3>1. PICK g \in Pages : g = Pte(s, e, v).pg /\ Points(s, TableOf(s, e, v), PTX(v), g)
        BY <1>0, <2>7, WalkFacts
      <3>2. g \in Tree(s, e)
        BY <1>0, <1>1, <2>0, <2>5, <2>7, <3>1, WalkFacts DEF Closed
      <3> QED
        BY <1>2, <3>1, <3>2
    <2> QED
      BY <2>6, <2>7 DEF SameAt
  <1> QED
    BY <1>3, <1>5, <1>6

---------------------------------------------------------------------------
(* The operations on single pages.                                         *)

LEMMA NoEntriesType ==
    /\ NoEntries \in [Idx -> Entries \cup {NULL}]
    /\ \A i \in Idx : NoEntries[i] = NULL
  BY DEF NoEntries, Idx

(* The fields of a memory after free_page. *)
Freed(s, r, g) ==
    /\ r \in Memories /\ r.free = s.free \cup {g}
    /\ r.ref = [s.ref EXCEPT ![g] = 0] /\ r.ent = [s.ent EXCEPT ![g] = NoEntries]
    /\ r.data = [s.data EXCEPT ![g] = 0]
    /\ r.err = IF g \in s.free THEN "panic" ELSE s.err

LEMMA FreePageFacts ==
    ASSUME NEW s \in Memories, NEW g \in Pages
    PROVE  Freed(s, free_page(s, g), g)
  <1>0. PICK r : r = free_page(s, g)
    OBVIOUS
  <1>1. /\ r.free = s.free \cup {g}
        /\ r.ref = [s.ref EXCEPT ![g] = 0] /\ r.ent = [s.ent EXCEPT ![g] = NoEntries]
        /\ r.data = [s.data EXCEPT ![g] = 0]
        /\ r.err = IF g \in s.free THEN "panic" ELSE s.err
        /\ r = [free |-> r.free, ref |-> r.ref, ent |-> r.ent, data |-> r.data, err |-> r.err]
    BY <1>0 DEF free_page, Memories
  <1>2. r.free \in SUBSET Pages /\ r.ref \in [Pages -> Int] /\ r.data \in [Pages -> Values]
    BY <1>1, VmAssumption DEF Memories
  <1>3. r.ent \in [Pages -> [Idx -> Entries \cup {NULL}]]
    BY <1>1, NoEntriesType DEF Memories
  <1>4. r.err \in {"none", "E_NO_MEM", "panic"}
    BY <1>1 DEF Memories
  <1>5. r \in Memories
    BY <1>1, <1>2, <1>3, <1>4 DEF Memories
  <1> QED
    BY <1>0, <1>1, <1>5, Zenon DEF Freed

(* The entry i of the page t is cleared and the page g that it pointed to is
   freed. *)
Cleared(s, q, t, i, g) ==
    /\ q \in Memories /\ q.free = s.free /\ q.data = s.data /\ q.err = s.err
    /\ q.ent = [s.ent EXCEPT ![t] = [s.ent[t] EXCEPT ![i] = NULL]]
    /\ \A h \in Pages \ {g} : q.ref[h] = s.ref[h]

LEMMA Drop ==
    ASSUME NEW s, NEW d, NEW W, Space(s, d, W),
           NEW t \in W, NEW i \in Idx, NEW g \in Pages, Points(s, t, i, g),
           NEW q, Cleared(s, q, t, i, g), NEW r, r = free_page(q, g)
    PROVE  /\ Space(r, d, W) /\ Local(s, r, W)
           /\ r.free = s.free \cup {g} /\ r.err = s.err /\ g \in W
           /\ \A u \in Pages \ {g}, j \in Idx : r.ent[u][j] = IF u = t /\ j = i THEN NULL ELSE s.ent[u][j]
           /\ r.ent[g] = NoEntries
           /\ \A h \in Pages \ {g} : r.data[h] = s.data[h]
  <1> USE DEF Cleared
  <1>0. /\ s \in Memories /\ W \in SUBSET Pages /\ t \in Pages /\ d \in Pages
        /\ g \notin s.free /\ g # d /\ g \in W
    BY DEF Space, Forest, Root, Closed
  <1>1. /\ r \in Memories /\ r.free = s.free \cup {g}
        /\ r.ref = [q.ref EXCEPT ![g] = 0] /\ r.ent = [q.ent EXCEPT ![g] = NoEntries]
        /\ r.data = [q.data EXCEPT ![g] = 0] /\ r.err = s.err
    <2>1. Freed(q, r, g)
      BY FreePageFacts
    <2> QED
      BY <1>0, <2>1 DEF Freed
  <1>2. s.ent \in [Pages -> [Idx -> Entries \cup {NULL}]] /\ s.ref \in [Pages -> Int] /\ s.data \in [Pages -> Values]
    BY <1>0 DEF Memories
  <1>3. /\ \A u \in Pages \ {g}, j \in Idx : r.ent[u][j] = IF u = t /\ j = i THEN NULL ELSE s.ent[u][j]
        /\ r.ent[g] = NoEntries
    BY <1>0, <1>1, <1>2
  <1>4. \A h \in Pages \ {g} : r.data[h] = s.data[h] /\ r.ref[h] = s.ref[h]
    BY <1>1, <1>2 DEF Memories
  <1>5. \A u \in Pages \ {t, g} : r.ent[u] = s.ent[u]
    BY <1>1, <1>2
  <1>6. \A u, h \in Pages, j \in Idx : Points(r, u, j, h) => Points(s, u, j, h) /\ ~(u = t /\ j = i) /\ u # g
    BY <1>3, NoEntriesType DEF Points
  <1>7. \A u, h \in Pages, j \in Idx : Points(r, u, j, h) => h # g
    BY <1>0, <1>6 DEF Space, Forest
  <1>8. Forest(r)
    <2>1. ASSUME NEW h \in r.free PROVE r.ent[h] = NoEntries /\ r.ref[h] = 0
      <3>1. CASE h = g
        BY <3>1, <1>1, <1>3 DEF Memories
      <3>2. CASE h # g
        <4>1. h \in s.free /\ h \in Pages /\ s.ent[h] = NoEntries /\ s.ref[h] = 0
          BY <1>0, <1>1, <3>2, MemoryType DEF Space, Forest
        <4>2. h # t
          BY <4>1, NoEntriesType DEF Points
        <4> QED
          BY <1>4, <1>5, <3>2, <4>1, <4>2
      <3> QED
        BY <3>1, <3>2
    <2>2. ASSUME NEW u \in Pages, NEW h \in Pages, NEW j \in Idx, Points(r, u, j, h)
          PROVE  h \notin r.free /\ r.ref[h] = 1
      BY <1>1, <1>4, <1>6, <1>7, <2>2 DEF Space, Forest
    <2>3. ASSUME NEW u \in Pages, NEW x \in Pages, NEW h \in Pages, NEW j \in Idx, NEW l \in Idx,
                 Points(r, u, j, h), Points(r, x, l, h)
          PROVE  u = x /\ j = l
      BY <1>6, <2>3 DEF Space, Forest
    <2> QED
      BY <1>1, <2>1, <2>2, <2>3 DEF Forest
  <1>9. Root(r, d)
    BY <1>0, <1>1, <1>6 DEF Space, Root
  <1>10. Space(r, d, W)
    BY <1>0, <1>1, <1>6, <1>8, <1>9 DEF Space, Closed
  <1>11. Local(s, r, W)
    BY <1>0, <1>4, <1>5, <1>6 DEF Local
  <1> QED
    BY <1>0, <1>1, <1>3, <1>4, <1>10, <1>11

LEMMA NextFreeFacts ==
    ASSUME NEW s \in Memories, s.free # {}
    PROVE  NextFree(s) \in s.free /\ NextFree(s) \in Pages
  <1>1. s.free \subseteq Pages /\ s.free \in SUBSET Nat
    BY MemoryType DEF Pages
  <1> QED
    BY <1>1, LeastNat DEF NextFree

(* Nothing points to the page g, and d is another one. *)
Loose(s, d, g) == g \in Pages /\ g # d /\ \A t \in Pages, i \in Idx : ~Points(s, t, i, g)

(* The entry i of the page t becomes x, and nothing else outside of W. *)
Attached(s, r, W, t, i, x) ==
    /\ r \in Memories /\ r.free = s.free \ {x.pg}
    /\ r.ent = [s.ent EXCEPT ![t] = [s.ent[t] EXCEPT ![i] = x]]
    /\ r.ref[x.pg] = 1 /\ \A h \in Pages \ {x.pg} : r.ref[h] = s.ref[h]
    /\ \A h \in Pages \ W : r.data[h] = s.data[h]

LEMMA Attach ==
    ASSUME NEW s, NEW d, NEW W, Space(s, d, W),
           NEW t \in W \ s.free, NEW i \in Idx, s.ent[t][i] = NULL,
           NEW x \in Entries, x.pg \in W, x.pg # t, Loose(s, d, x.pg),
           NEW r, Attached(s, r, W, t, i, x)
    PROVE  /\ Space(r, d, W) /\ Local(s, r, W)
           /\ r.ent[t][i] = x
           /\ \A u \in Pages, j \in Idx : ~(u = t /\ j = i) => r.ent[u][j] = s.ent[u][j]
           /\ \A u \in Pages \ {t} : r.ent[u] = s.ent[u]
  <1> DEFINE g == x.pg
  <1> USE DEF Attached
  <1>0. /\ s \in Memories /\ W \in SUBSET Pages /\ t \in Pages /\ d \in Pages /\ g \in Pages /\ t \notin s.free
        /\ s.free \subseteq Pages
    BY MemoryType DEF Space, Forest, Root
  <1>1. s.ent \in [Pages -> [Idx -> Entries \cup {NULL}]]
    BY <1>0 DEF Memories
  <1>2. /\ r.ent[t][i] = x
        /\ \A u \in Pages, j \in Idx : ~(u = t /\ j = i) => r.ent[u][j] = s.ent[u][j]
        /\ \A u \in Pages \ {t} : r.ent[u] = s.ent[u]
    BY <1>0, <1>1
  <1>3. \A u, h \in Pages, j \in Idx :
           Points(r, u, j, h) => \/ u = t /\ j = i /\ h = g
                                 \/ Points(s, u, j, h) /\ h # g
    BY <1>2 DEF Points, Loose
  <1>4. Forest(r)
    <2>1. ASSUME NEW h \in r.free PROVE r.ent[h] = NoEntries /\ r.ref[h] = 0
      <3>1. h \in s.free /\ h # g /\ h \in Pages
        BY <1>0
      <3>2. s.ent[h] = NoEntries /\ s.ref[h] = 0 /\ h # t
        BY <1>0, <3>1 DEF Space, Forest
      <3> QED
        BY <1>2, <3>1, <3>2
    <2>2. ASSUME NEW u \in Pages, NEW h \in Pages, NEW j \in Idx, Points(r, u, j, h)
          PROVE  h \notin r.free /\ r.ref[h] = 1
      BY <1>3, <2>2 DEF Space, Forest
    <2>3. ASSUME NEW u \in Pages, NEW y \in Pages, NEW h \in Pages, NEW j \in Idx, NEW l \in Idx,
                 Points(r, u, j, h), Points(r, y, l, h)
          PROVE  u = y /\ j = l
      BY <1>3, <2>3 DEF Space, Forest
    <2> QED
      BY <2>1, <2>2, <2>3 DEF Forest
  <1>5. Root(r, d)
    BY <1>0, <1>3 DEF Space, Root, Loose
  <1>6. Space(r, d, W)
    BY <1>0, <1>3, <1>4, <1>5 DEF Space, Closed
  <1>7. Local(s, r, W)
    BY <1>0, <1>2, <1>3 DEF Local
  <1> QED
    BY <1>2, <1>6, <1>7

(* A page directory, its level 0 directories and its tables are different
   pages. *)
LEMMA Levels ==
    ASSUME NEW s, Forest(s), NEW d, Root(s, d), NEW b \in Pages, NEW i \in Idx, Points(s, d, i, b)
    PROVE  /\ b # d
           /\ \A c, t \in Pages, j, l \in Idx : Points(s, d, j, c) /\ Points(s, c, l, t) => t # d /\ t # b
           /\ \A c, t, g \in Pages, j, l, n \in Idx :
                 Points(s, d, j, c) /\ Points(s, c, l, t) /\ Points(s, t, n, g) => g # d /\ g # b
  <1>0. d \in Pages
    BY DEF Root
  <1>1. b # d
    BY <1>0 DEF Root
  <1>2. ASSUME NEW c \in Pages, NEW t \in Pages, NEW j \in Idx, NEW l \in Idx,
               Points(s, d, j, c), Points(s, c, l, t)
        PROVE  t # d /\ t # b
    <2>1. c # d
      BY <1>0, <1>2 DEF Root
    <2> QED
      BY <1>0, <1>2, <2>1 DEF Root, Forest
  <1>3. ASSUME NEW c \in Pages, NEW t \in Pages, NEW g \in Pages, NEW j \in Idx, NEW l \in Idx, NEW n \in Idx,
               Points(s, d, j, c), Points(s, c, l, t), Points(s, t, n, g)
        PROVE  g # d /\ g # b
    <2>1. t # d
      BY <1>2, <1>3
    <2> QED
      BY <1>0, <1>3, <2>1 DEF Root, Forest
  <1> QED
    BY <1>1, <1>2, <1>3

(* A step that changes the table of v and the page behind its entry only
   leaves the tables of the address space where they are. *)
LEMMA SameTables ==
    ASSUME NEW s, Forest(s), NEW d, Root(s, d), NEW v \in VPages, TableOf(s, d, v) # NULL,
           NEW r \in Memories,
           \A h \in Pages : \/ h = TableOf(s, d, v)
                            \/ Points(s, TableOf(s, d, v), PTX(v), h)
                            \/ r.ent[h] = s.ent[h]
    PROVE  \A u \in VPages : TableOf(r, d, u) = TableOf(s, d, u)
  <1>0. s \in Memories /\ d \in Pages
    BY DEF Forest, Root
  <1>1. PDX1(v) \in Idx /\ PDX0(v) \in Idx /\ PTX(v) \in Idx
    BY IndexFacts
  <1>2. PICK t \in Pages : t = TableOf(s, d, v)
    BY <1>0, WalkFacts
  <1>3. PICK b \in Pages : Points(s, d, PDX1(v), b) /\ Points(s, b, PDX0(v), t)
    BY <1>0, <1>2, WalkFacts
  <1>4. ASSUME NEW c \in Pages, NEW j \in Idx, Points(s, d, j, c) PROVE r.ent[c] = s.ent[c]
    <2>1. c # t /\ ~Points(s, t, PTX(v), c)
      BY <1>1, <1>2, <1>3, <1>4, Levels
    <2> QED
      BY <1>2, <2>1
  <1>5. r.ent[d] = s.ent[d]
    <2>1. d # t /\ ~Points(s, t, PTX(v), d)
      BY <1>0, <1>1, <1>2, <1>3, Levels, SMTT(30)
    <2> QED
      BY <1>0, <1>2, <2>1
  <1>6. ASSUME NEW u \in VPages PROVE TableOf(r, d, u) = TableOf(s, d, u)
    <2>1. PDX1(u) \in Idx
      BY IndexFacts
    <2>2. s.ent[d][PDX1(u)] # NULL => r.ent[s.ent[d][PDX1(u)].pg] = s.ent[s.ent[d][PDX1(u)].pg]
      BY <1>0, <1>4, <2>1, MemoryType DEF Points
    <2> QED
      BY <1>5, <2>2 DEF TableOf
  <1> QED
    BY <1>6

(* Different pages have different entries. *)
LEMMA OtherEntry ==
    ASSUME NEW s, Forest(s), NEW d, Root(s, d), NEW u \in VPages, NEW v \in VPages, u # v,
           TableOf(s, d, u) # NULL, TableOf(s, d, u) = TableOf(s, d, v)
    PROVE  PTX(u) # PTX(v)
  <1>0. s \in Memories /\ d \in Pages
    BY DEF Forest, Root
  <1>1. PDX1(v) \in Idx /\ PDX0(v) \in Idx /\ PDX1(u) \in Idx /\ PDX0(u) \in Idx
    BY IndexFacts
  <1>2. PICK t \in Pages : t = TableOf(s, d, v)
    BY <1>0, WalkFacts
  <1>3. PICK b \in Pages : Points(s, d, PDX1(v), b) /\ Points(s, b, PDX0(v), t)
    BY <1>0, <1>2, WalkFacts
  <1>4. PICK c \in Pages : Points(s, d, PDX1(u), c) /\ Points(s, c, PDX0(u), t)
    BY <1>0, <1>2, WalkFacts
  <1>5. b = c /\ PDX0(u) = PDX0(v)
    BY <1>1, <1>3, <1>4 DEF Forest
  <1>6. PDX1(u) = PDX1(v)
    BY <1>0, <1>1, <1>3, <1>4, <1>5 DEF Forest
  <1> QED
    BY <1>5, <1>6, IndexInjective

---------------------------------------------------------------------------
(* The page tables grow.                                                   *)

(* From s to r the address space d may have got tables, and nothing that is
   mapped or not free has changed. *)
Grown(s, r, d, W) ==
    /\ Space(r, d, W) /\ Local(s, r, W)
    /\ r.err = s.err /\ r.data = s.data /\ r.free \subseteq s.free
    /\ \A g \in Pages \ s.free : r.ref[g] = s.ref[g] /\ (Loose(s, d, g) => Loose(r, d, g))

LEMMA GrownTrans ==
    ASSUME NEW s, NEW q, NEW r, NEW d, NEW W, Grown(s, q, d, W), Grown(q, r, d, W)
    PROVE  Grown(s, r, d, W)
  <1>1. Local(s, r, W)
    BY LocalTrans DEF Grown
  <1> QED
    BY <1>1 DEF Grown

(* The entry of t has a new, empty table, or nothing has happened. *)
LEMMA AddTableFacts ==
    ASSUME NEW s, NEW d, NEW W, Space(s, d, W), NEW t \in W \ s.free, NEW i \in Idx,
           NEW r, r = AddTable(s, t, i)
    PROVE  /\ Grown(s, r, d, W)
           /\ \A u \in Pages, j \in Idx : ~(u = t /\ j = i) => r.ent[u][j] = s.ent[u][j]
           /\ \A u \in Pages \ {t} : r.ent[u] = s.ent[u]
           /\ s.ent[t][i] # NULL => r.ent[t][i] = s.ent[t][i]
           /\ s.ent[t][i] = NULL /\ r.ent[t][i] # NULL =>
                 r.ent[t][i].pg \in Pages /\ r.ent[r.ent[t][i].pg] = NoEntries
  <1>0. s \in Memories /\ W \in SUBSET Pages /\ t \in Pages /\ d \in Pages \ s.free /\ s.free \subseteq Pages
    BY MemoryType DEF Space, Forest, Root
  <1>1. CASE s.ent[t][i] # NULL \/ s.free = {}
    <2>1. r = s
      BY <1>1 DEF AddTable
    <2>2. Grown(s, s, d, W)
      BY LocalSelf DEF Grown
    <2>3. s.ent[t][i] = NULL => s.free = {}
      BY <1>1
    <2> QED
      BY <1>1, <2>1, <2>2, <2>3
  <1>2. CASE s.ent[t][i] = NULL /\ s.free # {}
    <2>1. PICK g \in s.free : g = NextFree(s) /\ g \in Pages
      BY <1>0, <1>2, NextFreeFacts
    <2>2. PICK x : x = [pg |-> g, w |-> FALSE]
      OBVIOUS
    <2>3. x \in Entries /\ x.pg = g
      BY <2>1, <2>2 DEF Entries
    <2>4. x # NULL
      BY <2>3, PagesAssumption
    <2>5. r = [[s EXCEPT !.free = @ \ {g}] EXCEPT !.ref[g] = 1, !.ent[t][i] = x]
      BY <1>2, <2>1, <2>2 DEF AddTable, Take
    <2>6. /\ r.free = s.free \ {g} /\ r.ref = [s.ref EXCEPT ![g] = 1]
          /\ r.ent = [s.ent EXCEPT ![t] = [s.ent[t] EXCEPT ![i] = x]]
          /\ r.data = s.data /\ r.err = s.err
          /\ r = [free |-> r.free, ref |-> r.ref, ent |-> r.ent, data |-> r.data, err |-> r.err]
      BY <1>0, <2>5 DEF Memories
    <2>7. r \in Memories
      <3>1. r.free \in SUBSET Pages /\ r.ref \in [Pages -> Int]
        BY <1>0, <2>1, <2>6 DEF Memories
      <3>2. r.ent \in [Pages -> [Idx -> Entries \cup {NULL}]]
        BY <1>0, <2>3, <2>6 DEF Memories
      <3>3. r.data \in [Pages -> Values] /\ r.err \in {"none", "E_NO_MEM", "panic"}
        BY <1>0, <2>6 DEF Memories
      <3> QED
        BY <2>6, <3>1, <3>2, <3>3 DEF Memories
    <2>8. r.ref[g] = 1 /\ \A h \in Pages \ {g} : r.ref[h] = s.ref[h]
      BY <1>0, <2>1, <2>6 DEF Memories
    <2>9. Loose(s, d, g) /\ g # t /\ g \in W
      BY <1>0, <2>1 DEF Loose, Space, Forest, Root
    <2>10. /\ Space(r, d, W) /\ Local(s, r, W)
           /\ r.ent[t][i] = x
           /\ \A u \in Pages, j \in Idx : ~(u = t /\ j = i) => r.ent[u][j] = s.ent[u][j]
           /\ \A u \in Pages \ {t} : r.ent[u] = s.ent[u]
      <3>1. Attached(s, r, W, t, i, x)
        BY <2>3, <2>6, <2>7, <2>8 DEF Attached
      <3> QED
        BY <1>2, <2>3, <2>9, <3>1, Attach
    <2>11. r.ent[g] = NoEntries
      BY <2>1, <2>9, <2>10 DEF Space, Forest
    <2>12. \A h \in Pages \ s.free : Loose(s, d, h) => Loose(r, d, h)
      BY <2>1, <2>3, <2>10 DEF Loose, Points
    <2>13. Grown(s, r, d, W)
      BY <2>1, <2>6, <2>8, <2>10, <2>12 DEF Grown
    <2> QED
      BY <1>2, <2>1, <2>3, <2>10, <2>11, <2>13
  <1> QED
    BY <1>1, <1>2

(* get_pte maps nothing. *)
LEMMA GetPteFacts ==
    ASSUME NEW s, NEW d, NEW W, Space(s, d, W), NEW v \in VPages, NEW r, r = get_pte(s, d, v)
    PROVE  /\ Grown(s, r, d, W)
           /\ \A u \in VPages : Pte(r, d, u) = Pte(s, d, u)
  <1>0. s \in Memories /\ W \in SUBSET Pages /\ d \in W \ s.free /\ d \in Pages /\ Forest(s) /\ Root(s, d)
    BY DEF Space, Forest, Root
  <1>1. PDX1(v) \in Idx /\ PDX0(v) \in Idx /\ PTX(v) \in Idx
    BY IndexFacts
  <1>2. PICK i \in Idx : i = PDX1(v)
    BY <1>1
  <1>3. PICK q : q = AddTable(s, d, i)
    OBVIOUS
  <1>4. /\ Grown(s, q, d, W)
        /\ \A u \in Pages, j \in Idx : ~(u = d /\ j = i) => q.ent[u][j] = s.ent[u][j]
        /\ \A u \in Pages \ {d} : q.ent[u] = s.ent[u]
        /\ s.ent[d][i] # NULL => q.ent[d][i] = s.ent[d][i]
        /\ s.ent[d][i] = NULL /\ q.ent[d][i] # NULL =>
              q.ent[d][i].pg \in Pages /\ q.ent[q.ent[d][i].pg] = NoEntries
    BY <1>0, <1>3, AddTableFacts
  <1>5. Space(q, d, W) /\ Forest(q) /\ Root(q, d) /\ q \in Memories
    BY <1>4 DEF Grown, Space, Forest
  <1>6. ASSUME NEW u \in VPages PROVE Pte(q, d, u) = Pte(s, d, u)
    <2>0. PDX1(u) \in Idx /\ PDX0(u) \in Idx /\ PTX(u) \in Idx
      BY IndexFacts
    <2>1. CASE q.ent[d][PDX1(u)] = s.ent[d][PDX1(u)]
      <3>1. ASSUME NEW b \in Pages, Points(s, d, PDX1(u), b) PROVE q.ent[b] = s.ent[b]
        BY <1>0, <1>4, <2>0, <3>1, Levels
      <3>2. s.ent[d][PDX1(u)] # NULL => q.ent[s.ent[d][PDX1(u)].pg] = s.ent[s.ent[d][PDX1(u)].pg]
        BY <1>0, <2>0, <3>1, MemoryType DEF Points
      <3>3. TableOf(q, d, u) = TableOf(s, d, u)
        BY <2>1, <3>2 DEF TableOf
      <3>4. ASSUME TableOf(s, d, u) # NULL PROVE q.ent[TableOf(s, d, u)] = s.ent[TableOf(s, d, u)]
        <4>1. PICK t \in Pages : t = TableOf(s, d, u)
          BY <1>0, <3>4, WalkFacts
        <4>2. PICK b \in Pages : Points(s, d, PDX1(u), b) /\ Points(s, b, PDX0(u), t)
          BY <1>0, <3>4, <4>1, WalkFacts
        <4>3. t # d
          BY <1>0, <2>0, <4>2, Levels
        <4> QED
          BY <1>4, <4>1, <4>3
      <3> QED
        BY <3>3, <3>4 DEF Pte
    <2>2. CASE q.ent[d][PDX1(u)] # s.ent[d][PDX1(u)]
      <3>1. PDX1(u) = i /\ s.ent[d][i] = NULL /\ q.ent[d][i] # NULL
        BY <1>0, <1>4, <2>0, <2>2
      <3>2. Pte(s, d, u) = NULL
        BY <3>1 DEF Pte, TableOf
      <3>3. q.ent[q.ent[d][PDX1(u)].pg][PDX0(u)] = NULL
        BY <1>4, <2>0, <3>1, NoEntriesType
      <3>4. TableOf(q, d, u) = NULL
        BY <3>3 DEF TableOf
      <3> QED
        BY <3>2, <3>4 DEF Pte
    <2> QED
      BY <2>1, <2>2
  <1>7. CASE q.ent[d][i] = NULL
    <2>1. r = q
      BY <1>2, <1>3, <1>7 DEF get_pte
    <2> QED
      BY <1>4, <1>6, <2>1
  <1>8. CASE q.ent[d][i] # NULL
    <2>1. PICK b \in Pages : b = q.ent[d][i].pg /\ Points(q, d, i, b)
      BY <1>0, <1>5, <1>8, MemoryType DEF Points
    <2>2. PICK j \in Idx : j = PDX0(v)
      BY <1>1
    <2>3. r = AddTable(q, b, j)
      BY <1>2, <1>3, <1>8, <2>1, <2>2 DEF get_pte
    <2>4. b \in W \ q.free /\ b # d
      BY <1>0, <1>5, <2>1, Levels DEF Space, Closed, Forest
    <2>5. /\ Grown(q, r, d, W)
          /\ \A u \in Pages, l \in Idx : ~(u = b /\ l = j) => r.ent[u][l] = q.ent[u][l]
          /\ \A u \in Pages \ {b} : r.ent[u] = q.ent[u]
          /\ q.ent[b][j] # NULL => r.ent[b][j] = q.ent[b][j]
          /\ q.ent[b][j] = NULL /\ r.ent[b][j] # NULL =>
                r.ent[b][j].pg \in Pages /\ r.ent[r.ent[b][j].pg] = NoEntries
      BY <1>5, <2>3, <2>4, AddTableFacts
    <2>6. ASSUME NEW u \in VPages PROVE Pte(r, d, u) = Pte(q, d, u)
      <3>0. PDX1(u) \in Idx /\ PDX0(u) \in Idx /\ PTX(u) \in Idx
        BY IndexFacts
      <3>1. r.ent[d] = q.ent[d]
        BY <1>0, <2>4, <2>5
      <3>2. CASE q.ent[d][PDX1(u)] = NULL
        BY <3>1, <3>2 DEF Pte, TableOf
      <3>3. CASE q.ent[d][PDX1(u)] # NULL
        <4>1. PICK c \in Pages : c = q.ent[d][PDX1(u)].pg /\ Points(q, d, PDX1(u), c)
          BY <1>0, <1>5, <3>0, <3>3, MemoryType DEF Points
        <4>2. CASE r.ent[c][PDX0(u)] = q.ent[c][PDX0(u)]
          <5>1. TableOf(r, d, u) = TableOf(q, d, u)
            BY <3>1, <4>1, <4>2 DEF TableOf
          <5>2. ASSUME TableOf(q, d, u) # NULL PROVE r.ent[TableOf(q, d, u)] = q.ent[TableOf(q, d, u)]
            <6>1. PICK t \in Pages : t = TableOf(q, d, u)
              BY <1>0, <1>5, <5>2, WalkFacts
            <6>2. PICK a \in Pages : Points(q, d, PDX1(u), a) /\ Points(q, a, PDX0(u), t)
              BY <1>0, <1>5, <5>2, <6>1, WalkFacts
            <6>3. t # b
              BY <1>5, <2>1, <3>0, <6>2, Levels
            <6> QED
              BY <2>5, <6>1, <6>3
          <5> QED
            BY <5>1, <5>2 DEF Pte
        <4>3. CASE r.ent[c][PDX0(u)] # q.ent[c][PDX0(u)]
          <5>1. c = b /\ PDX0(u) = j /\ q.ent[b][j] = NULL /\ r.ent[b][j] # NULL
            BY <2>5, <3>0, <4>1, <4>3
          <5>2. Pte(q, d, u) = NULL
            BY <4>1, <5>1 DEF Pte, TableOf
          <5>3. TableOf(r, d, u) = r.ent[b][j].pg
            BY <3>1, <3>3, <4>1, <5>1 DEF TableOf
          <5>4. r.ent[r.ent[b][j].pg][PTX(u)] = NULL
            BY <2>5, <3>0, <5>1, NoEntriesType
          <5> QED
            BY <5>2, <5>3, <5>4 DEF Pte
        <4> QED
          BY <4>2, <4>3
      <3> QED
        BY <3>2, <3>3
    <2>7. Grown(s, r, d, W)
      BY <1>4, <2>5, GrownTrans
    <2> QED
      BY <1>6, <2>6, <2>7
  <1> QED
    BY <1>7, <1>8

---------------------------------------------------------------------------
(* Pages are mapped and unmapped.                                          *)

(* Only the contents of pages in W, the free pages and err change. *)
LEMMA Retouch ==
    ASSUME NEW s, NEW d, NEW W, Space(s, d, W), NEW r \in Memories,
           r.ent = s.ent, r.ref = s.ref, r.free \subseteq s.free,
           \A h \in Pages \ W : r.data[h] = s.data[h]
    PROVE  /\ Space(r, d, W) /\ Local(s, r, W)
           /\ \A e, v : TableOf(r, e, v) = TableOf(s, e, v) /\ Pte(r, e, v) = Pte(s, e, v)
           /\ \A g : Loose(s, d, g) => Loose(r, d, g)
  <1>1. \A t, i, g : Points(r, t, i, g) <=> Points(s, t, i, g)
    BY DEF Points
  <1>2. Forest(r)
    BY <1>1 DEF Space, Forest
  <1>3. Space(r, d, W) /\ Local(s, r, W)
    BY <1>1, <1>2 DEF Space, Root, Closed, Local
  <1>4. \A e, v : TableOf(r, e, v) = TableOf(s, e, v) /\ Pte(r, e, v) = Pte(s, e, v)
    BY DEF TableOf, Pte
  <1> QED
    BY <1>1, <1>3, <1>4 DEF Loose

LEMMA RemovePteFacts ==
    ASSUME NEW s, NEW d, NEW W, Space(s, d, W), NEW v \in VPages, Pte(s, d, v) # NULL,
           NEW r, r = page_remove_pte(s, d, v)
    PROVE  /\ Space(r, d, W) /\ Local(s, r, W)
           /\ r.err = s.err /\ r.free = s.free \cup {Pte(s, d, v).pg}
           /\ Pte(r, d, v) = NULL
           /\ \A u \in VPages \ {v} : Pte(r, d, u) = Pte(s, d, u)
  <1>0. s \in Memories /\ W \in SUBSET Pages /\ d \in W /\ d \in Pages /\ Forest(s) /\ Root(s, d)
    BY DEF Space, Forest, Root
  <1>1. PDX1(v) \in Idx /\ PDX0(v) \in Idx /\ PTX(v) \in Idx
    BY IndexFacts
  <1>2. PICK t \in Pages : t = TableOf(s, d, v) /\ TableOf(s, d, v) # NULL
    BY <1>0, WalkFacts
  <1>3. PICK g \in Pages : g = Pte(s, d, v).pg /\ Points(s, t, PTX(v), g) /\ Pte(s, d, v) = s.ent[t][PTX(v)]
    BY <1>0, <1>2, WalkFacts
  <1>4. PICK b \in Pages : Points(s, d, PDX1(v), b) /\ Points(s, b, PDX0(v), t)
    BY <1>0, <1>2, WalkFacts
  <1>5. t \in W /\ s.ref[g] = 1
    BY <1>0, <1>1, <1>3, <1>4 DEF Space, Closed, Forest
  <1>6. PICK i \in Idx : i = PTX(v)
    BY <1>1
  <1>7. PICK q : q = [s EXCEPT !.ref[g] = @ - 1, !.ent[t][i] = NULL]
    OBVIOUS
  <1>8. /\ q.free = s.free /\ q.ref = [s.ref EXCEPT ![g] = @ - 1]
        /\ q.ent = [s.ent EXCEPT ![t] = [s.ent[t] EXCEPT ![i] = NULL]]
        /\ q.data = s.data /\ q.err = s.err
        /\ q = [free |-> q.free, ref |-> q.ref, ent |-> q.ent, data |-> q.data, err |-> q.err]
    BY <1>0, <1>7 DEF Memories
  <1>9. q.ref \in [Pages -> Int] /\ q.ref[g] = 0 /\ \A h \in Pages \ {g} : q.ref[h] = s.ref[h]
    BY <1>0, <1>5, <1>8 DEF Memories
  <1>10. q.ent \in [Pages -> [Idx -> Entries \cup {NULL}]]
    BY <1>0, <1>8 DEF Memories
  <1>11. q \in Memories
    <2>1. q.free \in SUBSET Pages /\ q.data \in [Pages -> Values] /\ q.err \in {"none", "E_NO_MEM", "panic"}
      BY <1>0, <1>8 DEF Memories
    <2> QED
      BY <1>8, <1>9, <1>10, <2>1 DEF Memories
  <1>12. Cleared(s, q, t, i, g)
    BY <1>8, <1>9, <1>11 DEF Cleared
  <1>13. r = free_page(q, g)
    BY <1>2, <1>3, <1>6, <1>7, <1>9 DEF page_remove_pte
  <1>14. /\ Space(r, d, W) /\ Local(s, r, W)
         /\ r.free = s.free \cup {g} /\ r.err = s.err
         /\ \A u \in Pages \ {g}, j \in Idx : r.ent[u][j] = IF u = t /\ j = i THEN NULL ELSE s.ent[u][j]
         /\ r.ent[g] = NoEntries
    BY <1>3, <1>5, <1>6, <1>12, <1>13, Drop
  <1>15. r \in Memories
    BY <1>14 DEF Space, Forest
  <1>16. ASSUME NEW h \in Pages, h # t, ~Points(s, t, PTX(v), h) PROVE r.ent[h] = s.ent[h]
    <2>1. h # g
      BY <1>3, <1>16
    <2>2. \A j \in Idx : r.ent[h][j] = s.ent[h][j]
      BY <1>14, <1>16, <2>1
    <2>3. r.ent[h] \in [Idx -> Entries \cup {NULL}] /\ s.ent[h] \in [Idx -> Entries \cup {NULL}]
      BY <1>0, <1>15, MemoryType
    <2> QED
      BY <2>2, <2>3
  <1>17. \A u \in VPages : TableOf(r, d, u) = TableOf(s, d, u)
    BY <1>0, <1>2, <1>15, <1>16, SameTables
  <1>18. t # g
    BY <1>0, <1>1, <1>3, <1>4, Levels DEF Forest
  <1>19. Pte(r, d, v) = NULL
    BY <1>2, <1>6, <1>14, <1>17, <1>18 DEF Pte
  <1>20. ASSUME NEW u \in VPages \ {v} PROVE Pte(r, d, u) = Pte(s, d, u)
    <2>1. CASE TableOf(s, d, u) = NULL
      BY <1>17, <2>1 DEF Pte
    <2>2. CASE TableOf(s, d, u) # NULL
      <3>0. PDX1(u) \in Idx /\ PDX0(u) \in Idx /\ PTX(u) \in Idx
        BY IndexFacts
      <3>1. PICK x \in Pages : x = TableOf(s, d, u)
        BY <1>0, <2>2, WalkFacts
      <3>2. PICK c \in Pages : Points(s, d, PDX1(u), c) /\ Points(s, c, PDX0(u), x)
        BY <1>0, <2>2, <3>1, WalkFacts
      <3>3. x # g
        <4>1. t # c
          BY <1>0, <1>1, <1>4, <3>0, <3>2, Levels
        <4> QED
          BY <1>0, <1>1, <1>3, <3>0, <3>2, <4>1 DEF Forest
      <3>4. ~(x = t /\ PTX(u) = i)
        BY <1>0, <1>2, <1>6, <2>2, <3>1, OtherEntry
      <3>5. r.ent[x][PTX(u)] = s.ent[x][PTX(u)]
        BY <1>14, <3>0, <3>3, <3>4
      <3> QED
        BY <1>17, <2>2, <3>1, <3>5 DEF Pte
    <2> QED
      BY <2>1, <2>2
  <1> QED
    BY <1>3, <1>14, <1>19, <1>20

(* err is all that changes. *)
LEMMA SetErr ==
    ASSUME NEW s \in Memories, NEW x \in {"none", "E_NO_MEM", "panic"}, NEW r, r = [s EXCEPT !.err = x]
    PROVE  r \in Memories /\ r.ent = s.ent /\ r.ref = s.ref /\ r.free = s.free /\ r.data = s.data /\ r.err = x
  BY DEF Memories

(* The page v of the address space d is mapped now, with the rights w. *)
Mapped(s, r, d, v, w) ==
    /\ Pte(r, d, v) # NULL /\ Pte(r, d, v).w = w
    /\ \A u \in VPages \ {v} : SameAt(s, r, d, u)

LEMMA PageInsertFacts ==
    ASSUME NEW s, NEW d, NEW W, Space(s, d, W), s.err = "none", NEW v \in VPages, Pte(s, d, v) = NULL,
           NEW g \in W \ s.free, Loose(s, d, g), s.ref[g] = 0, NEW w \in BOOLEAN,
           NEW r, r = page_insert(s, d, g, v, w)
    PROVE  /\ Space(r, d, W) /\ Local(s, r, W) /\ r.free \subseteq s.free /\ r.data = s.data
           /\ \/ r.err = "none" /\ Mapped(s, r, d, v, w) /\ Pte(r, d, v).pg = g
              \/ r.err = "E_NO_MEM" /\ Loose(r, d, g) /\ \A u \in VPages : Pte(r, d, u) = Pte(s, d, u)
  <1>0. s \in Memories /\ W \in SUBSET Pages /\ d \in Pages /\ g \in Pages
    BY DEF Space, Forest, Root
  <1>1. PICK q : q = get_pte(s, d, v)
    OBVIOUS
  <1>2. /\ Grown(s, q, d, W)
        /\ \A u \in VPages : Pte(q, d, u) = Pte(s, d, u)
    BY <1>1, GetPteFacts
  <1>3. /\ Space(q, d, W) /\ Local(s, q, W) /\ q.err = "none" /\ q.data = s.data /\ q.free \subseteq s.free
        /\ q.ref[g] = 0 /\ Loose(q, d, g) /\ q \in Memories /\ Forest(q) /\ Root(q, d) /\ g \notin q.free
    BY <1>0, <1>2 DEF Grown, Space, Forest
  <1>4. Pte(q, d, v) = NULL
    BY <1>2
  <1>5. CASE TableOf(q, d, v) = NULL
    <2>1. r = [q EXCEPT !.err = "E_NO_MEM"]
      BY <1>1, <1>5 DEF page_insert
    <2>2. /\ r \in Memories /\ r.ent = q.ent /\ r.ref = q.ref /\ r.free = q.free /\ r.data = q.data
          /\ r.err = "E_NO_MEM"
      BY <1>3, <2>1, SetErr
    <2>3. Space(r, d, W) /\ Local(q, r, W) /\ Loose(r, d, g) /\ \A u : Pte(r, d, u) = Pte(q, d, u)
      BY <1>3, <2>2, Retouch
    <2>4. \A u \in VPages : Pte(r, d, u) = Pte(s, d, u)
      BY <1>2, <2>3
    <2> QED
      BY <1>3, <2>2, <2>3, <2>4, LocalTrans
  <1>6. CASE TableOf(q, d, v) # NULL
    <2>0. PDX1(v) \in Idx /\ PDX0(v) \in Idx /\ PTX(v) \in Idx
      BY IndexFacts
    <2>1. PICK t \in Pages : t = TableOf(q, d, v)
      BY <1>0, <1>3, <1>6, WalkFacts
    <2>2. PICK b \in Pages : Points(q, d, PDX1(v), b) /\ Points(q, b, PDX0(v), t)
      BY <1>0, <1>3, <1>6, <2>1, WalkFacts
    <2>3. t \in W \ q.free /\ t # g
      BY <1>3, <2>0, <2>2 DEF Space, Closed, Forest, Loose
    <2>4. PICK i \in Idx : i = PTX(v)
      BY <2>0
    <2>5. q.ent[t][i] = NULL
      BY <1>4, <1>6, <2>1, <2>4 DEF Pte
    <2>6. PICK x : x = [pg |-> g, w |-> w]
      OBVIOUS
    <2>7. x \in Entries /\ x.pg = g /\ x.w = w /\ x # NULL
      <3>1. x \in Entries /\ x.pg = g /\ x.w = w
        BY <1>0, <2>6 DEF Entries
      <3> QED
        BY <3>1, PagesAssumption
    <2>8. r = [[q EXCEPT !.ref[g] = @ + 1] EXCEPT !.ent[t][i] = x]
      BY <1>1, <1>4, <1>6, <2>1, <2>4, <2>6 DEF page_insert
    <2>9. /\ r.free = q.free /\ r.ref = [q.ref EXCEPT ![g] = @ + 1]
          /\ r.ent = [q.ent EXCEPT ![t] = [q.ent[t] EXCEPT ![i] = x]]
          /\ r.data = q.data /\ r.err = q.err
          /\ r = [free |-> r.free, ref |-> r.ref, ent |-> r.ent, data |-> r.data, err |-> r.err]
      BY <1>3, <2>8 DEF Memories
    <2>10. r.ref \in [Pages -> Int] /\ r.ref[g] = 1 /\ \A h \in Pages \ {g} : r.ref[h] = q.ref[h]
      BY <1>0, <1>3, <2>9 DEF Memories
    <2>11. r \in Memories
      <3>1. r.free \in SUBSET Pages /\ r.data \in [Pages -> Values] /\ r.err \in {"none", "E_NO_MEM", "panic"}
        BY <1>3, <2>9 DEF Memories
      <3>2. r.ent \in [Pages -> [Idx -> Entries \cup {NULL}]]
        BY <1>3, <2>7, <2>9 DEF Memories
      <3> QED
        BY <2>9, <2>10, <3>1, <3>2 DEF Memories
    <2>12. Attached(q, r, W, t, i, x)
      BY <1>3, <2>7, <2>9, <2>10, <2>11 DEF Attached
    <2>13. /\ Space(r, d, W) /\ Local(q, r, W)
           /\ r.ent[t][i] = x
           /\ \A u \in Pages, j \in Idx : ~(u = t /\ j = i) => r.ent[u][j] = q.ent[u][j]
           /\ \A u \in Pages \ {t} : r.ent[u] = q.ent[u]
      BY <1>3, <2>3, <2>5, <2>7, <2>12, Attach
    <2>14. \A u \in VPages : TableOf(r, d, u) = TableOf(q, d, u)
      BY <1>3, <1>6, <2>1, <2>11, <2>13, SameTables
    <2>15. Pte(r, d, v) = x
      BY <1>6, <2>1, <2>4, <2>13, <2>14 DEF Pte
    <2>16. ASSUME NEW u \in VPages \ {v} PROVE Pte(r, d, u) = Pte(q, d, u)
      <3>1. CASE TableOf(q, d, u) = NULL
        BY <2>14, <3>1 DEF Pte
      <3>2. CASE TableOf(q, d, u) # NULL
        <4>1. PICK y \in Pages : y = TableOf(q, d, u)
          BY <1>0, <1>3, <3>2, WalkFacts
        <4>2. ~(y = t /\ PTX(u) = i)
          BY <1>3, <2>1, <2>4, <3>2, <4>1, OtherEntry
        <4>3. r.ent[y][PTX(u)] = q.ent[y][PTX(u)]
          BY <2>13, <4>1, <4>2, IndexFacts
        <4> QED
          BY <2>14, <3>2, <4>1, <4>3 DEF Pte
      <3> QED
        BY <3>1, <3>2
    <2>17. r.data = s.data /\ r.err = "none" /\ r.free \subseteq s.free
      BY <1>3, <2>9
    <2>18. \A u \in VPages \ {v} : SameAt(s, r, d, u)
      BY <1>2, <2>16, <2>17 DEF SameAt
    <2>19. Mapped(s, r, d, v, w)
      BY <2>7, <2>15, <2>18 DEF Mapped
    <2>20. Local(s, r, W)
      BY <1>3, <2>13, LocalTrans
    <2> QED
      BY <2>7, <2>13, <2>15, <2>17, <2>19, <2>20
  <1> QED
    BY <1>5, <1>6

(* alloc_page: the page is not free any more, and nothing points to it. *)
LEMMA TakeFacts ==
    ASSUME NEW s, NEW d, NEW W, Space(s, d, W), s.free # {}, NEW g, g = NextFree(s),
           NEW r, r = Take(s)
    PROVE  /\ Space(r, d, W) /\ Local(s, r, W) /\ r \in Memories
           /\ r.ent = s.ent /\ r.ref = s.ref /\ r.data = s.data /\ r.err = s.err /\ r.free = s.free \ {g}
           /\ g \in s.free /\ g \in W \ r.free /\ Loose(r, d, g) /\ r.ref[g] = 0 /\ g \in Pages
           /\ \A v : TableOf(r, d, v) = TableOf(s, d, v) /\ Pte(r, d, v) = Pte(s, d, v)
  <1>0. s \in Memories /\ W \in SUBSET Pages /\ d \in Pages \ s.free /\ s.free \subseteq W
    BY DEF Space, Forest, Root
  <1>1. g \in s.free /\ g \in Pages
    BY <1>0, NextFreeFacts
  <1>2. r \in Memories /\ r.ent = s.ent /\ r.ref = s.ref /\ r.data = s.data /\ r.err = s.err /\ r.free = s.free \ {g}
    BY <1>0 DEF Take, Memories
  <1>3. Loose(s, d, g) /\ s.ref[g] = 0
    BY <1>0, <1>1 DEF Loose, Space, Forest
  <1>4. r.free \subseteq s.free
    BY <1>2
  <1>5. /\ Space(r, d, W) /\ Local(s, r, W) /\ Loose(r, d, g)
        /\ \A v : TableOf(r, d, v) = TableOf(s, d, v) /\ Pte(r, d, v) = Pte(s, d, v)
    BY <1>2, <1>3, <1>4, Retouch
  <1> QED
    BY <1>0, <1>1, <1>2, <1>3, <1>5

(* A page to which nothing points goes back to the free ones. *)
LEMMA FreeLoose ==
    ASSUME NEW s, Forest(s), NEW W \in SUBSET Pages, NEW g \in W \ s.free,
           \A t \in Pages, i \in Idx : ~Points(s, t, i, g), NEW r, r = free_page(s, g)
    PROVE  /\ Forest(r) /\ Local(s, r, W) /\ r.err = s.err /\ r.free = s.free \cup {g}
           /\ \A u, h \in Pages, j \in Idx : Points(r, u, j, h) => Points(s, u, j, h)
  <1>0. s \in Memories /\ g \in Pages /\ s.free \subseteq Pages
    BY MemoryType DEF Forest
  <1>1. Freed(s, r, g)
    BY <1>0, FreePageFacts
  <1>2. /\ r \in Memories /\ r.free = s.free \cup {g} /\ r.err = s.err
        /\ \A h \in Pages \ {g} : r.ref[h] = s.ref[h] /\ r.ent[h] = s.ent[h] /\ r.data[h] = s.data[h]
        /\ r.ref[g] = 0 /\ r.ent[g] = NoEntries
    BY <1>0, <1>1 DEF Freed, Memories
  <1>3. \A u, h \in Pages, j \in Idx : Points(r, u, j, h) => Points(s, u, j, h) /\ h # g
    BY <1>2, NoEntriesType DEF Points
  <1>4. Forest(r)
    <2>1. \A h \in r.free : r.ent[h] = NoEntries /\ r.ref[h] = 0
      BY <1>0, <1>2 DEF Forest
    <2>2. ASSUME NEW u \in Pages, NEW h \in Pages, NEW j \in Idx, Points(r, u, j, h)
          PROVE  h \notin r.free /\ r.ref[h] = 1
      BY <1>2, <1>3, <2>2 DEF Forest
    <2>3. ASSUME NEW u \in Pages, NEW y \in Pages, NEW h \in Pages, NEW j \in Idx, NEW l \in Idx,
                 Points(r, u, j, h), Points(r, y, l, h)
          PROVE  u = y /\ j = l
      BY <1>3, <2>3 DEF Forest
    <2> QED
      BY <1>2, <2>1, <2>2, <2>3 DEF Forest
  <1>5. Local(s, r, W)
    BY <1>0, <1>2, <1>3 DEF Local
  <1> QED
    BY <1>2, <1>3, <1>4, <1>5

LEMMA GiveBack ==
    ASSUME NEW s, NEW d, NEW W, Space(s, d, W), NEW g \in W \ s.free, Loose(s, d, g),
           NEW r, r = free_page(s, g)
    PROVE  /\ Space(r, d, W) /\ Local(s, r, W) /\ r.err = s.err
           /\ \A v \in VPages : Pte(r, d, v) = Pte(s, d, v)
  <1>1. /\ Forest(r) /\ Local(s, r, W) /\ r.err = s.err /\ r.free = s.free \cup {g}
        /\ \A u, h \in Pages, j \in Idx : Points(r, u, j, h) => Points(s, u, j, h)
    BY FreeLoose DEF Space, Loose
  <1>2. W \in SUBSET Pages /\ d \in Pages /\ s \in Memories
    BY DEF Space, Root, Forest
  <1>3. Space(r, d, W)
    BY <1>1, <1>2 DEF Space, Root, Closed, Loose
  <1>4. \A h \in Pages \ {g} : r.ent[h] = s.ent[h]
    <2>1. Freed(s, r, g)
      BY <1>2, FreePageFacts
    <2> QED
      BY <1>2, <2>1 DEF Freed, Memories
  <1>5. ASSUME NEW v \in VPages PROVE Pte(r, d, v) = Pte(s, d, v)
    <2>0. PDX1(v) \in Idx /\ PDX0(v) \in Idx /\ PTX(v) \in Idx
      BY IndexFacts
    <2>1. r.ent[d] = s.ent[d]
      BY <1>2, <1>4 DEF Loose
    <2>2. ASSUME NEW t \in Pages, NEW i \in Idx, s.ent[t][i] # NULL
          PROVE  r.ent[s.ent[t][i].pg] = s.ent[s.ent[t][i].pg]
      <3>1. PICK h \in Pages : h = s.ent[t][i].pg /\ Points(s, t, i, h)
        BY <1>2, <2>2, MemoryType DEF Points
      <3>2. h # g
        BY <3>1 DEF Loose
      <3> QED
        BY <1>4, <3>1, <3>2
    <2>3. s.ent[d][PDX1(v)] # NULL => s.ent[d][PDX1(v)].pg \in Pages
      BY <1>2, <2>0, MemoryType, SMTT(30)
    <2>4. TableOf(r, d, v) = TableOf(s, d, v)
      BY <1>2, <2>0, <2>1, <2>2, SMTT(30) DEF TableOf
    <2>5. TableOf(s, d, v) # NULL => r.ent[TableOf(s, d, v)] = s.ent[TableOf(s, d, v)]
      BY <1>2, <2>0, <2>2, <2>3 DEF TableOf
    <2> QED
      BY <2>4, <2>5 DEF Pte
  <1> QED
    BY <1>1, <1>3, <1>5

(* pgdir_alloc_page maps the page or says that it could not. *)
LEMMA AllocPageFacts ==
    ASSUME NEW s, NEW d, NEW W, Space(s, d, W), s.err = "none", NEW v \in VPages, Pte(s, d, v) = NULL,
           NEW w \in BOOLEAN, NEW r, r = pgdir_alloc_page(s, d, v, w)
    PROVE  /\ Space(r, d, W) /\ Local(s, r, W)
           /\ \/ r.err = "none" /\ Mapped(s, r, d, v, w)
              \/ r.err = "E_NO_MEM" /\ \A u \in VPages : Pte(r, d, u) = Pte(s, d, u)
  <1>0. s \in Memories
    BY DEF Space, Forest
  <1>1. CASE s.free = {}
    <2>1. r = [s EXCEPT !.err = "E_NO_MEM"]
      BY <1>1 DEF pgdir_alloc_page
    <2>2. r \in Memories /\ r.ent = s.ent /\ r.ref = s.ref /\ r.free = s.free /\ r.data = s.data /\ r.err = "E_NO_MEM"
      BY <1>0, <2>1, SetErr
    <2> QED
      BY <2>2, Retouch
  <1>2. CASE s.free # {}
    <2>1. PICK g : g = NextFree(s)
      OBVIOUS
    <2>2. PICK q : q = Take(s)
      OBVIOUS
    <2>3. /\ Space(q, d, W) /\ Local(s, q, W)
          /\ q.data = s.data /\ q.err = "none" /\ g \in W \ q.free /\ Loose(q, d, g) /\ q.ref[g] = 0
          /\ \A u : Pte(q, d, u) = Pte(s, d, u)
      <3>1. /\ Space(q, d, W) /\ Local(s, q, W)
            /\ q.data = s.data /\ q.err = s.err /\ g \in W \ q.free /\ Loose(q, d, g) /\ q.ref[g] = 0
            /\ \A u : TableOf(q, d, u) = TableOf(s, d, u) /\ Pte(q, d, u) = Pte(s, d, u)
        BY <1>2, <2>1, <2>2, TakeFacts
      <3> QED
        BY <3>1
    <2>4. PICK x : x = page_insert(q, d, g, v, w)
      OBVIOUS
    <2>5. /\ Space(x, d, W) /\ Local(q, x, W) /\ x.free \subseteq q.free /\ x.data = q.data
          /\ \/ x.err = "none" /\ Mapped(q, x, d, v, w) /\ Pte(x, d, v).pg = g
             \/ x.err = "E_NO_MEM" /\ Loose(x, d, g) /\ \A u \in VPages : Pte(x, d, u) = Pte(q, d, u)
      BY <2>3, <2>4, PageInsertFacts
    <2>6. Local(s, x, W)
      BY <2>3, <2>5, LocalTrans
    <2>7. r = IF x.err = "none" THEN x ELSE free_page(x, g)
      BY <1>2, <2>1, <2>2, <2>4 DEF pgdir_alloc_page
    <2>8. CASE x.err = "none"
      <3>1. Mapped(s, x, d, v, w)
        BY <2>3, <2>5, <2>8 DEF Mapped, SameAt
      <3> QED
        BY <2>5, <2>6, <2>7, <2>8, <3>1
    <2>9. CASE x.err # "none"
      <3>1. g \in W \ x.free
        BY <2>3, <2>5
      <3>2. /\ Space(r, d, W) /\ Local(x, r, W) /\ r.err = x.err
            /\ \A u \in VPages : Pte(r, d, u) = Pte(x, d, u)
        BY <2>5, <2>7, <2>9, <3>1, GiveBack
      <3>3. \A u \in VPages : Pte(r, d, u) = Pte(s, d, u)
        BY <2>3, <2>5, <2>9, <3>2
      <3> QED
        BY <2>5, <2>6, <2>9, <3>2, <3>3, LocalTrans
    <2> QED
      BY <2>8, <2>9
  <1> QED
    BY <1>1, <1>2

(* A page of the address space e has been copied to d. *)
Copied(s, r, d, e, v) ==
    /\ Mapped(s, r, d, v, Pte(s, e, v).w)
    /\ r.data[Pte(r, d, v).pg] = s.data[Pte(s, e, v).pg]

LEMMA CopyPageFacts ==
    ASSUME NEW s, NEW d, NEW W, Space(s, d, W), s.err = "none", NEW v \in VPages, Pte(s, d, v) = NULL,
           NEW e, Pte(s, e, v) \in Entries, NEW r, r = copy_page(s, d, e, v)
    PROVE  /\ Space(r, d, W) /\ Local(s, r, W)
           /\ r.err = "none" => Copied(s, r, d, e, v)
  <1>0. s \in Memories /\ W \in SUBSET Pages /\ d \in Pages
    BY DEF Space, Forest, Root
  <1>1. PICK src \in Entries : src = Pte(s, e, v)
    OBVIOUS
  <1>2. src.pg \in Pages /\ src.w \in BOOLEAN
    BY DEF Entries
  <1>3. PICK q : q = get_pte(s, d, v)
    OBVIOUS
  <1>4. /\ Grown(s, q, d, W)
        /\ \A u \in VPages : Pte(q, d, u) = Pte(s, d, u)
    BY <1>3, GetPteFacts
  <1>5. /\ Space(q, d, W) /\ Local(s, q, W) /\ q.err = "none" /\ q.data = s.data
        /\ q \in Memories /\ Forest(q) /\ Root(q, d)
    BY <1>0, <1>4 DEF Grown, Space, Forest
  <1>6. CASE TableOf(q, d, v) = NULL \/ q.free = {}
    <2>1. PICK x \in {"E_NO_MEM", "panic"} : r = [q EXCEPT !.err = x]
      <3>1. r = [q EXCEPT !.err = "E_NO_MEM"] \/ r = [q EXCEPT !.err = "panic"]
        BY <1>3, <1>6 DEF copy_page
      <3> QED
        BY <3>1
    <2>2. r \in Memories /\ r.ent = q.ent /\ r.ref = q.ref /\ r.free = q.free /\ r.data = q.data /\ r.err = x
      BY <1>5, <2>1, SetErr
    <2>3. Space(r, d, W) /\ Local(q, r, W)
      BY <1>5, <2>2, Retouch
    <2> QED
      BY <1>5, <2>2, <2>3, LocalTrans
  <1>7. CASE TableOf(q, d, v) # NULL /\ q.free # {}
    <2>1. PICK g : g = NextFree(q)
      OBVIOUS
    <2>2. PICK y : y = Take(q)
      OBVIOUS
    <2>3. /\ Space(y, d, W) /\ Local(q, y, W) /\ y \in Memories
          /\ y.ent = q.ent /\ y.ref = q.ref /\ y.data = q.data /\ y.err = "none"
          /\ g \in W \ y.free /\ Loose(y, d, g) /\ y.ref[g] = 0 /\ g \in Pages
          /\ \A u : Pte(y, d, u) = Pte(q, d, u)
      BY <1>5, <1>7, <2>1, <2>2, TakeFacts
    <2>4. PICK z : z = [y EXCEPT !.data[g] = q.data[src.pg]]
      OBVIOUS
    <2>5. /\ z \in Memories /\ z.ent = y.ent /\ z.ref = y.ref /\ z.free = y.free /\ z.err = "none"
          /\ z.data[g] = s.data[src.pg]
          /\ \A h \in Pages \ {g} : z.data[h] = s.data[h]
      BY <1>2, <1>5, <2>3, <2>4 DEF Memories
    <2>6. /\ Space(z, d, W) /\ Local(y, z, W) /\ Loose(z, d, g)
          /\ \A u : Pte(z, d, u) = Pte(y, d, u)
      BY <1>5, <2>3, <2>5, Retouch
    <2>7. r = page_insert(z, d, g, v, src.w)
      BY <1>1, <1>3, <1>7, <2>1, <2>2, <2>4 DEF copy_page
    <2>8. /\ Space(r, d, W) /\ Local(z, r, W) /\ r.data = z.data
          /\ r.err = "none" => Mapped(z, r, d, v, src.w) /\ Pte(r, d, v).pg = g
      <3>1. /\ z.err = "none" /\ Pte(z, d, v) = NULL /\ g \in W \ z.free /\ z.ref[g] = 0
        BY <1>4, <2>3, <2>5, <2>6
      <3> QED
        BY <1>2, <2>6, <2>7, <3>1, PageInsertFacts
    <2>9. Local(s, r, W)
      BY <1>5, <2>3, <2>6, <2>8, LocalTrans
    <2>10. ASSUME r.err = "none" PROVE Copied(s, r, d, e, v)
      <3>1. ASSUME NEW u \in VPages \ {v} PROVE SameAt(s, r, d, u)
        <4>1. Pte(r, d, u) = Pte(s, d, u)
          BY <1>4, <2>3, <2>6, <2>8, <2>10 DEF Mapped, SameAt
        <4>2. ASSUME Pte(s, d, u) # NULL PROVE r.data[Pte(s, d, u).pg] = s.data[Pte(s, d, u).pg]
          <5>1. PICK h \in Pages : h = Pte(s, d, u).pg
            BY <1>0, <4>2, WalkFacts
          <5>2. Pte(y, d, u) # NULL /\ Pte(y, d, u).pg = h
            BY <1>4, <2>3, <4>2, <5>1
          <5>3. Points(y, TableOf(y, d, u), PTX(u), h) /\ TableOf(y, d, u) \in Pages /\ PTX(u) \in Idx
            BY <1>0, <2>3, <5>2, WalkFacts, IndexFacts
          <5>4. h # g
            BY <2>3, <5>3 DEF Loose
          <5> QED
            BY <2>5, <2>8, <5>1, <5>4
        <4> QED
          BY <4>1, <4>2 DEF SameAt
      <3>2. Pte(r, d, v) # NULL /\ Pte(r, d, v).w = src.w /\ Pte(r, d, v).pg = g
        BY <2>8, <2>10 DEF Mapped
      <3> QED
        BY <1>1, <2>5, <2>8, <3>1, <3>2 DEF Copied, Mapped
    <2> QED
      BY <2>8, <2>9, <2>10
  <1> QED
    BY <1>6, <1>7

---------------------------------------------------------------------------
(* The loops over address ranges.                                          *)

(* The page v is as it was, or it was mapped and its page is free; in the range
   that has been visited nothing is mapped. *)
UnmapAt(s, x, d, a, n, v) ==
    \/ Pte(x, d, v) = Pte(s, d, v) /\ (v \in a .. n - 1 => Pte(x, d, v) = NULL)
    \/ Pte(s, d, v) # NULL /\ Pte(x, d, v) = NULL /\ Pte(s, d, v).pg \in x.free

(* The state of unmap_range when it has come from a to the page n. *)
UnmapTo(s, x, d, W, a, n) ==
    /\ x \in Memories
    /\ Space(x, d, W) /\ Local(s, x, W) /\ x.err = s.err /\ s.free \subseteq x.free
    /\ \A v \in VPages : UnmapAt(s, x, d, a, n, v)

LEMMA UnmapPageStep ==
    ASSUME NEW s, NEW d, NEW W, NEW a \in Nat, NEW n \in VPages,
           NEW x, UnmapTo(s, x, d, W, a, n), NEW r, r = unmap_page(x, d, n)
    PROVE  UnmapTo(s, r, d, W, a, n + 1)
  <1>0. n \in Nat /\ VPages \subseteq Nat
    BY FanFacts DEF VPages
  <1>1. \A v \in VPages : v \in a .. (n + 1) - 1 => v \in a .. n - 1 \/ v = n
    BY <1>0
  <1>2. CASE Pte(x, d, n) = NULL
    <2>1. r = x
      BY <1>2 DEF unmap_page
    <2>2. ASSUME NEW v \in VPages PROVE UnmapAt(s, x, d, a, n + 1, v)
      <3>1. UnmapAt(s, x, d, a, n, v)
        BY DEF UnmapTo
      <3>2. v \in a .. (n + 1) - 1 => v \in a .. n - 1 \/ Pte(x, d, v) = NULL
        BY <1>1, <1>2
      <3> QED
        BY <3>1, <3>2, Zenon DEF UnmapAt
    <2> QED
      BY <2>1, <2>2 DEF UnmapTo
  <1>3. CASE Pte(x, d, n) # NULL
    <2>1. r = page_remove_pte(x, d, n)
      BY <1>3 DEF unmap_page
    <2>2. /\ Space(r, d, W) /\ Local(x, r, W)
          /\ r.err = x.err /\ r.free = x.free \cup {Pte(x, d, n).pg}
          /\ Pte(r, d, n) = NULL
          /\ \A u \in VPages \ {n} : Pte(r, d, u) = Pte(x, d, u)
      BY <1>3, <2>1, RemovePteFacts DEF UnmapTo
    <2>3. Local(s, r, W)
      BY <2>2, LocalTrans DEF UnmapTo
    <2>4. ASSUME NEW v \in VPages PROVE UnmapAt(s, r, d, a, n + 1, v)
      <3>1. UnmapAt(s, x, d, a, n, v)
        BY DEF UnmapTo
      <3>2. CASE v = n
        BY <1>3, <2>2, <3>1, <3>2 DEF UnmapAt
      <3>3. CASE v # n
        <4>1. Pte(r, d, v) = Pte(x, d, v) /\ (v \in a .. (n + 1) - 1 => v \in a .. n - 1)
          BY <1>1, <2>2, <3>3
        <4>2. x.free \subseteq r.free
          BY <2>2
        <4> QED
          BY <3>1, <4>1, <4>2, Zenon DEF UnmapAt
      <3> QED
        BY <3>2, <3>3
    <2>5. x.err = s.err /\ s.free \subseteq x.free
      BY DEF UnmapTo
    <2>6. r \in Memories
      BY <2>2 DEF Space, Forest
    <2> QED
      BY <2>2, <2>3, <2>4, <2>5, <2>6 DEF UnmapTo
  <1> QED
    BY <1>2, <1>3

LEMMA UnmapRangeFacts ==
    ASSUME NEW s, NEW d, NEW W, Space(s, d, W), NEW a \in Nat, NEW b \in Nat, a <= b, b <= USTACKTOP,
           NEW r, r = unmap_range(s, d, a, b)
    PROVE  UnmapTo(s, r, d, W, a, b)
  <1>0. \A v \in a + 1 .. b : v - 1 \in VPages /\ v - 1 + 1 = v
    BY FanFacts DEF VPages, USTACKTOP
  <1> DEFINE P == [v \in a .. b |-> {x \in Memories : UnmapTo(s, x, d, W, a, v)}]
             F == [v \in a + 1 .. b |-> [x \in P[v - 1] |-> unmap_page(x, d, v - 1)]]
             Eq(g) == g = [v \in a .. b |-> IF v = a THEN s ELSE unmap_page(g[v - 1], d, v - 1)]
             at == CHOOSE g : Eq(g)
  <1>1. ASSUME NEW v \in a + 1 .. b, NEW x \in P[v - 1]
        PROVE  unmap_page(x, d, v - 1) \in P[v] /\ F[v][x] = unmap_page(x, d, v - 1)
    <2>1. v - 1 \in a .. b /\ v \in a .. b
      BY a <= b
    <2>2. x \in Memories /\ UnmapTo(s, x, d, W, a, v - 1)
      BY <1>1, <2>1
    <2> HIDE DEF P
    <2>3. unmap_page(x, d, v - 1) \in Memories /\ UnmapTo(s, unmap_page(x, d, v - 1), d, W, a, v)
      <3>1. UnmapTo(s, unmap_page(x, d, v - 1), d, W, a, v - 1 + 1)
        BY <2>2, <1>0, UnmapPageStep
      <3> QED
        BY <1>0, <3>1 DEF UnmapTo
    <2>4. unmap_page(x, d, v - 1) \in P[v]
      BY <2>1, <2>3 DEF P
    <2> QED
      BY <1>1, <2>4
  <1>2. s \in P[a]
    <2>1. a \in a .. b
      BY a <= b
    <2>2. s \in Memories /\ UnmapTo(s, s, d, W, a, a)
      <3>1. s \in Memories /\ Local(s, s, W)
        BY LocalSelf DEF Space, Forest
      <3>2. \A v \in VPages : UnmapAt(s, s, d, a, a, v)
        BY FanFacts DEF VPages, UnmapAt
      <3> QED
        BY <3>1, <3>2 DEF UnmapTo
    <2> QED
      BY <2>1, <2>2
  <1> HIDE DEF P, F
  <1>3. PICK g : Computes(g, a, b, s, P, F)
    <2>1. \A v \in a + 1 .. b : \A x \in P[v - 1] : F[v][x] \in P[v]
      BY <1>1
    <2> QED
      BY a <= b, <1>2, <2>1, LoopExists
  <1>4. Eq(g)
    <2>1. ASSUME NEW v \in a .. b
          PROVE  g[v] = IF v = a THEN s ELSE unmap_page(g[v - 1], d, v - 1)
      <3>1. CASE v = a
        BY <1>3, <3>1 DEF Computes
      <3>2. CASE v # a
        <4>1. v \in a + 1 .. b /\ v - 1 \in a .. b
          BY a <= b, <3>2
        <4> QED
          BY <1>1, <1>3, <3>2, <4>1 DEF Computes
      <3> QED
        BY <3>1, <3>2
    <2>2. [v \in a .. b |-> g[v]]
             = [v \in a .. b |-> IF v = a THEN s ELSE unmap_page(g[v - 1], d, v - 1)]
      BY <2>1, Zenon
    <2> QED
      BY <1>3, <2>2, Zenon DEF Computes
  <1>5. Eq(at)
    BY <1>4
  <1>6. r = at[b]
    BY DEF unmap_range
  <1> HIDE DEF at
  <1>7. /\ at[a] = s
        /\ \A v \in a + 1 .. b : at[v] = unmap_page(at[v - 1], d, v - 1)
    <2>1. \A v \in a .. b : at[v] = IF v = a THEN s ELSE unmap_page(at[v - 1], d, v - 1)
      BY <1>5, Zenon
    <2>2. a \in a .. b /\ \A v \in a + 1 .. b : v \in a .. b /\ v # a
      BY a <= b
    <2> QED
      BY <2>1, <2>2, Zenon
  <1>8. at[b] \in P[b]
    <2>1. \A v \in a + 1 .. b : at[v - 1] \in P[v - 1] => at[v] \in P[v]
      BY <1>1, <1>7
    <2>2. \A v \in a .. b : at[v] \in P[v]
      BY a <= b, <1>2, <1>7, <2>1, LoopInvariant
    <2> QED
      BY a <= b, <2>2
  <1> QED
    BY <1>6, <1>8, a <= b DEF P

---------------------------------------------------------------------------
(* The tables are freed.                                                   *)

(* Pages of W have been given back. *)
Shrunk(s, x, d, W) ==
    x \in Memories /\ Space(x, d, W) /\ Local(s, x, W) /\ x.err = s.err /\ s.free \subseteq x.free

LEMMA ShrunkSelf ==
    ASSUME NEW s, NEW d, NEW W, Space(s, d, W)
    PROVE  Shrunk(s, s, d, W)
  <1>1. s \in Memories
    BY DEF Space, Forest
  <1> QED
    BY <1>1, LocalSelf DEF Shrunk

LEMMA ShrunkTrans ==
    ASSUME NEW s, NEW q, NEW r, NEW d, NEW W, Shrunk(s, q, d, W), Shrunk(q, r, d, W)
    PROVE  Shrunk(s, r, d, W)
  <1>1. Local(s, r, W)
    BY LocalTrans DEF Shrunk
  <1> QED
    BY <1>1 DEF Shrunk

(* One entry is cleared. *)
LEMMA ClearFacts ==
    ASSUME NEW s \in Memories, NEW t \in Pages, NEW i \in Idx, NEW g,
           NEW q, q = [s EXCEPT !.ent[t][i] = NULL]
    PROVE  Cleared(s, q, t, i, g)
  <1>1. /\ q.free = s.free /\ q.ref = s.ref
        /\ q.ent = [s.ent EXCEPT ![t] = [s.ent[t] EXCEPT ![i] = NULL]]
        /\ q.data = s.data /\ q.err = s.err
        /\ q = [free |-> q.free, ref |-> q.ref, ent |-> q.ent, data |-> q.data, err |-> q.err]
    BY DEF Memories
  <1>2. q.ent \in [Pages -> [Idx -> Entries \cup {NULL}]]
    BY <1>1 DEF Memories
  <1>3. q.free \in SUBSET Pages /\ q.ref \in [Pages -> Int] /\ q.data \in [Pages -> Values]
        /\ q.err \in {"none", "E_NO_MEM", "panic"}
    BY <1>1 DEF Memories
  <1>4. q \in Memories
    BY <1>1, <1>2, <1>3 DEF Memories
  <1> QED
    BY <1>1, <1>4 DEF Cleared

LEMMA ExitTableFacts ==
    ASSUME NEW s, NEW d, NEW W, Space(s, d, W), NEW k \in Idx, NEW b \in Pages, Points(s, d, k, b),
           NEW i \in Idx, NEW r, r = exit_table(s, b, i)
    PROVE  Shrunk(s, r, d, W) /\ Points(r, d, k, b)
  <1>0. s \in Memories /\ d \in Pages /\ W \in SUBSET Pages /\ b \in W /\ b # d
    BY DEF Space, Forest, Root, Closed
  <1>1. CASE r = s
    BY <1>1, ShrunkSelf
  <1>2. CASE r # s
    <2>1. s.ent[b][i] # NULL /\ r = free_page([s EXCEPT !.ent[b][i] = NULL], s.ent[b][i].pg)
      BY <1>2 DEF exit_table
    <2>2. PICK g \in Pages : g = s.ent[b][i].pg /\ Points(s, b, i, g)
      BY <1>0, <2>1, MemoryType DEF Points
    <2>3. PICK q : q = [s EXCEPT !.ent[b][i] = NULL]
      OBVIOUS
    <2>4. Cleared(s, q, b, i, g)
      BY <1>0, <2>3, ClearFacts
    <2>5. /\ Space(r, d, W) /\ Local(s, r, W)
          /\ r.free = s.free \cup {g} /\ r.err = s.err
          /\ \A u \in Pages \ {g}, j \in Idx : r.ent[u][j] = IF u = b /\ j = i THEN NULL ELSE s.ent[u][j]
      BY <1>0, <2>1, <2>2, <2>3, <2>4, Drop
    <2>6. d # g
      BY <1>0, <2>2 DEF Space, Root
    <2>7. r.ent[d][k] = s.ent[d][k]
      BY <1>0, <2>5, <2>6
    <2>8. r \in Memories
      BY <2>5 DEF Space, Forest
    <2> QED
      BY <2>5, <2>7, <2>8 DEF Shrunk, Points
  <1> QED
    BY <1>1, <1>2

LEMMA ExitTablesFacts ==
    ASSUME NEW s, NEW d, NEW W, Space(s, d, W), NEW k \in Idx, NEW b \in Pages, Points(s, d, k, b),
           NEW visited, NEW r, r = exit_tables(s, b, visited)
    PROVE  Shrunk(s, r, d, W) /\ Points(r, d, k, b)
  <1>0. 0 \in Nat /\ Fan \in Nat /\ 0 <= Fan
    BY FanFacts
  <1> DEFINE Kept(x) == Shrunk(s, x, d, W) /\ Points(x, d, k, b)
             P == [i \in 0 .. Fan |-> {x \in Memories : Kept(x)}]
             F == [i \in 0 + 1 .. Fan |-> [x \in P[i - 1] |-> (IF i - 1 \in visited THEN exit_table(x, b, i - 1) ELSE x)]]
             Eq(g) == g = [i \in 0 .. Fan |-> IF i = 0 THEN s ELSE (IF i - 1 \in visited THEN exit_table(g[i - 1], b, i - 1) ELSE g[i - 1])]
             at == CHOOSE g : Eq(g)
  <1>1. ASSUME NEW i \in 0 + 1 .. Fan, NEW x \in P[i - 1]
        PROVE  (IF i - 1 \in visited THEN exit_table(x, b, i - 1) ELSE x) \in P[i] /\ F[i][x] = (IF i - 1 \in visited THEN exit_table(x, b, i - 1) ELSE x)
    <2>1. i - 1 \in 0 .. Fan /\ i \in 0 .. Fan
      BY <1>0
    <2>2. x \in Memories /\ Kept(x)
      BY <1>1, <2>1
    <2> HIDE DEF P
    <2>3. (IF i - 1 \in visited THEN exit_table(x, b, i - 1) ELSE x) \in Memories /\ Kept((IF i - 1 \in visited THEN exit_table(x, b, i - 1) ELSE x))
      <3>1. i - 1 \in Idx
        BY <1>0 DEF Idx
      <3>2. Space(x, d, W)
        BY <2>2 DEF Shrunk
      <3>3. PICK y : y = exit_table(x, b, i - 1)
        OBVIOUS
      <3>4. Shrunk(x, y, d, W) /\ Points(y, d, k, b)
        BY <2>2, <3>1, <3>2, <3>3, ExitTableFacts
      <3>5. Shrunk(s, y, d, W)
        BY <2>2, <3>4, ShrunkTrans
      <3>6. CASE i - 1 \in visited
        BY <3>3, <3>4, <3>5, <3>6 DEF Shrunk
      <3>7. CASE i - 1 \notin visited
        BY <2>2, <3>7
      <3> QED
        BY <3>6, <3>7
    <2>4. (IF i - 1 \in visited THEN exit_table(x, b, i - 1) ELSE x) \in P[i]
      BY <2>1, <2>3 DEF P
    <2> QED
      BY <1>1, <2>4
  <1>2. s \in P[0]
    <2>1. 0 \in 0 .. Fan
      BY <1>0
    <2>2. s \in Memories /\ Kept(s)
      BY ShrunkSelf DEF Shrunk
    <2> QED
      BY <2>1, <2>2
  <1> HIDE DEF P, F
  <1>3. PICK g : Computes(g, 0, Fan, s, P, F)
    <2>1. \A i \in 0 + 1 .. Fan : \A x \in P[i - 1] : F[i][x] \in P[i]
      BY <1>1
    <2> QED
      BY <1>0, <1>2, <2>1, LoopExists
  <1>4. Eq(g)
    <2>1. ASSUME NEW i \in 0 .. Fan
          PROVE  g[i] = IF i = 0 THEN s ELSE (IF i - 1 \in visited THEN exit_table(g[i - 1], b, i - 1) ELSE g[i - 1])
      <3>1. CASE i = 0
        BY <1>3, <3>1 DEF Computes
      <3>2. CASE i # 0
        <4>1. i \in 0 + 1 .. Fan /\ i - 1 \in 0 .. Fan
          BY <1>0, <3>2
        <4> QED
          BY <1>1, <1>3, <3>2, <4>1 DEF Computes
      <3> QED
        BY <3>1, <3>2
    <2>2. [i \in 0 .. Fan |-> g[i]]
             = [i \in 0 .. Fan |-> IF i = 0 THEN s ELSE (IF i - 1 \in visited THEN exit_table(g[i - 1], b, i - 1) ELSE g[i - 1])]
      BY <2>1, Zenon
    <2> QED
      BY <1>3, <2>2, Zenon DEF Computes
  <1>5. Eq(at)
    BY <1>4
  <1>6. r = at[Fan]
    BY DEF exit_tables
  <1> HIDE DEF at
  <1>7. /\ at[0] = s
        /\ \A i \in 0 + 1 .. Fan : at[i] = (IF i - 1 \in visited THEN exit_table(at[i - 1], b, i - 1) ELSE at[i - 1])
    <2>1. \A i \in 0 .. Fan : at[i] = IF i = 0 THEN s ELSE (IF i - 1 \in visited THEN exit_table(at[i - 1], b, i - 1) ELSE at[i - 1])
      BY <1>5, Zenon
    <2>2. 0 \in 0 .. Fan /\ \A i \in 0 + 1 .. Fan : i \in 0 .. Fan /\ i # 0
      BY <1>0
    <2> QED
      BY <2>1, <2>2, Zenon
  <1>8. at[Fan] \in P[Fan]
    <2>1. \A i \in 0 + 1 .. Fan : at[i - 1] \in P[i - 1] => at[i] \in P[i]
      BY <1>1, <1>7
    <2>2. \A i \in 0 .. Fan : at[i] \in P[i]
      BY <1>0, <1>2, <1>7, <2>1, LoopInvariant
    <2> QED
      BY <1>0, <2>2
  <1> QED
    BY <1>0, <1>6, <1>8 DEF P

(* A level 0 directory goes, with or without the tables in it. *)
LEMMA ExitRegionFacts ==
    ASSUME NEW s, NEW d, NEW W, Space(s, d, W), NEW k \in Idx, NEW a, NEW e,
           NEW r, r = exit_region(s, d, k, a, e)
    PROVE  Shrunk(s, r, d, W)
  <1>0. s \in Memories /\ d \in Pages /\ W \in SUBSET Pages /\ d \in W
    BY DEF Space, Forest, Root
  <1>1. CASE s.ent[d][k] = NULL
    <2>1. r = s
      BY <1>1 DEF exit_region
    <2> QED
      BY <2>1, ShrunkSelf
  <1>2. CASE s.ent[d][k] # NULL
    <2>1. PICK b \in Pages : b = s.ent[d][k].pg /\ Points(s, d, k, b)
      BY <1>0, <1>2, MemoryType DEF Points
    <2>2. PICK visited : visited = {i \in 0 .. Fan - 1 : k * Fan + i \in (a \div Fan) .. ((e - 1) \div Fan)}
      OBVIOUS
    <2>3. PICK x : x = exit_tables(s, b, visited)
      OBVIOUS
    <2>4. Shrunk(s, x, d, W) /\ Points(x, d, k, b)
      BY <2>1, <2>3, ExitTablesFacts
    <2>5. Space(x, d, W) /\ x \in Memories
      BY <2>4 DEF Shrunk
    <2>6. r = x \/ r = free_page([x EXCEPT !.ent[d][k] = NULL], b)
      BY <1>2, <2>1, <2>2, <2>3 DEF exit_region
    <2>7. CASE r = x
      BY <2>4, <2>7
    <2>8. CASE r = free_page([x EXCEPT !.ent[d][k] = NULL], b)
      <3>1. PICK q : q = [x EXCEPT !.ent[d][k] = NULL]
        OBVIOUS
      <3>2. Cleared(x, q, d, k, b)
        BY <1>0, <2>5, <3>1, ClearFacts
      <3>3. Space(r, d, W) /\ Local(x, r, W) /\ r.free = x.free \cup {b} /\ r.err = x.err
        BY <1>0, <2>4, <2>5, <2>8, <3>1, <3>2, Drop
      <3>4. r \in Memories
        BY <3>3 DEF Space, Forest
      <3>5. Shrunk(x, r, d, W)
        BY <3>3, <3>4 DEF Shrunk
      <3> QED
        BY <2>4, <3>5, ShrunkTrans
    <2> QED
      BY <2>6, <2>7, <2>8
  <1> QED
    BY <1>1, <1>2

LEMMA IndexOrder ==
    ASSUME NEW u \in VPages, NEW v \in VPages, u <= v
    PROVE  PDX1(u) <= PDX1(v)
  <1>1. u \in Nat /\ v \in Nat /\ u < v + 1
    BY FanFacts DEF VPages
  <1>2. ASSUME NEW x \in Nat, NEW y \in Nat, x <= y
        PROVE  x \div Fan \in Nat /\ y \div Fan \in Nat /\ x \div Fan <= y \div Fan
    <2>1. PICK q \in Nat : q = y \div Fan
      BY FanFacts, DivMod
    <2>2. PICK z \in 0 .. Fan - 1 : y = q * Fan + z
      BY <2>1, FanFacts, DivMod
    <2>3. (q + 1) * Fan = q * Fan + Fan /\ q * Fan \in Nat
      BY FanFacts
    <2>4. x < (q + 1) * Fan
      BY <1>2, <2>2, <2>3, FanFacts
    <2>5. PICK c \in Nat : c = q + 1 /\ x < c * Fan
      BY <2>4
    <2>6. x \div Fan < c /\ x \div Fan \in Nat
      BY <2>5, FanFacts, DivMod, DivBelow
    <2> QED
      BY <2>1, <2>5, <2>6
  <1> QED
    BY <1>1, <1>2 DEF PDX1

LEMMA ExitRangeFacts ==
    ASSUME NEW s, NEW d, NEW W, Space(s, d, W), NEW a \in VPages, NEW e \in 1 .. USTACKTOP, a < e,
           NEW r, r = exit_range(s, d, a, e)
    PROVE  Shrunk(s, r, d, W)
  <1>a. e - 1 \in VPages /\ a <= e - 1
    BY FanFacts DEF VPages, USTACKTOP
  <1>b. PICK lo \in Idx : lo = PDX1(a)
    BY IndexFacts
  <1>c. PICK last \in Idx : last = PDX1(e - 1)
    BY <1>a, IndexFacts
  <1>d. PICK hi \in Nat : hi = last + 1
    BY FanFacts DEF Idx
  <1>0. lo \in Nat /\ hi \in Nat /\ lo <= hi /\ \A k \in lo + 1 .. hi : k - 1 \in Idx
    BY <1>a, <1>b, <1>c, <1>d, IndexOrder, FanFacts DEF Idx
  <1> DEFINE P == [k \in lo .. hi |-> {x \in Memories : Shrunk(s, x, d, W)}]
             F == [k \in lo + 1 .. hi |-> [x \in P[k - 1] |-> exit_region(x, d, k - 1, a, e)]]
             Eq(g) == g = [k \in lo .. hi |-> IF k = lo THEN s ELSE exit_region(g[k - 1], d, k - 1, a, e)]
             at == CHOOSE g : Eq(g)
  <1>1. ASSUME NEW k \in lo + 1 .. hi, NEW x \in P[k - 1]
        PROVE  exit_region(x, d, k - 1, a, e) \in P[k] /\ F[k][x] = exit_region(x, d, k - 1, a, e)
    <2>1. k - 1 \in lo .. hi /\ k \in lo .. hi
      BY <1>0
    <2>2. x \in Memories /\ Shrunk(s, x, d, W)
      BY <1>1, <2>1
    <2> HIDE DEF P
    <2>3. exit_region(x, d, k - 1, a, e) \in Memories /\ Shrunk(s, exit_region(x, d, k - 1, a, e), d, W)
      <3>1. Space(x, d, W) /\ k - 1 \in Idx
        BY <1>0, <2>2 DEF Shrunk
      <3>2. PICK y : y = exit_region(x, d, k - 1, a, e)
        OBVIOUS
      <3>3. Shrunk(x, y, d, W)
        BY <3>1, <3>2, ExitRegionFacts
      <3>4. Shrunk(s, y, d, W)
        BY <2>2, <3>3, ShrunkTrans
      <3> QED
        BY <3>2, <3>4 DEF Shrunk
    <2>4. exit_region(x, d, k - 1, a, e) \in P[k]
      BY <2>1, <2>3 DEF P
    <2> QED
      BY <1>1, <2>4
  <1>2. s \in P[lo]
    <2>1. lo \in lo .. hi
      BY <1>0
    <2>2. s \in Memories /\ Shrunk(s, s, d, W)
      BY ShrunkSelf DEF Shrunk
    <2> QED
      BY <2>1, <2>2
  <1> HIDE DEF P, F
  <1>3. PICK g : Computes(g, lo, hi, s, P, F)
    <2>1. \A k \in lo + 1 .. hi : \A x \in P[k - 1] : F[k][x] \in P[k]
      BY <1>1
    <2> QED
      BY <1>0, <1>2, <2>1, LoopExists
  <1>4. Eq(g)
    <2>1. ASSUME NEW k \in lo .. hi
          PROVE  g[k] = IF k = lo THEN s ELSE exit_region(g[k - 1], d, k - 1, a, e)
      <3>1. CASE k = lo
        BY <1>3, <3>1 DEF Computes
      <3>2. CASE k # lo
        <4>1. k \in lo + 1 .. hi /\ k - 1 \in lo .. hi
          BY <1>0, <3>2
        <4> QED
          BY <1>1, <1>3, <3>2, <4>1 DEF Computes
      <3> QED
        BY <3>1, <3>2
    <2>2. [k \in lo .. hi |-> g[k]]
             = [k \in lo .. hi |-> IF k = lo THEN s ELSE exit_region(g[k - 1], d, k - 1, a, e)]
      BY <2>1, Zenon
    <2> QED
      BY <1>3, <2>2, Zenon DEF Computes
  <1>5. Eq(at)
    BY <1>4
  <1>6. r = at[hi]
    BY <1>b, <1>c, <1>d DEF exit_range
  <1> HIDE DEF at
  <1>7. /\ at[lo] = s
        /\ \A k \in lo + 1 .. hi : at[k] = exit_region(at[k - 1], d, k - 1, a, e)
    <2>1. \A k \in lo .. hi : at[k] = IF k = lo THEN s ELSE exit_region(at[k - 1], d, k - 1, a, e)
      BY <1>5, Zenon
    <2>2. lo \in lo .. hi /\ \A k \in lo + 1 .. hi : k \in lo .. hi /\ k # lo
      BY <1>0
    <2> QED
      BY <2>1, <2>2, Zenon
  <1>8. at[hi] \in P[hi]
    <2>1. \A k \in lo + 1 .. hi : at[k - 1] \in P[k - 1] => at[k] \in P[k]
      BY <1>1, <1>7
    <2>2. \A k \in lo .. hi : at[k] \in P[k]
      BY <1>0, <1>2, <1>7, <2>1, LoopInvariant
    <2> QED
      BY <1>0, <2>2
  <1> QED
    BY <1>0, <1>6, <1>8 DEF P

---------------------------------------------------------------------------
(* exit_mmap and what follows it.                                          *)

Lists == {l \in Seq(Vmas) : \A i \in 1 .. Len(l) : l[i].start < l[i].end}

LEMMA VmaFacts ==
    ASSUME NEW l \in Lists, NEW i \in 1 .. Len(l)
    PROVE  /\ l[i] \in Vmas /\ l[i].start \in VPages /\ l[i].end \in 1 .. USTACKTOP
           /\ l[i].start \in Nat /\ l[i].end \in Nat /\ l[i].start < l[i].end /\ l[i].end <= USTACKTOP
           /\ \A v \in VPages : Covers(l[i], v) <=> v \in l[i].start .. l[i].end - 1
           /\ \A v \in l[i].start .. l[i].end - 1 : v \in VPages
  <1>1. l[i] \in Vmas /\ l[i].start < l[i].end
    BY DEF Lists
  <1>2. l[i].start \in VPages /\ l[i].end \in 1 .. USTACKTOP
    BY <1>1 DEF Vmas
  <1>3. VPages = 0 .. USTACKTOP - 1 /\ USTACKTOP \in Nat
    BY FanFacts DEF VPages, USTACKTOP
  <1> QED
    BY <1>1, <1>2, <1>3 DEF Covers

(* The page v after unmap_range of the first n vmas. *)
UnmapAllAt(s, x, d, l, n, v) ==
    \/ Pte(x, d, v) = Pte(s, d, v) /\ ((\E j \in 1 .. n : Covers(l[j], v)) => Pte(x, d, v) = NULL)
    \/ Pte(s, d, v) # NULL /\ Pte(x, d, v) = NULL /\ Pte(s, d, v).pg \in x.free

UnmapAllTo(s, x, d, W, l, n) ==
    Shrunk(s, x, d, W) /\ \A v \in VPages : UnmapAllAt(s, x, d, l, n, v)

LEMMA UnmapAllStep ==
    ASSUME NEW s, NEW d, NEW W, NEW l \in Lists, NEW n \in 1 .. Len(l),
           NEW x, UnmapAllTo(s, x, d, W, l, n - 1), NEW r, r = unmap_range(x, d, l[n].start, l[n].end)
    PROVE  UnmapAllTo(s, r, d, W, l, n)
  <1>0. /\ l[n].start \in Nat /\ l[n].end \in Nat /\ l[n].start <= l[n].end /\ l[n].end <= USTACKTOP
        /\ \A v \in VPages : Covers(l[n], v) <=> v \in l[n].start .. l[n].end - 1
    BY VmaFacts
  <1>1. Space(x, d, W) /\ Shrunk(s, x, d, W)
    BY DEF UnmapAllTo, Shrunk
  <1>2. UnmapTo(x, r, d, W, l[n].start, l[n].end)
    BY <1>0, <1>1, UnmapRangeFacts
  <1>3. Shrunk(x, r, d, W)
    BY <1>2 DEF UnmapTo, Shrunk
  <1>4. Shrunk(s, r, d, W)
    BY <1>1, <1>3, ShrunkTrans
  <1>5. ASSUME NEW v \in VPages PROVE UnmapAllAt(s, r, d, l, n, v)
    <2>1. UnmapAllAt(s, x, d, l, n - 1, v)
      BY DEF UnmapAllTo
    <2>2. UnmapAt(x, r, d, l[n].start, l[n].end, v)
      BY <1>2 DEF UnmapTo
    <2>3. x.free \subseteq r.free
      BY <1>3 DEF Shrunk
    <2>4. (\E j \in 1 .. n : Covers(l[j], v)) =>
             (\E j \in 1 .. n - 1 : Covers(l[j], v)) \/ v \in l[n].start .. l[n].end - 1
      BY <1>0
    <2>5. CASE Pte(r, d, v) = Pte(x, d, v) /\ (v \in l[n].start .. l[n].end - 1 => Pte(r, d, v) = NULL)
      BY <2>1, <2>3, <2>4, <2>5, Zenon DEF UnmapAllAt
    <2>6. CASE Pte(x, d, v) # NULL /\ Pte(r, d, v) = NULL /\ Pte(x, d, v).pg \in r.free
      <3>1. Pte(x, d, v) = Pte(s, d, v)
        BY <2>1, <2>6 DEF UnmapAllAt
      <3> QED
        BY <2>6, <3>1 DEF UnmapAllAt
    <2> QED
      BY <2>2, <2>5, <2>6 DEF UnmapAt
  <1> QED
    BY <1>4, <1>5 DEF UnmapAllTo

LEMMA UnmapAllFacts ==
    ASSUME NEW s, NEW d, NEW W, Space(s, d, W), NEW y, y.pgdir = d, NEW l \in Lists, y.mmap_list = l,
           NEW r, r = unmap_all(s, y)
    PROVE  UnmapAllTo(s, r, d, W, l, Len(l))
  <1>a. l \in Seq(Vmas)
    BY DEF Lists
  <1>0. 0 \in Nat /\ Len(l) \in Nat /\ 0 <= Len(l)
    BY <1>a
  <1> DEFINE P == [i \in 0 .. Len(l) |-> {x \in Memories : UnmapAllTo(s, x, d, W, l, i)}]
             F == [i \in 0 + 1 .. Len(l) |-> [x \in P[i - 1] |-> unmap_range(x, d, l[i].start, l[i].end)]]
             Eq(g) == g = [i \in 0 .. Len(l) |-> IF i = 0 THEN s ELSE unmap_range(g[i - 1], d, l[i].start, l[i].end)]
             done == CHOOSE g : Eq(g)
  <1>1. ASSUME NEW i \in 0 + 1 .. Len(l), NEW x \in P[i - 1]
        PROVE  unmap_range(x, d, l[i].start, l[i].end) \in P[i] /\ F[i][x] = unmap_range(x, d, l[i].start, l[i].end)
    <2>1. i - 1 \in 0 .. Len(l) /\ i \in 0 .. Len(l)
      BY <1>0
    <2>2. x \in Memories /\ UnmapAllTo(s, x, d, W, l, i - 1)
      BY <1>1, <2>1
    <2> HIDE DEF P
    <2>3. unmap_range(x, d, l[i].start, l[i].end) \in Memories /\ UnmapAllTo(s, unmap_range(x, d, l[i].start, l[i].end), d, W, l, i)
      <3>1. i \in 1 .. Len(l)
        BY <1>0
      <3>2. PICK z : z = unmap_range(x, d, l[i].start, l[i].end)
        OBVIOUS
      <3>3. UnmapAllTo(s, z, d, W, l, i)
        BY <2>2, <3>1, <3>2, UnmapAllStep
      <3> QED
        BY <3>2, <3>3 DEF UnmapAllTo, Shrunk
    <2>4. unmap_range(x, d, l[i].start, l[i].end) \in P[i]
      BY <2>1, <2>3 DEF P
    <2> QED
      BY <1>1, <2>4
  <1>2. s \in P[0]
    <2>1. 0 \in 0 .. Len(l)
      BY <1>0
    <2>2. s \in Memories /\ UnmapAllTo(s, s, d, W, l, 0)
      <3>1. Shrunk(s, s, d, W)
        BY ShrunkSelf
      <3>2. \A v \in VPages : UnmapAllAt(s, s, d, l, 0, v)
        BY DEF UnmapAllAt
      <3> QED
        BY <3>1, <3>2 DEF UnmapAllTo, Shrunk
    <2> QED
      BY <2>1, <2>2
  <1> HIDE DEF P, F
  <1>3. PICK g : Computes(g, 0, Len(l), s, P, F)
    <2>1. \A i \in 0 + 1 .. Len(l) : \A x \in P[i - 1] : F[i][x] \in P[i]
      BY <1>1
    <2> QED
      BY <1>0, <1>2, <2>1, LoopExists
  <1>4. Eq(g)
    <2>1. ASSUME NEW i \in 0 .. Len(l)
          PROVE  g[i] = IF i = 0 THEN s ELSE unmap_range(g[i - 1], d, l[i].start, l[i].end)
      <3>1. CASE i = 0
        BY <1>3, <3>1 DEF Computes
      <3>2. CASE i # 0
        <4>1. i \in 0 + 1 .. Len(l) /\ i - 1 \in 0 .. Len(l)
          BY <1>0, <3>2
        <4> QED
          BY <1>1, <1>3, <3>2, <4>1 DEF Computes
      <3> QED
        BY <3>1, <3>2
    <2>2. [i \in 0 .. Len(l) |-> g[i]]
             = [i \in 0 .. Len(l) |-> IF i = 0 THEN s ELSE unmap_range(g[i - 1], d, l[i].start, l[i].end)]
      BY <2>1, Zenon
    <2> QED
      BY <1>3, <2>2, Zenon DEF Computes
  <1>5. Eq(done)
    BY <1>4
  <1>6. r = done[Len(l)]
    BY DEF unmap_all
  <1> HIDE DEF done
  <1>7. /\ done[0] = s
        /\ \A i \in 0 + 1 .. Len(l) : done[i] = unmap_range(done[i - 1], d, l[i].start, l[i].end)
    <2>1. \A i \in 0 .. Len(l) : done[i] = IF i = 0 THEN s ELSE unmap_range(done[i - 1], d, l[i].start, l[i].end)
      BY <1>5, Zenon
    <2>2. 0 \in 0 .. Len(l) /\ \A i \in 0 + 1 .. Len(l) : i \in 0 .. Len(l) /\ i # 0
      BY <1>0
    <2> QED
      BY <2>1, <2>2, Zenon
  <1>8. done[Len(l)] \in P[Len(l)]
    <2>1. \A i \in 0 + 1 .. Len(l) : done[i - 1] \in P[i - 1] => done[i] \in P[i]
      BY <1>1, <1>7
    <2>2. \A i \in 0 .. Len(l) : done[i] \in P[i]
      BY <1>0, <1>2, <1>7, <2>1, LoopInvariant
    <2> QED
      BY <1>0, <2>2
  <1> QED
    BY <1>0, <1>6, <1>8 DEF P

LEMMA ExitAllFacts ==
    ASSUME NEW s, NEW d, NEW W, Space(s, d, W), NEW y, y.pgdir = d, NEW l \in Lists, y.mmap_list = l,
           NEW r, r = exit_all(s, y)
    PROVE  Shrunk(s, r, d, W)
  <1>a. l \in Seq(Vmas)
    BY DEF Lists
  <1>0. 0 \in Nat /\ Len(l) \in Nat /\ 0 <= Len(l)
    BY <1>a
  <1> DEFINE P == [i \in 0 .. Len(l) |-> {x \in Memories : Shrunk(s, x, d, W)}]
             F == [i \in 0 + 1 .. Len(l) |-> [x \in P[i - 1] |-> exit_range(x, d, l[i].start, l[i].end)]]
             Eq(g) == g = [i \in 0 .. Len(l) |-> IF i = 0 THEN s ELSE exit_range(g[i - 1], d, l[i].start, l[i].end)]
             done == CHOOSE g : Eq(g)
  <1>1. ASSUME NEW i \in 0 + 1 .. Len(l), NEW x \in P[i - 1]
        PROVE  exit_range(x, d, l[i].start, l[i].end) \in P[i] /\ F[i][x] = exit_range(x, d, l[i].start, l[i].end)
    <2>1. i - 1 \in 0 .. Len(l) /\ i \in 0 .. Len(l)
      BY <1>0
    <2>2. x \in Memories /\ Shrunk(s, x, d, W)
      BY <1>1, <2>1
    <2> HIDE DEF P
    <2>3. exit_range(x, d, l[i].start, l[i].end) \in Memories /\ Shrunk(s, exit_range(x, d, l[i].start, l[i].end), d, W)
      <3>1. i \in 1 .. Len(l)
        BY <1>0
      <3>2. PICK z : z = exit_range(x, d, l[i].start, l[i].end)
        OBVIOUS
      <3>3. Space(x, d, W)
        BY <2>2 DEF Shrunk
      <3>4. Shrunk(x, z, d, W)
        BY <3>1, <3>2, <3>3, VmaFacts, ExitRangeFacts
      <3>5. Shrunk(s, z, d, W)
        BY <2>2, <3>4, ShrunkTrans
      <3> QED
        BY <3>2, <3>5 DEF Shrunk
    <2>4. exit_range(x, d, l[i].start, l[i].end) \in P[i]
      BY <2>1, <2>3 DEF P
    <2> QED
      BY <1>1, <2>4
  <1>2. s \in P[0]
    <2>1. 0 \in 0 .. Len(l)
      BY <1>0
    <2>2. s \in Memories /\ Shrunk(s, s, d, W)
      BY ShrunkSelf DEF Shrunk
    <2> QED
      BY <2>1, <2>2
  <1> HIDE DEF P, F
  <1>3. PICK g : Computes(g, 0, Len(l), s, P, F)
    <2>1. \A i \in 0 + 1 .. Len(l) : \A x \in P[i - 1] : F[i][x] \in P[i]
      BY <1>1
    <2> QED
      BY <1>0, <1>2, <2>1, LoopExists
  <1>4. Eq(g)
    <2>1. ASSUME NEW i \in 0 .. Len(l)
          PROVE  g[i] = IF i = 0 THEN s ELSE exit_range(g[i - 1], d, l[i].start, l[i].end)
      <3>1. CASE i = 0
        BY <1>3, <3>1 DEF Computes
      <3>2. CASE i # 0
        <4>1. i \in 0 + 1 .. Len(l) /\ i - 1 \in 0 .. Len(l)
          BY <1>0, <3>2
        <4> QED
          BY <1>1, <1>3, <3>2, <4>1 DEF Computes
      <3> QED
        BY <3>1, <3>2
    <2>2. [i \in 0 .. Len(l) |-> g[i]]
             = [i \in 0 .. Len(l) |-> IF i = 0 THEN s ELSE exit_range(g[i - 1], d, l[i].start, l[i].end)]
      BY <2>1, Zenon
    <2> QED
      BY <1>3, <2>2, Zenon DEF Computes
  <1>5. Eq(done)
    BY <1>4
  <1>6. r = done[Len(l)]
    BY DEF exit_all
  <1> HIDE DEF done
  <1>7. /\ done[0] = s
        /\ \A i \in 0 + 1 .. Len(l) : done[i] = exit_range(done[i - 1], d, l[i].start, l[i].end)
    <2>1. \A i \in 0 .. Len(l) : done[i] = IF i = 0 THEN s ELSE exit_range(done[i - 1], d, l[i].start, l[i].end)
      BY <1>5, Zenon
    <2>2. 0 \in 0 .. Len(l) /\ \A i \in 0 + 1 .. Len(l) : i \in 0 .. Len(l) /\ i # 0
      BY <1>0
    <2> QED
      BY <2>1, <2>2, Zenon
  <1>8. done[Len(l)] \in P[Len(l)]
    <2>1. \A i \in 0 + 1 .. Len(l) : done[i - 1] \in P[i - 1] => done[i] \in P[i]
      BY <1>1, <1>7
    <2>2. \A i \in 0 .. Len(l) : done[i] \in P[i]
      BY <1>0, <1>2, <1>7, <2>1, LoopInvariant
    <2> QED
      BY <1>0, <2>2
  <1> QED
    BY <1>0, <1>6, <1>8 DEF P

(* The whole address space is given back: its directory and every page that
   was mapped at an address of a vma are free. *)
Released(s, r, d, W, l) ==
    /\ Forest(r) /\ Local(s, r, W) /\ r.free \subseteq W
    /\ r.err = s.err /\ s.free \subseteq r.free
    /\ \A v \in VPages : (\E j \in 1 .. Len(l) : Covers(l[j], v)) /\ Pte(s, d, v) # NULL
                            => Pte(s, d, v).pg \in r.free

LEMMA ReleaseFacts ==
    ASSUME NEW s, NEW d, NEW W, Space(s, d, W), NEW y, y.pgdir = d, NEW l \in Lists, y.mmap_list = l,
           NEW r, r = Release(s, y)
    PROVE  Released(s, r, d, W, l)
  <1>1. PICK x : x = unmap_all(s, y)
    OBVIOUS
  <1>2. UnmapAllTo(s, x, d, W, l, Len(l))
    BY <1>1, UnmapAllFacts
  <1>3. Shrunk(s, x, d, W) /\ Space(x, d, W)
    BY <1>2 DEF UnmapAllTo, Shrunk
  <1>4. PICK z : z = exit_all(x, y)
    OBVIOUS
  <1>5. Shrunk(x, z, d, W)
    BY <1>3, <1>4, ExitAllFacts
  <1>6. Shrunk(s, z, d, W)
    BY <1>3, <1>5, ShrunkTrans
  <1>7. Forest(z) /\ d \in W \ z.free /\ W \in SUBSET Pages /\ \A t \in Pages, i \in Idx : ~Points(z, t, i, d)
    BY <1>5 DEF Shrunk, Space, Root
  <1>8. r = free_page(z, d)
    BY <1>1, <1>4 DEF Release, exit_mmap
  <1>9. Forest(r) /\ Local(z, r, W) /\ r.err = z.err /\ r.free = z.free \cup {d}
    BY <1>7, <1>8, FreeLoose
  <1>10. Local(s, r, W)
    BY <1>6, <1>9, LocalTrans DEF Shrunk
  <1>11. x.free \subseteq z.free /\ z.free \subseteq W /\ z.err = s.err /\ s.free \subseteq z.free
    BY <1>5, <1>6 DEF Shrunk, Space
  <1>12. r.free \subseteq W /\ r.err = s.err /\ s.free \subseteq r.free /\ x.free \subseteq r.free
    BY <1>7, <1>9, <1>11
  <1>13. ASSUME NEW v \in VPages, \E j \in 1 .. Len(l) : Covers(l[j], v), Pte(s, d, v) # NULL
         PROVE  Pte(s, d, v).pg \in r.free
    <2>1. UnmapAllAt(s, x, d, l, Len(l), v)
      BY <1>2 DEF UnmapAllTo
    <2>2. Pte(s, d, v).pg \in x.free
      BY <1>13, <2>1, Zenon DEF UnmapAllAt
    <2> QED
      BY <1>12, <2>2
  <1> QED
    BY <1>9, <1>10, <1>12, <1>13 DEF Released

---------------------------------------------------------------------------
(* The loops that map pages.                                               *)

LEMMA SameAtTrans ==
    ASSUME NEW s, NEW x, NEW y, NEW d, NEW v, SameAt(s, x, d, v), SameAt(x, y, d, v)
    PROVE  SameAt(s, y, d, v)
  BY DEF SameAt

(* The page v when i pages of the stack have been allocated. *)
StackAt(s, x, d, i, v) ==
    /\ v >= USTACKTOP - i => Pte(x, d, v) # NULL /\ Pte(x, d, v).w = TRUE
    /\ v < USTACKTOP - i => SameAt(s, x, d, v)

StackTo(s, x, d, W, i) ==
    /\ x \in Memories /\ Space(x, d, W) /\ Local(s, x, W)
    /\ x.err = "none" => \A v \in VPages : StackAt(s, x, d, i, v)

LEMMA StackStep ==
    ASSUME NEW s, NEW d, NEW W, NEW i \in 1 .. StackPages, Pte(s, d, USTACKTOP - i) = NULL,
           NEW x, StackTo(s, x, d, W, i - 1), NEW r, r = alloc_stack_page(x, d, USTACKTOP - i)
    PROVE  StackTo(s, r, d, W, i)
  <1>0. /\ USTACKTOP \in Nat /\ VPages = 0 .. USTACKTOP - 1 /\ StackPages \in Nat
        /\ StackPages < USTACKTOP
    BY FanFacts, VmAssumption DEF VPages, USTACKTOP
  <1>1. PICK u \in VPages : u = USTACKTOP - i
    BY <1>0
  <1>2. x \in Memories /\ Space(x, d, W) /\ Local(s, x, W)
    BY DEF StackTo
  <1>3. CASE x.err # "none"
    <2>1. r = x
      BY <1>3 DEF alloc_stack_page
    <2> QED
      BY <1>2, <1>3, <2>1 DEF StackTo
  <1>4. CASE x.err = "none"
    <2>1. r = pgdir_alloc_page(x, d, u, TRUE)
      BY <1>1, <1>4 DEF alloc_stack_page
    <2>2. \A v \in VPages : StackAt(s, x, d, i - 1, v)
      BY <1>4 DEF StackTo
    <2>3. Pte(x, d, u) = NULL
      <3>1. u < USTACKTOP - (i - 1)
        BY <1>0, <1>1
      <3> QED
        BY <1>1, <2>2, <3>1 DEF StackAt, SameAt
    <2>4. /\ Space(r, d, W) /\ Local(x, r, W)
          /\ r.err = "none" => Mapped(x, r, d, u, TRUE)
      BY <1>2, <1>4, <2>1, <2>3, AllocPageFacts
    <2>5. Local(s, r, W)
      BY <1>2, <2>4, LocalTrans
    <2>6. r \in Memories
      BY <2>4 DEF Space, Forest
    <2>7. ASSUME r.err = "none", NEW v \in VPages PROVE StackAt(s, r, d, i, v)
      <3>0. Mapped(x, r, d, u, TRUE)
        BY <2>4, <2>7
      <3>1. CASE v = u
        BY <1>0, <1>1, <3>0, <3>1 DEF Mapped, StackAt
      <3>2. CASE v # u
        <4>1. SameAt(x, r, d, v) /\ StackAt(s, x, d, i - 1, v)
          BY <2>2, <3>0, <3>2 DEF Mapped
        <4>2. CASE v >= USTACKTOP - i
          <5>1. v >= USTACKTOP - (i - 1)
            BY <1>0, <1>1, <3>2, <4>2
          <5> QED
            BY <1>0, <4>1, <4>2, <5>1 DEF StackAt, SameAt
        <4>3. CASE v < USTACKTOP - i
          <5>1. v < USTACKTOP - (i - 1)
            BY <1>0, <1>1, <4>3
          <5>2. SameAt(s, r, d, v)
            BY <4>1, <5>1, SameAtTrans DEF StackAt
          <5> QED
            BY <1>0, <4>3, <5>2 DEF StackAt
        <4> QED
          BY <1>0, <4>2, <4>3
      <3> QED
        BY <3>1, <3>2
    <2> QED
      BY <2>4, <2>5, <2>6, <2>7 DEF StackTo
  <1> QED
    BY <1>3, <1>4

LEMMA AllocStackFacts ==
    ASSUME NEW s, NEW d, NEW W, Space(s, d, W),
           \A i \in 1 .. StackPages : Pte(s, d, USTACKTOP - i) = NULL,
           NEW r, r = alloc_stack(s, d)
    PROVE  StackTo(s, r, d, W, StackPages)
  <1>0. 0 \in Nat /\ StackPages \in Nat /\ 0 <= StackPages
    BY VmAssumption
  <1> DEFINE P == [i \in 0 .. StackPages |-> {x \in Memories : StackTo(s, x, d, W, i)}]
             F == [i \in 0 + 1 .. StackPages |-> [x \in P[i - 1] |-> alloc_stack_page(x, d, USTACKTOP - i)]]
             Eq(g) == g = [i \in 0 .. StackPages |-> IF i = 0 THEN s ELSE alloc_stack_page(g[i - 1], d, USTACKTOP - i)]
             done == CHOOSE g : Eq(g)
  <1>1. ASSUME NEW i \in 0 + 1 .. StackPages, NEW x \in P[i - 1]
        PROVE  alloc_stack_page(x, d, USTACKTOP - i) \in P[i] /\ F[i][x] = alloc_stack_page(x, d, USTACKTOP - i)
    <2>1. i - 1 \in 0 .. StackPages /\ i \in 0 .. StackPages
      BY <1>0
    <2>2. x \in Memories /\ StackTo(s, x, d, W, i - 1)
      BY <1>1, <2>1
    <2> HIDE DEF P
    <2>3. alloc_stack_page(x, d, USTACKTOP - i) \in Memories /\ StackTo(s, alloc_stack_page(x, d, USTACKTOP - i), d, W, i)
      <3>1. i \in 1 .. StackPages
        BY <1>0
      <3>2. PICK y : y = alloc_stack_page(x, d, USTACKTOP - i)
        OBVIOUS
      <3>3. StackTo(s, y, d, W, i)
        BY <2>2, <3>1, <3>2, StackStep
      <3> QED
        BY <3>2, <3>3 DEF StackTo
    <2>4. alloc_stack_page(x, d, USTACKTOP - i) \in P[i]
      BY <2>1, <2>3 DEF P
    <2> QED
      BY <1>1, <2>4
  <1>2. s \in P[0]
    <2>1. 0 \in 0 .. StackPages
      BY <1>0
    <2>2. s \in Memories /\ StackTo(s, s, d, W, 0)
      <3>1. s \in Memories /\ Local(s, s, W)
        BY LocalSelf DEF Space, Forest
      <3>2. USTACKTOP \in Nat /\ VPages = 0 .. USTACKTOP - 1
        BY FanFacts DEF VPages, USTACKTOP
      <3>3. \A v \in VPages : StackAt(s, s, d, 0, v)
        BY <3>2 DEF StackAt, SameAt
      <3> QED
        BY <3>1, <3>3 DEF StackTo
    <2> QED
      BY <2>1, <2>2
  <1> HIDE DEF P, F
  <1>3. PICK g : Computes(g, 0, StackPages, s, P, F)
    <2>1. \A i \in 0 + 1 .. StackPages : \A x \in P[i - 1] : F[i][x] \in P[i]
      BY <1>1
    <2> QED
      BY <1>0, <1>2, <2>1, LoopExists
  <1>4. Eq(g)
    <2>1. ASSUME NEW i \in 0 .. StackPages
          PROVE  g[i] = IF i = 0 THEN s ELSE alloc_stack_page(g[i - 1], d, USTACKTOP - i)
      <3>1. CASE i = 0
        BY <1>3, <3>1 DEF Computes
      <3>2. CASE i # 0
        <4>1. i \in 0 + 1 .. StackPages /\ i - 1 \in 0 .. StackPages
          BY <1>0, <3>2
        <4> QED
          BY <1>1, <1>3, <3>2, <4>1 DEF Computes
      <3> QED
        BY <3>1, <3>2
    <2>2. [i \in 0 .. StackPages |-> g[i]]
             = [i \in 0 .. StackPages |-> IF i = 0 THEN s ELSE alloc_stack_page(g[i - 1], d, USTACKTOP - i)]
      BY <2>1, Zenon
    <2> QED
      BY <1>3, <2>2, Zenon DEF Computes
  <1>5. Eq(done)
    BY <1>4
  <1>6. r = done[StackPages]
    BY DEF alloc_stack
  <1> HIDE DEF done
  <1>7. /\ done[0] = s
        /\ \A i \in 0 + 1 .. StackPages : done[i] = alloc_stack_page(done[i - 1], d, USTACKTOP - i)
    <2>1. \A i \in 0 .. StackPages : done[i] = IF i = 0 THEN s ELSE alloc_stack_page(done[i - 1], d, USTACKTOP - i)
      BY <1>5, Zenon
    <2>2. 0 \in 0 .. StackPages /\ \A i \in 0 + 1 .. StackPages : i \in 0 .. StackPages /\ i # 0
      BY <1>0
    <2> QED
      BY <2>1, <2>2, Zenon
  <1>8. done[StackPages] \in P[StackPages]
    <2>1. \A i \in 0 + 1 .. StackPages : done[i - 1] \in P[i - 1] => done[i] \in P[i]
      BY <1>1, <1>7
    <2>2. \A i \in 0 .. StackPages : done[i] \in P[i]
      BY <1>0, <1>2, <1>7, <2>1, LoopInvariant
    <2> QED
      BY <1>0, <2>2
  <1> QED
    BY <1>0, <1>6, <1>8 DEF P

(* The page v of d in x is a copy of the page v of e in s. *)
CopyOf(s, e, x, d, v) ==
    /\ Pte(x, d, v) = NULL <=> Pte(s, e, v) = NULL
    /\ Pte(s, e, v) # NULL => /\ Pte(x, d, v).w = Pte(s, e, v).w
                              /\ x.data[Pte(x, d, v).pg] = s.data[Pte(s, e, v).pg]

(* The page v when copy_range has come from a to n. *)
CopyAt(s, e, x, d, a, n, v) ==
    /\ v \in a .. n - 1 => CopyOf(s, e, x, d, v)
    /\ v \notin a .. n - 1 => SameAt(s, x, d, v)

CopyTo(s, e, x, d, W, a, n) ==
    /\ x \in Memories /\ Space(x, d, W) /\ Local(s, x, W)
    /\ x.err = "none" => \A v \in VPages : CopyAt(s, e, x, d, a, n, v)

LEMMA CopyStep ==
    ASSUME NEW s, Forest(s), NEW d, NEW W, NEW e, Root(s, e), Tree(s, e) \cap W = {},
           NEW a \in Nat, NEW n \in VPages, a <= n, Pte(s, d, n) = NULL,
           NEW x, CopyTo(s, e, x, d, W, a, n), NEW r, r = copy_if_mapped(x, d, e, n)
    PROVE  CopyTo(s, e, r, d, W, a, n + 1)
  <1>0. n \in Nat /\ VPages \subseteq Nat
    BY FanFacts DEF VPages
  <1>1. x \in Memories /\ Space(x, d, W) /\ Local(s, x, W) /\ x.free \subseteq W /\ e \in Pages
    BY DEF CopyTo, Space, Root
  <1>2. CASE x.err # "none"
    <2>1. r = x
      BY <1>2 DEF copy_if_mapped
    <2> QED
      BY <1>1, <1>2, <2>1 DEF CopyTo
  <1>3. CASE x.err = "none"
    <2>1. SameAt(s, x, e, n)
      BY <1>1, Frame
    <2>2. \A v \in VPages : CopyAt(s, e, x, d, a, n, v)
      BY <1>3 DEF CopyTo
    <2>3. Pte(x, d, n) = NULL
      <3>1. n \notin a .. n - 1
        BY <1>0
      <3> QED
        BY <2>2, <3>1 DEF CopyAt, SameAt
    <2>4. CASE Pte(x, e, n) = NULL
      <3>1. r = x
        BY <2>4 DEF copy_if_mapped
      <3>2. ASSUME NEW v \in VPages PROVE CopyAt(s, e, x, d, a, n + 1, v)
        <4>1. CopyAt(s, e, x, d, a, n, v)
          BY <2>2
        <4>2. CASE v = n
          <5>1. CopyOf(s, e, x, d, v)
            BY <2>1, <2>3, <2>4, <4>2 DEF CopyOf, SameAt
          <5>2. v \in a .. (n + 1) - 1
            BY <1>0, <4>2
          <5> QED
            BY <5>1, <5>2 DEF CopyAt
        <4>3. CASE v # n
          <5>1. v \in a .. (n + 1) - 1 <=> v \in a .. n - 1
            BY <1>0, <4>3
          <5> QED
            BY <4>1, <5>1 DEF CopyAt
        <4> QED
          BY <4>2, <4>3
      <3> QED
        BY <1>1, <3>1, <3>2 DEF CopyTo
    <2>5. CASE Pte(x, e, n) # NULL
      <3>1. r = copy_page(x, d, e, n)
        BY <1>3, <2>5 DEF copy_if_mapped
      <3>2. Pte(x, e, n) \in Entries
        BY <1>1, <2>5, WalkFacts
      <3>3. /\ Space(r, d, W) /\ Local(x, r, W)
            /\ r.err = "none" => Copied(x, r, d, e, n)
        BY <1>1, <1>3, <2>3, <3>1, <3>2, CopyPageFacts
      <3>4. Local(s, r, W)
        BY <1>1, <3>3, LocalTrans
      <3>5. r \in Memories
        BY <3>3 DEF Space, Forest
      <3>6. ASSUME r.err = "none", NEW v \in VPages PROVE CopyAt(s, e, r, d, a, n + 1, v)
        <4>1. Copied(x, r, d, e, n)
          BY <3>3, <3>6
        <4>2. CASE v = n
          <5>1. CopyOf(s, e, r, d, v)
            BY <2>1, <2>5, <4>1, <4>2 DEF CopyOf, SameAt, Copied, Mapped
          <5>2. v \in a .. (n + 1) - 1
            BY <1>0, <4>2
          <5> QED
            BY <5>1, <5>2 DEF CopyAt
        <4>3. CASE v # n
          <5>1. v \in a .. (n + 1) - 1 <=> v \in a .. n - 1
            BY <1>0, <4>3
          <5>2. SameAt(x, r, d, v) /\ CopyAt(s, e, x, d, a, n, v)
            BY <2>2, <4>1, <4>3 DEF Copied, Mapped
          <5>3. CASE v \in a .. n - 1
            <6>1. CopyOf(s, e, x, d, v)
              BY <5>2, <5>3 DEF CopyAt
            <6>2. CopyOf(s, e, r, d, v)
              BY <5>2, <6>1 DEF CopyOf, SameAt
            <6> QED
              BY <5>1, <5>3, <6>2 DEF CopyAt
          <5>4. CASE v \notin a .. n - 1
            <6>1. SameAt(s, r, d, v)
              BY <5>2, <5>4, SameAtTrans DEF CopyAt
            <6> QED
              BY <5>1, <5>4, <6>1 DEF CopyAt
          <5> QED
            BY <5>3, <5>4
        <4> QED
          BY <4>2, <4>3
      <3> QED
        BY <3>3, <3>4, <3>5, <3>6 DEF CopyTo
    <2> QED
      BY <2>4, <2>5
  <1> QED
    BY <1>2, <1>3

LEMMA CopyRangeFacts ==
    ASSUME NEW s, NEW d, NEW W, Space(s, d, W), NEW e, Root(s, e), Tree(s, e) \cap W = {},
           NEW a \in Nat, NEW b \in Nat, a <= b, b <= USTACKTOP,
           \A v \in a .. b - 1 : Pte(s, d, v) = NULL,
           NEW r, r = copy_range(s, d, e, a, b)
    PROVE  CopyTo(s, e, r, d, W, a, b)
  <1>0. \A v \in a + 1 .. b : v - 1 \in VPages /\ (v - 1) + 1 = v /\ a <= v - 1 /\ v - 1 \in a .. b - 1
    BY FanFacts DEF VPages, USTACKTOP
  <1> DEFINE P == [v \in a .. b |-> {x \in Memories : CopyTo(s, e, x, d, W, a, v)}]
             F == [v \in a + 1 .. b |-> [x \in P[v - 1] |-> copy_if_mapped(x, d, e, v - 1)]]
             Eq(g) == g = [v \in a .. b |-> IF v = a THEN s ELSE copy_if_mapped(g[v - 1], d, e, v - 1)]
             at == CHOOSE g : Eq(g)
  <1>1. ASSUME NEW v \in a + 1 .. b, NEW x \in P[v - 1]
        PROVE  copy_if_mapped(x, d, e, v - 1) \in P[v] /\ F[v][x] = copy_if_mapped(x, d, e, v - 1)
    <2>1. v - 1 \in a .. b /\ v \in a .. b
      BY a <= b
    <2>2. x \in Memories /\ CopyTo(s, e, x, d, W, a, v - 1)
      BY <1>1, <2>1
    <2> HIDE DEF P
    <2>3. copy_if_mapped(x, d, e, v - 1) \in Memories /\ CopyTo(s, e, copy_if_mapped(x, d, e, v - 1), d, W, a, v)
      <3>1. v - 1 \in VPages /\ a <= v - 1 /\ Pte(s, d, v - 1) = NULL /\ (v - 1) + 1 = v
        BY <1>0
      <3>2. PICK y : y = copy_if_mapped(x, d, e, v - 1)
        OBVIOUS
      <3>3. Forest(s)
        BY DEF Space
      <3>4. CopyTo(s, e, y, d, W, a, (v - 1) + 1)
        BY <2>2, <3>1, <3>2, <3>3, CopyStep
      <3> QED
        BY <3>1, <3>2, <3>4 DEF CopyTo
    <2>4. copy_if_mapped(x, d, e, v - 1) \in P[v]
      BY <2>1, <2>3 DEF P
    <2> QED
      BY <1>1, <2>4
  <1>2. s \in P[a]
    <2>1. a \in a .. b
      BY a <= b
    <2>2. s \in Memories /\ CopyTo(s, e, s, d, W, a, a)
      <3>1. s \in Memories /\ Local(s, s, W)
        BY LocalSelf DEF Space, Forest
      <3>2. VPages \subseteq Nat /\ \A v \in VPages : v \notin a .. a - 1
        BY FanFacts DEF VPages
      <3>3. \A v \in VPages : CopyAt(s, e, s, d, a, a, v)
        BY <3>2 DEF CopyAt, SameAt
      <3> QED
        BY <3>1, <3>3 DEF CopyTo
    <2> QED
      BY <2>1, <2>2
  <1> HIDE DEF P, F
  <1>3. PICK g : Computes(g, a, b, s, P, F)
    <2>1. \A v \in a + 1 .. b : \A x \in P[v - 1] : F[v][x] \in P[v]
      BY <1>1
    <2> QED
      BY a <= b, <1>2, <2>1, LoopExists
  <1>4. Eq(g)
    <2>1. ASSUME NEW v \in a .. b
          PROVE  g[v] = IF v = a THEN s ELSE copy_if_mapped(g[v - 1], d, e, v - 1)
      <3>1. CASE v = a
        BY <1>3, <3>1 DEF Computes
      <3>2. CASE v # a
        <4>1. v \in a + 1 .. b /\ v - 1 \in a .. b
          BY a <= b, <3>2
        <4> QED
          BY <1>1, <1>3, <3>2, <4>1 DEF Computes
      <3> QED
        BY <3>1, <3>2
    <2>2. [v \in a .. b |-> g[v]]
             = [v \in a .. b |-> IF v = a THEN s ELSE copy_if_mapped(g[v - 1], d, e, v - 1)]
      BY <2>1, Zenon
    <2> QED
      BY <1>3, <2>2, Zenon DEF Computes
  <1>5. Eq(at)
    BY <1>4
  <1>6. r = at[b]
    BY DEF copy_range
  <1> HIDE DEF at
  <1>7. /\ at[a] = s
        /\ \A v \in a + 1 .. b : at[v] = copy_if_mapped(at[v - 1], d, e, v - 1)
    <2>1. \A v \in a .. b : at[v] = IF v = a THEN s ELSE copy_if_mapped(at[v - 1], d, e, v - 1)
      BY <1>5, Zenon
    <2>2. a \in a .. b /\ \A v \in a + 1 .. b : v \in a .. b /\ v # a
      BY a <= b
    <2> QED
      BY <2>1, <2>2, Zenon
  <1>8. at[b] \in P[b]
    <2>1. \A v \in a + 1 .. b : at[v - 1] \in P[v - 1] => at[v] \in P[v]
      BY <1>1, <1>7
    <2>2. \A v \in a .. b : at[v] \in P[v]
      BY a <= b, <1>2, <1>7, <2>1, LoopInvariant
    <2> QED
      BY a <= b, <2>2
  <1> QED
    BY <1>6, <1>8, a <= b DEF P

---------------------------------------------------------------------------
(* The list of vmas.                                                       *)

(* The list k is l with the vma a at the place p. *)
Inserted(k, l, p, a) ==
    /\ k \in Seq(Vmas) /\ Len(k) = Len(l) + 1 /\ k[p] = a
    /\ \A i \in 1 .. p - 1 : k[i] = l[i]
    /\ \A i \in p .. Len(l) : k[i + 1] = l[i]

LEMMA InsertAtFacts ==
    ASSUME NEW l \in Seq(Vmas), NEW a \in Vmas, NEW p \in 1 .. Len(l) + 1
    PROVE  Inserted(InsertAt(l, p, a), l, p, a)
  <1>0. Len(l) \in Nat /\ p \in Int /\ p - 1 \in Int /\ \A i \in 1 .. Len(l) : l[i] \in Vmas
    OBVIOUS
  <1>1. PICK b : b = SubSeq(l, 1, p - 1)
    OBVIOUS
  <1>2. b \in Seq(Vmas) /\ Len(b) = p - 1 /\ \A i \in 1 .. p - 1 : b[i] = l[i]
    <2>1. \A i \in 1 .. p - 1 : l[i] \in Vmas
      BY <1>0
    <2>2. /\ b \in Seq(Vmas) /\ Len(b) = IF 1 <= p - 1 THEN p - 1 - 1 + 1 ELSE 0
          /\ \A i \in 1 .. p - 1 - 1 + 1 : b[i] = l[1 + i - 1]
      BY <1>0, <1>1, <2>1, SubSeqProperties
    <2> QED
      BY <1>0, <2>2
  <1>3. PICK c : c = SubSeq(l, p, Len(l))
    OBVIOUS
  <1>4. c \in Seq(Vmas) /\ Len(c) = Len(l) - p + 1 /\ \A i \in 1 .. Len(l) - p + 1 : c[i] = l[p + i - 1]
    <2>1. \A i \in p .. Len(l) : l[i] \in Vmas
      BY <1>0
    <2>2. /\ c \in Seq(Vmas) /\ Len(c) = IF p <= Len(l) THEN Len(l) - p + 1 ELSE 0
          /\ \A i \in 1 .. Len(l) - p + 1 : c[i] = l[p + i - 1]
      BY <1>0, <1>3, <2>1, SubSeqProperties
    <2> QED
      BY <1>0, <2>2
  <1>5. PICK x : x = b \o <<a>>
    OBVIOUS
  <1>6. /\ x \in Seq(Vmas) /\ Len(x) = p
        /\ \A i \in 1 .. p : x[i] = IF i <= p - 1 THEN l[i] ELSE a
    <2>1. <<a>> \in Seq(Vmas) /\ Len(<<a>>) = 1 /\ <<a>>[1] = a
      OBVIOUS
    <2>2. /\ x \in Seq(Vmas) /\ Len(x) = Len(b) + 1
          /\ \A i \in 1 .. Len(b) + 1 : x[i] = IF i <= Len(b) THEN b[i] ELSE <<a>>[i - Len(b)]
      BY <1>2, <1>5, <2>1, ConcatProperties, ZenonT(40)
    <2>3. ASSUME NEW i \in 1 .. p PROVE x[i] = IF i <= p - 1 THEN l[i] ELSE a
      <3>1. CASE i <= p - 1
        BY <1>0, <1>2, <2>2, <3>1
      <3>2. CASE ~(i <= p - 1)
        <4>1. i = p /\ i - Len(b) = 1 /\ i \in 1 .. Len(b) + 1 /\ ~(i <= Len(b))
          BY <1>0, <1>2, <3>2
        <4> QED
          BY <2>1, <2>2, <3>2, <4>1
      <3> QED
        BY <3>1, <3>2
    <2> QED
      BY <1>0, <1>2, <2>2, <2>3
  <1>7. PICK k : k = x \o c
    OBVIOUS
  <1>8. /\ k \in Seq(Vmas) /\ Len(k) = Len(l) + 1
        /\ \A i \in 1 .. Len(l) + 1 : k[i] = IF i <= p THEN x[i] ELSE c[i - p]
    <2>1. /\ k \in Seq(Vmas) /\ Len(k) = Len(x) + Len(c)
          /\ \A i \in 1 .. Len(x) + Len(c) : k[i] = IF i <= Len(x) THEN x[i] ELSE c[i - Len(x)]
      BY <1>4, <1>6, <1>7, ConcatProperties
    <2>2. Len(x) + Len(c) = Len(l) + 1 /\ Len(x) = p
      BY <1>0, <1>4, <1>6
    <2> QED
      BY <2>1, <2>2
  <1>9. k[p] = a
    BY <1>0, <1>6, <1>8
  <1>10. ASSUME NEW i \in 1 .. p - 1 PROVE k[i] = l[i]
    <2>1. i \in 1 .. p /\ i \in 1 .. Len(l) + 1 /\ i <= p /\ i <= p - 1
      BY <1>0
    <2> QED
      BY <1>6, <1>8, <2>1
  <1>11. ASSUME NEW i \in p .. Len(l) PROVE k[i + 1] = l[i]
    <2>1. i + 1 \in 1 .. Len(l) + 1 /\ ~(i + 1 <= p) /\ (i + 1) - p \in 1 .. Len(l) - p + 1
          /\ p + ((i + 1) - p) - 1 = i
      BY <1>0
    <2>2. k[i + 1] = c[(i + 1) - p]
      BY <1>8, <2>1
    <2>3. c[(i + 1) - p] = l[p + ((i + 1) - p) - 1]
      BY <1>4, <2>1
    <2> QED
      BY <2>1, <2>2, <2>3
  <1>12. InsertAt(l, p, a) = k
    BY <1>1, <1>3, <1>5, <1>7 DEF InsertAt
  <1> QED
    BY <1>8, <1>9, <1>10, <1>11, <1>12 DEF Inserted

LEMMA InsertPosFacts ==
    ASSUME NEW l \in Seq(Vmas), NEW a \in Vmas, NEW p, p = insert_pos(l, a)
    PROVE  /\ p \in 1 .. Len(l) + 1
           /\ \A i \in 1 .. p - 1 : ~(l[i].start > a.start)
           /\ \A i \in 1 .. Len(l) : l[i].start > a.start => p <= i
  <1> DEFINE T == {i \in 1 .. Len(l) : l[i].start > a.start} \cup {Len(l) + 1}
  <1>0. Len(l) \in Nat
    OBVIOUS
  <1>1. T \in SUBSET Nat /\ T # {}
    BY <1>0
  <1>2. p = Min(T)
    BY DEF insert_pos
  <1>3. p \in T /\ \A i \in T : p <= i
    BY <1>1, <1>2, LeastNat
  <1>4. p \in 1 .. Len(l) + 1
    BY <1>0, <1>3
  <1>5. ASSUME NEW i \in 1 .. p - 1 PROVE ~(l[i].start > a.start)
    <2>1. i \in 1 .. Len(l) /\ ~(p <= i)
      BY <1>0, <1>4
    <2> QED
      BY <1>3, <2>1
  <1>6. ASSUME NEW i \in 1 .. Len(l), l[i].start > a.start PROVE p <= i
    BY <1>3, <1>6
  <1> QED
    BY <1>4, <1>5, <1>6

LEMMA InsertFacts ==
    ASSUME NEW x \in AddressSpaces, NEW a \in Vmas, NEW y, y = insert_vma_struct(x, a)
    PROVE  /\ y \in AddressSpaces /\ y.pgdir = x.pgdir
           /\ \E p \in 1 .. Len(x.mmap_list) + 1 :
                 p = insert_pos(x.mmap_list, a) /\ Inserted(y.mmap_list, x.mmap_list, p, a)
  <1>1. PICK l \in Seq(Vmas) : l = x.mmap_list
    BY DEF AddressSpaces
  <1>2. PICK p \in 1 .. Len(l) + 1 : p = insert_pos(l, a)
    BY <1>1, InsertPosFacts
  <1>3. PICK k : k = InsertAt(l, p, a)
    OBVIOUS
  <1>4. Inserted(k, l, p, a)
    BY <1>1, <1>2, <1>3, InsertAtFacts
  <1>5. y = [x EXCEPT !.mmap_list = k]
    BY <1>1, <1>2, <1>3 DEF insert_vma_struct
  <1>6. y.mmap_list = k /\ y.pgdir = x.pgdir /\ y = [pgdir |-> y.pgdir, mmap_list |-> y.mmap_list]
    BY <1>5 DEF AddressSpaces
  <1>7. y.mmap_list \in Seq(Vmas) /\ y.pgdir \in Pages
    BY <1>4, <1>6 DEF Inserted, AddressSpaces
  <1>8. y \in AddressSpaces
    BY <1>6, <1>7 DEF AddressSpaces
  <1> QED
    BY <1>1, <1>2, <1>4, <1>6, <1>8

(* Where an element of the new list comes from. *)
LEMMA InsertedFrom ==
    ASSUME NEW l \in Seq(Vmas), NEW a \in Vmas, NEW p \in 1 .. Len(l) + 1, NEW k, Inserted(k, l, p, a),
           NEW i \in 1 .. Len(k)
    PROVE  \/ i = p /\ k[i] = a
           \/ i < p /\ i \in 1 .. Len(l) /\ k[i] = l[i]
           \/ p < i /\ i - 1 \in 1 .. Len(l) /\ k[i] = l[i - 1]
  <1>0. Len(l) \in Nat /\ Len(k) = Len(l) + 1
    BY DEF Inserted
  <1>1. CASE i = p
    BY <1>1 DEF Inserted
  <1>2. CASE i < p
    <2>1. i \in 1 .. p - 1 /\ i \in 1 .. Len(l)
      BY <1>0, <1>2
    <2> QED
      BY <1>2, <2>1 DEF Inserted
  <1>3. CASE p < i
    <2>1. i - 1 \in p .. Len(l) /\ (i - 1) + 1 = i /\ i - 1 \in 1 .. Len(l)
      BY <1>0, <1>3
    <2>2. k[(i - 1) + 1] = l[i - 1]
      BY <2>1 DEF Inserted
    <2> QED
      BY <1>3, <2>1, <2>2
  <1> QED
    BY <1>0, <1>1, <1>2, <1>3

(* A list stays as it should be when the asserts of insert_vma_struct hold. *)
LEMMA InsertedOK ==
    ASSUME NEW l, ListOK(l), NEW a \in Vmas, a.start < a.end, NEW p \in 1 .. Len(l) + 1,
           NEW k, Inserted(k, l, p, a), ~Overlaps(k)
    PROVE  ListOK(k)
  <1>0. l \in Seq(Vmas) /\ Len(l) \in Nat /\ Len(k) = Len(l) + 1 /\ k \in Seq(Vmas)
    BY DEF ListOK, Inserted
  <1>1. \A i \in 1 .. Len(l) : l[i].start \in Nat /\ l[i].end \in Nat /\ l[i].start < l[i].end
    <2>1. l \in Lists
      BY DEF ListOK, Lists
    <2> QED
      BY <2>1, VmaFacts
  <1>2. a.start \in Nat /\ a.end \in Nat
    BY FanFacts DEF Vmas, VPages
  <1>3. ASSUME NEW i \in 1 .. Len(k) PROVE k[i].start < k[i].end
    <2>1. k[i] = a \/ \E j \in 1 .. Len(l) : k[i] = l[j]
      BY <1>0, InsertedFrom
    <2> QED
      BY <1>1, <2>1
  <1>4. \A i \in 1 .. Len(k) - 1 : ~(k[i].end > k[i + 1].start)
    BY DEF Overlaps
  <1>5. ASSUME NEW i \in 1 .. Len(l), i < p PROVE l[i].end <= a.start
    <2>1. p - 1 \in 1 .. Len(k) - 1 /\ p - 1 \in 1 .. Len(l) /\ p - 1 \in 1 .. p - 1 /\ (p - 1) + 1 = p
      BY <1>0, <1>5
    <2>2. k[p - 1] = l[p - 1] /\ k[(p - 1) + 1] = a
      BY <2>1 DEF Inserted
    <2>3. l[p - 1].end <= a.start
      <3>1. PICK h \in 1 .. Len(l) : h = p - 1
        BY <2>1
      <3>2. ~(k[h].end > k[h + 1].start)
        BY <1>4, <2>1, <3>1
      <3>3. k[h] = l[h] /\ k[h + 1] = a
        BY <2>2, <3>1, Zenon
      <3>4. ~(l[h].end > a.start)
        BY <3>2, <3>3, Zenon
      <3>5. l[h].end \in Nat
        BY <1>1
      <3>6. l[h].end <= a.start
        BY <1>2, <3>4, <3>5
      <3> QED
        BY <3>1, <3>6, Zenon
    <2>4. CASE i = p - 1
      BY <2>3, <2>4, Zenon
    <2>5. CASE i # p - 1
      <3>1. l[i].end <= l[p - 1].start
        BY <1>5, <2>1, <2>5 DEF ListOK
      <3> QED
        BY <1>1, <1>2, <2>1, <2>3, <3>1
    <2> QED
      BY <2>4, <2>5
  <1>6. ASSUME NEW i \in 1 .. Len(l), p <= i PROVE a.end <= l[i].start
    <2>1. p \in 1 .. Len(k) - 1 /\ p \in 1 .. Len(l) /\ p \in p .. Len(l)
      BY <1>0, <1>6
    <2>2. k[p] = a /\ k[p + 1] = l[p]
      BY <2>1 DEF Inserted
    <2>3. a.end <= l[p].start
      BY <1>1, <1>2, <1>4, <2>1, <2>2
    <2>4. CASE i = p
      BY <2>3, <2>4
    <2>5. CASE i # p
      <3>1. l[p].end <= l[i].start
        BY <1>6, <2>1, <2>5 DEF ListOK
      <3> QED
        BY <1>1, <1>2, <2>1, <2>3, <3>1, SMTT(30)
    <2> QED
      BY <2>4, <2>5
  <1>7. ASSUME NEW i \in 1 .. Len(k), NEW j \in 1 .. Len(k), i < j PROVE k[i].end <= k[j].start
    <2>1. \/ i = p /\ k[i] = a
          \/ i < p /\ i \in 1 .. Len(l) /\ k[i] = l[i]
          \/ p < i /\ i - 1 \in 1 .. Len(l) /\ k[i] = l[i - 1]
      BY <1>0, InsertedFrom
    <2>2. \/ j = p /\ k[j] = a
          \/ j < p /\ j \in 1 .. Len(l) /\ k[j] = l[j]
          \/ p < j /\ j - 1 \in 1 .. Len(l) /\ k[j] = l[j - 1]
      BY <1>0, InsertedFrom
    <2>3. CASE i = p /\ k[i] = a
      <3>1. p <= j - 1 /\ j - 1 \in 1 .. Len(l) /\ k[j] = l[j - 1]
        BY <1>7, <2>2, <2>3
      <3> QED
        BY <1>6, <2>3, <3>1
    <2>4. CASE j = p /\ k[j] = a
      <3>1. i < p /\ i \in 1 .. Len(l) /\ k[i] = l[i]
        BY <1>7, <2>1, <2>4
      <3> QED
        BY <1>5, <2>4, <3>1
    <2>5. CASE i # p /\ j # p
      <3>1. PICK u \in 1 .. Len(l), w \in 1 .. Len(l) : u < w /\ k[i] = l[u] /\ k[j] = l[w]
        <4>1. CASE i < p /\ j < p
          BY <1>7, <2>1, <2>2, <4>1
        <4>2. CASE i < p /\ p < j
          <5>1. i < j - 1
            BY <4>2
          <5> QED
            BY <2>1, <2>2, <4>2, <5>1
        <4>3. CASE p < i /\ p < j
          <5>1. i - 1 < j - 1
            BY <1>7
          <5> QED
            BY <2>1, <2>2, <4>3, <5>1
        <4> QED
          BY <1>7, <2>5, <4>1, <4>2, <4>3
      <3> QED
        BY <3>1 DEF ListOK
    <2> QED
      BY <2>1, <2>2, <2>3, <2>4, <2>5
  <1> QED
    BY <1>0, <1>3, <1>7 DEF ListOK

(* find_vma finds nothing where no vma is. *)
LEMMA FindVmaFacts ==
    ASSUME NEW x \in AddressSpaces, NEW v, find_vma(x, v) = NULL
    PROVE  \A i \in 1 .. Len(x.mmap_list) : ~Covers(x.mmap_list[i], v)
  <1> DEFINE l == x.mmap_list
             found == {i \in 1 .. Len(l) : Covers(l[i], v)}
  <1>0. l \in Seq(Vmas)
    BY DEF AddressSpaces
  <1>1. SUFFICES ASSUME found # {} PROVE FALSE
    OBVIOUS
  <1>2. found \in SUBSET Nat
    BY <1>0
  <1>3. PICK j \in found : j = Min(found)
    BY <1>1, <1>2, LeastNat
  <1>a. j \in 1 .. Len(l)
    BY <1>3, Zenon
  <1>4. l[j] \in Vmas
    BY <1>0, <1>a
  <1>5. find_vma(x, v) = l[j]
    BY <1>1, <1>3, Zenon DEF find_vma
  <1> QED
    BY <1>4, <1>5, VmAssumption

---------------------------------------------------------------------------
(* dup_mmap.                                                               *)

Dups == [m : Memories, y : AddressSpaces]

(* The vma k is one of the last n of the list l. *)
AmongLast(l, n, j) == j \in 1 .. Len(l) /\ j > Len(l) - n

(* The page v of the child d when the last n vmas of its parent e are copied. *)
DupAt(s, e, x, d, l, n, v) ==
    /\ (\E j \in 1 .. Len(l) : AmongLast(l, n, j) /\ Covers(l[j], v)) => CopyOf(s, e, x, d, v)
    /\ (~\E j \in 1 .. Len(l) : AmongLast(l, n, j) /\ Covers(l[j], v)) => Pte(x, d, v) = NULL

Suffix(k, l, n) == Len(k) = n /\ \A j \in 1 .. n : k[j] = l[(Len(l) - n) + j]

DupTo(s, e, z, d, W, l, n) ==
    /\ z \in Dups /\ z.y.pgdir = d /\ z.y.mmap_list \in Lists
    /\ Space(z.m, d, W) /\ Local(s, z.m, W)
    /\ z.m.err = "none" => /\ Suffix(z.y.mmap_list, l, n)
                           /\ \A v \in VPages : DupAt(s, e, z.m, d, l, n, v)

(* The vma that is copied next goes to the front. *)
LEMMA DupListStep ==
    ASSUME NEW l, ListOK(l), NEW n \in 1 .. Len(l), NEW x \in AddressSpaces, Suffix(x.mmap_list, l, n - 1),
           NEW y, y = insert_vma_struct(x, l[Len(l) - n + 1])
    PROVE  Suffix(y.mmap_list, l, n)
  <1>0. Len(l) \in Nat /\ Len(l) - n + 1 \in 1 .. Len(l) /\ l \in Seq(Vmas)
    BY DEF ListOK
  <1>1. PICK i \in 1 .. Len(l) : i = Len(l) - n + 1
    BY <1>0
  <1>2. PICK a \in Vmas : a = l[i]
    BY <1>0
  <1>3. PICK k \in Seq(Vmas) : k = x.mmap_list
    BY DEF AddressSpaces
  <1>4. Len(k) = n - 1 /\ \A j \in 1 .. n - 1 : k[j] = l[(Len(l) - (n - 1)) + j]
    BY <1>3 DEF Suffix
  <1>5. PICK p \in 1 .. Len(k) + 1 : p = insert_pos(k, a) /\ Inserted(y.mmap_list, k, p, a)
    BY <1>1, <1>2, <1>3, InsertFacts
  <1>6. p = 1
    <2>1. CASE n = 1
      BY <1>4, <2>1
    <2>2. CASE n # 1
      <3>1. 1 \in 1 .. n - 1 /\ 1 \in 1 .. Len(k) /\ (Len(l) - (n - 1)) + 1 = i + 1 /\ i + 1 \in 1 .. Len(l)
        BY <1>0, <1>1, <1>4, <2>2
      <3>2. k[1] = l[i + 1]
        BY <1>4, <3>1
      <3>3. a.end <= k[1].start
        BY <1>1, <1>2, <3>1, <3>2, SMTT(30) DEF ListOK
      <3>4. a.start \in Nat /\ a.end \in Nat /\ a.start < a.end /\ k[1].start \in Nat
        <4>1. l \in Lists
          BY DEF ListOK, Lists
        <4> QED
          BY <1>2, <3>1, <3>2, <4>1, VmaFacts
      <3>5. k[1].start > a.start
        BY <3>3, <3>4, SMTT(30)
      <3>6. p <= 1
        BY <1>5, <3>1, <3>5, InsertPosFacts
      <3> QED
        BY <1>4, <3>6
    <2> QED
      BY <2>1, <2>2
  <1>7. Len(y.mmap_list) = n
    BY <1>4, <1>5 DEF Inserted
  <1>8. ASSUME NEW j \in 1 .. n PROVE y.mmap_list[j] = l[(Len(l) - n) + j]
    <2>1. CASE j = 1
      <3>1. (Len(l) - n) + j = i
        BY <1>0, <1>1, <2>1
      <3> QED
        BY <1>2, <1>5, <1>6, <2>1, <3>1 DEF Inserted
    <2>2. CASE j # 1
      <3>1. /\ j - 1 \in 1 .. n - 1 /\ j - 1 \in p .. Len(k) /\ (j - 1) + 1 = j
            /\ (Len(l) - (n - 1)) + (j - 1) = (Len(l) - n) + j
        BY <1>0, <1>4, <1>6, <2>2, SMTT(30)
      <3>2. y.mmap_list[(j - 1) + 1] = k[j - 1]
        BY <1>5, <3>1 DEF Inserted
      <3>3. k[j - 1] = l[(Len(l) - (n - 1)) + (j - 1)]
        BY <1>4, <3>1
      <3> QED
        BY <3>1, <3>2, <3>3
    <2> QED
      BY <2>1, <2>2
  <1> QED
    BY <1>7, <1>8 DEF Suffix

LEMMA InsertLists ==
    ASSUME NEW x \in AddressSpaces, x.mmap_list \in Lists, NEW a \in Vmas, a.start < a.end,
           NEW y, y = insert_vma_struct(x, a)
    PROVE  y \in AddressSpaces /\ y.pgdir = x.pgdir /\ y.mmap_list \in Lists
  <1>1. PICK l \in Seq(Vmas) : l = x.mmap_list
    BY DEF AddressSpaces
  <1>2. y \in AddressSpaces /\ y.pgdir = x.pgdir
    BY InsertFacts
  <1>3. PICK p \in 1 .. Len(l) + 1 : Inserted(y.mmap_list, l, p, a)
    BY <1>1, InsertFacts
  <1>4. y.mmap_list \in Seq(Vmas)
    BY <1>3 DEF Inserted
  <1>5. ASSUME NEW i \in 1 .. Len(y.mmap_list) PROVE y.mmap_list[i].start < y.mmap_list[i].end
    <2>1. y.mmap_list[i] = a \/ \E j \in 1 .. Len(l) : y.mmap_list[i] = l[j]
      BY <1>1, <1>3, InsertedFrom, SMTT(30)
    <2>2. \A j \in 1 .. Len(l) : l[j].start < l[j].end
      BY <1>1 DEF Lists
    <2> QED
      BY <2>1, <2>2
  <1> QED
    BY <1>2, <1>4, <1>5 DEF Lists

LEMMA DupStep ==
    ASSUME NEW s, Forest(s), NEW d, NEW W, NEW e, Root(s, e), Tree(s, e) \cap W = {},
           NEW x, x.pgdir = e, NEW l, ListOK(l), NEW n \in 1 .. Len(l),
           NEW z, DupTo(s, e, z, d, W, l, n - 1), NEW r, r = dup_vma(z, x, l[Len(l) - n + 1])
    PROVE  DupTo(s, e, r, d, W, l, n)
  <1>0. Len(l) \in Nat /\ Len(l) - n + 1 \in 1 .. Len(l) /\ l \in Seq(Vmas) /\ l \in Lists
    BY DEF ListOK, Lists
  <1>1. /\ z \in Dups /\ z.y.pgdir = d /\ z.y.mmap_list \in Lists /\ z.y \in AddressSpaces
        /\ Space(z.m, d, W) /\ Local(s, z.m, W) /\ z.m \in Memories /\ z.m.free \subseteq W
    BY DEF DupTo, Dups, Space
  <1>2. CASE z.m.err # "none"
    <2>1. r = z
      BY <1>2 DEF dup_vma
    <2> QED
      BY <1>1, <1>2, <2>1 DEF DupTo
  <1>3. CASE z.m.err = "none"
    <2>1. PICK i \in 1 .. Len(l) : i = Len(l) - n + 1
      BY <1>0
    <2>2. PICK a \in Vmas : a = l[i]
      BY <1>0
    <2>3. /\ a.start \in Nat /\ a.end \in Nat /\ a.start < a.end /\ a.start <= a.end /\ a.end <= USTACKTOP
          /\ \A v \in VPages : Covers(a, v) <=> v \in a.start .. a.end - 1
          /\ \A v \in a.start .. a.end - 1 : v \in VPages
      BY <1>0, <2>2, VmaFacts
    <2>4. Suffix(z.y.mmap_list, l, n - 1) /\ \A v \in VPages : DupAt(s, e, z.m, d, l, n - 1, v)
      BY <1>3 DEF DupTo
    <2>5. PICK q : q = copy_range(z.m, d, e, a.start, a.end)
      OBVIOUS
    <2>6. PICK y : y = insert_vma_struct(z.y, a)
      OBVIOUS
    <2>7. r = [m |-> q, y |-> y]
      BY <1>1, <1>3, <2>1, <2>2, <2>5, <2>6 DEF dup_vma
    <2>8. y \in AddressSpaces /\ y.pgdir = d /\ y.mmap_list \in Lists
      BY <1>1, <2>3, <2>6, InsertLists
    <2>9. Suffix(y.mmap_list, l, n)
      BY <1>1, <2>1, <2>2, <2>4, <2>6, DupListStep
    <2>10. Root(z.m, e) /\ Tree(z.m, e) \cap W = {} /\ \A v \in VPages : SameAt(s, z.m, e, v)
      BY <1>1, Frame
    <2>11. \A j \in 1 .. Len(l) : AmongLast(l, n, j) <=> j = i \/ AmongLast(l, n - 1, j)
      BY <1>0, <2>1 DEF AmongLast
    <2>12. ASSUME NEW j \in 1 .. Len(l), AmongLast(l, n - 1, j), NEW v \in VPages, Covers(l[j], v)
           PROVE  ~Covers(a, v)
      <3>1. i < j
        BY <1>0, <2>1, <2>12 DEF AmongLast
      <3>2. a.end <= l[j].start
        BY <2>2, <3>1 DEF ListOK
      <3>3. l[j].start \in Nat /\ v \in Nat
        BY <1>0, FanFacts, VmaFacts DEF VPages
      <3> QED
        BY <2>3, <2>12, <3>2, <3>3 DEF Covers
    <2>13. ASSUME NEW v \in a.start .. a.end - 1 PROVE Pte(z.m, d, v) = NULL
      <3>1. v \in VPages /\ Covers(a, v)
        BY <2>3
      <3>2. ~\E j \in 1 .. Len(l) : AmongLast(l, n - 1, j) /\ Covers(l[j], v)
        BY <2>12, <3>1
      <3> QED
        BY <2>4, <3>1, <3>2 DEF DupAt
    <2>14. CopyTo(z.m, e, q, d, W, a.start, a.end)
      BY <1>1, <2>3, <2>5, <2>10, <2>13, CopyRangeFacts
    <2>15. q \in Memories /\ Space(q, d, W) /\ Local(s, q, W)
      BY <1>1, <2>14, LocalTrans DEF CopyTo
    <2>16. ASSUME q.err = "none", NEW v \in VPages PROVE DupAt(s, e, q, d, l, n, v)
      <3>1. CopyAt(z.m, e, q, d, a.start, a.end, v) /\ DupAt(s, e, z.m, d, l, n - 1, v) /\ SameAt(s, z.m, e, v)
        BY <2>4, <2>10, <2>14, <2>16 DEF CopyTo
      <3>2. CASE Covers(a, v)
        <4>1. CopyOf(z.m, e, q, d, v)
          BY <2>3, <3>1, <3>2 DEF CopyAt
        <4>2. CopyOf(s, e, q, d, v)
          BY <3>1, <4>1 DEF CopyOf, SameAt
        <4>3. \E j \in 1 .. Len(l) : AmongLast(l, n, j) /\ Covers(l[j], v)
          BY <2>2, <2>11, <3>2
        <4> QED
          BY <4>2, <4>3 DEF DupAt
      <3>3. CASE ~Covers(a, v)
        <4>1. SameAt(z.m, q, d, v)
          BY <2>3, <3>1, <3>3 DEF CopyAt
        <4>2. CASE \E j \in 1 .. Len(l) : AmongLast(l, n, j) /\ Covers(l[j], v)
          <5>1. \E j \in 1 .. Len(l) : AmongLast(l, n - 1, j) /\ Covers(l[j], v)
            BY <2>2, <2>11, <3>3, <4>2
          <5>2. CopyOf(s, e, z.m, d, v)
            BY <3>1, <5>1 DEF DupAt
          <5>3. CopyOf(s, e, q, d, v)
            BY <4>1, <5>2 DEF CopyOf, SameAt
          <5> QED
            BY <4>2, <5>3 DEF DupAt
        <4>3. CASE ~\E j \in 1 .. Len(l) : AmongLast(l, n, j) /\ Covers(l[j], v)
          <5>1. ~\E j \in 1 .. Len(l) : AmongLast(l, n - 1, j) /\ Covers(l[j], v)
            BY <2>11, <4>3
          <5>2. Pte(q, d, v) = NULL
            BY <3>1, <4>1, <5>1 DEF DupAt, SameAt
          <5> QED
            BY <4>3, <5>2 DEF DupAt
        <4> QED
          BY <4>2, <4>3
      <3> QED
        BY <3>2, <3>3
    <2>17. r.m = q /\ r.y = y /\ r \in Dups
      BY <2>7, <2>8, <2>15 DEF Dups
    <2> QED
      BY <2>8, <2>9, <2>15, <2>16, <2>17 DEF DupTo
  <1> QED
    BY <1>2, <1>3

LEMMA DupMmapFacts ==
    ASSUME NEW s, NEW d, NEW W, Space(s, d, W), \A v \in VPages : Pte(s, d, v) = NULL,
           NEW e, Root(s, e), Tree(s, e) \cap W = {},
           NEW x, x.pgdir = e, NEW l, x.mmap_list = l, ListOK(l), NEW n \in 0 .. Len(l),
           NEW y, y = [pgdir |-> d, mmap_list |-> << >>], NEW r, r = dup_mmap(s, y, x, n)
    PROVE  DupTo(s, e, r, d, W, l, n)
  <1>a. l \in Seq(Vmas) /\ Len(l) \in Nat
    BY DEF ListOK
  <1>0. 0 \in Nat /\ n \in Nat /\ 0 <= n
    BY <1>a
  <1>b. PICK z : z = [m |-> s, y |-> y]
    OBVIOUS
  <1> DEFINE P == [i \in 0 .. n |-> {u \in Dups : DupTo(s, e, u, d, W, l, i)}]
             F == [i \in 0 + 1 .. n |-> [u \in P[i - 1] |-> dup_vma(u, x, l[Len(l) - i + 1])]]
             Eq(g) == g = [i \in 0 .. n |-> IF i = 0 THEN z ELSE dup_vma(g[i - 1], x, l[Len(l) - i + 1])]
             done == CHOOSE g : Eq(g)
  <1>1. ASSUME NEW i \in 0 + 1 .. n, NEW u \in P[i - 1]
        PROVE  dup_vma(u, x, l[Len(l) - i + 1]) \in P[i] /\ F[i][u] = dup_vma(u, x, l[Len(l) - i + 1])
    <2>1. i - 1 \in 0 .. n /\ i \in 0 .. n
      BY <1>0
    <2>2. u \in Dups /\ DupTo(s, e, u, d, W, l, i - 1)
      BY <1>1, <2>1
    <2> HIDE DEF P
    <2>3. dup_vma(u, x, l[Len(l) - i + 1]) \in Dups /\ DupTo(s, e, dup_vma(u, x, l[Len(l) - i + 1]), d, W, l, i)
      <3>1. i \in 1 .. Len(l)
        BY <1>a, <1>0
      <3>2. PICK q : q = dup_vma(u, x, l[Len(l) - i + 1])
        OBVIOUS
      <3>3. Forest(s)
        BY DEF Space
      <3>4. DupTo(s, e, q, d, W, l, i)
        BY <2>2, <3>1, <3>2, <3>3, DupStep
      <3> QED
        BY <3>2, <3>4 DEF DupTo
    <2>4. dup_vma(u, x, l[Len(l) - i + 1]) \in P[i]
      BY <2>1, <2>3 DEF P
    <2> QED
      BY <1>1, <2>4
  <1>2. z \in P[0]
    <2>1. 0 \in 0 .. n
      BY <1>0
    <2>2. z \in Dups /\ DupTo(s, e, z, d, W, l, 0)
      <3>1. s \in Memories /\ Local(s, s, W) /\ d \in Pages
        BY LocalSelf DEF Space, Forest, Root
      <3>2. << >> \in Seq(Vmas) /\ Len(<< >>) = 0
        OBVIOUS
      <3>3. y \in AddressSpaces /\ y.pgdir = d /\ y.mmap_list = << >>
        BY <3>1, <3>2 DEF AddressSpaces
      <3>4. y.mmap_list \in Lists /\ Suffix(y.mmap_list, l, 0)
        BY <3>2, <3>3 DEF Lists, Suffix
      <3>5. \A j \in 1 .. Len(l) : ~AmongLast(l, 0, j)
        BY <1>a DEF AmongLast
      <3>6. \A v \in VPages : DupAt(s, e, s, d, l, 0, v)
        BY <3>5 DEF DupAt
      <3>7. z \in Dups /\ z.m = s /\ z.y = y
        BY <1>b, <3>1, <3>3 DEF Dups
      <3> QED
        BY <3>1, <3>3, <3>4, <3>6, <3>7 DEF DupTo
    <2> QED
      BY <2>1, <2>2
  <1> HIDE DEF P, F
  <1>3. PICK g : Computes(g, 0, n, z, P, F)
    <2>1. \A i \in 0 + 1 .. n : \A u \in P[i - 1] : F[i][u] \in P[i]
      BY <1>1
    <2> QED
      BY <1>0, <1>2, <2>1, LoopExists
  <1>4. Eq(g)
    <2>1. ASSUME NEW i \in 0 .. n
          PROVE  g[i] = IF i = 0 THEN z ELSE dup_vma(g[i - 1], x, l[Len(l) - i + 1])
      <3>1. CASE i = 0
        BY <1>3, <3>1 DEF Computes
      <3>2. CASE i # 0
        <4>1. i \in 0 + 1 .. n /\ i - 1 \in 0 .. n
          BY <1>0, <3>2
        <4> QED
          BY <1>1, <1>3, <3>2, <4>1 DEF Computes
      <3> QED
        BY <3>1, <3>2
    <2>2. [i \in 0 .. n |-> g[i]]
             = [i \in 0 .. n |-> IF i = 0 THEN z ELSE dup_vma(g[i - 1], x, l[Len(l) - i + 1])]
      BY <2>1, Zenon
    <2> QED
      BY <1>3, <2>2, Zenon DEF Computes
  <1>5. Eq(done)
    BY <1>4
  <1>6. r = done[n]
    BY <1>b DEF dup_mmap
  <1> HIDE DEF done
  <1>7. /\ done[0] = z
        /\ \A i \in 0 + 1 .. n : done[i] = dup_vma(done[i - 1], x, l[Len(l) - i + 1])
    <2>1. \A i \in 0 .. n : done[i] = IF i = 0 THEN z ELSE dup_vma(done[i - 1], x, l[Len(l) - i + 1])
      BY <1>5, Zenon
    <2>2. 0 \in 0 .. n /\ \A i \in 0 + 1 .. n : i \in 0 .. n /\ i # 0
      BY <1>0
    <2> QED
      BY <2>1, <2>2, Zenon
  <1>8. done[n] \in P[n]
    <2>1. \A i \in 0 + 1 .. n : done[i - 1] \in P[i - 1] => done[i] \in P[i]
      BY <1>1, <1>7
    <2>2. \A i \in 0 .. n : done[i] \in P[i]
      BY <1>0, <1>2, <1>7, <2>1, LoopInvariant
    <2> QED
      BY <1>0, <2>2
  <1> QED
    BY <1>0, <1>6, <1>8 DEF P

---------------------------------------------------------------------------
(* The invariant: what a step of one process means for the others.         *)

(* SpaceOK is about the page table entries only. *)
LEMMA SamePtes ==
    ASSUME NEW s, NEW r, NEW x \in AddressSpaces, NEW st, NEW td, SpaceOK(s, x, st, td), Root(r, x.pgdir),
           \A v \in VPages : Pte(r, x.pgdir, v) = Pte(s, x.pgdir, v)
    PROVE  SpaceOK(r, x, st, td)
  <1>1. PICK d \in Pages, l \in Seq(Vmas) : d = x.pgdir /\ l = x.mmap_list
    BY DEF AddressSpaces
  <1>2. ListOK(l) /\ l \in Lists
    BY <1>1 DEF SpaceOK, ListOK, Lists
  <1>3. Within(r, d, l)
    BY <1>1 DEF SpaceOK, Within
  <1>4. ASSUME NEW i \in 1 .. Len(l)
        PROVE  /\ Full(s, d, l[i]) => Full(r, d, l[i])
               /\ Partly(s, d, l[i]) => Partly(r, d, l[i])
    <2>1. \A v \in l[i].start .. l[i].end - 1 : v \in VPages
      BY <1>2, VmaFacts
    <2>2. \A v \in l[i].start .. l[i].end - 1 : Pte(r, d, v) = Pte(s, d, v)
      BY <1>1, <2>1
    <2> QED
      BY <2>2 DEF Full, Partly
  <1> QED
    BY <1>1, <1>2, <1>3, <1>4 DEF SpaceOK

(* No process but p has a page in W. *)
Aside(p, W) == \A q \in Procs \ {p} : mm[q] # NULL => Tree(m, mm[q].pgdir) \cap W = {}

(* Only p has changed its state, and the others have the memory they had. *)
Others(p) == \A q \in Procs \ {p} : mm'[q] = mm[q] /\ state'[q] = state[q] /\ todo'[q] = todo[q]
Kept(p) ==
    /\ Others(p)
    /\ \A q \in Procs \ {p} : mm[q] # NULL => \A v \in VPages : SameAt(m, m', mm[q].pgdir, v)

LEMMA StepFrame ==
    ASSUME Inv, ~down, NEW p \in Procs, NEW W, Aside(p, W), Others(p),
           m' \in Memories, m'.free \subseteq W, Local(m, m', W)
    PROVE  /\ Kept(p)
           /\ \A q \in Procs \ {p} : mm[q] # NULL => SpaceOK(m', mm[q], state[q], todo[q])
  <1>1. ASSUME NEW q \in Procs \ {p}, mm[q] # NULL
        PROVE  /\ \A v \in VPages : SameAt(m, m', mm[q].pgdir, v)
               /\ SpaceOK(m', mm[q], state[q], todo[q])
    <2>1. /\ SpaceOK(m, mm[q], state[q], todo[q]) /\ Forest(m) /\ mm[q] \in AddressSpaces
          /\ Tree(m, mm[q].pgdir) \cap W = {} /\ Root(m, mm[q].pgdir)
      BY <1>1 DEF Inv, Control, Aside, SpaceOK
    <2>2. Root(m', mm[q].pgdir) /\ \A v \in VPages : SameAt(m, m', mm[q].pgdir, v)
      BY <2>1, Frame
    <2>3. \A v \in VPages : Pte(m', mm[q].pgdir, v) = Pte(m, mm[q].pgdir, v)
      BY <2>2 DEF SameAt
    <2> QED
      BY <2>1, <2>2, <2>3, SamePtes
  <1> QED
    BY <1>1 DEF Kept

LEMMA StepInv ==
    ASSUME Inv, ~down, NEW p \in Procs, NEW W, Aside(p, W), Others(p),
           Forest(m'), m'.err = "none", m'.free \subseteq W, Local(m, m', W),
           down' \in BOOLEAN, Control',
           mm'[p] # NULL => /\ SpaceOK(m', mm'[p], state'[p], todo'[p])
                            /\ \A q \in Procs \ {p} : mm[q] # NULL => mm[q].pgdir # mm'[p].pgdir
    PROVE  Inv' /\ Kept(p)
  <1>1. /\ Kept(p)
        /\ \A q \in Procs \ {p} : mm[q] # NULL => SpaceOK(m', mm[q], state[q], todo[q])
    BY StepFrame DEF Forest
  <1>2. ASSUME NEW q \in Procs, mm'[q] # NULL PROVE SpaceOK(m', mm'[q], state'[q], todo'[q])
    <2>1. CASE q = p
      BY <1>2, <2>1
    <2>2. CASE q # p
      BY <1>1, <1>2, <2>2 DEF Others
    <2> QED
      BY <2>1, <2>2
  <1>3. ASSUME NEW q \in Procs, NEW u \in Procs, mm'[q] # NULL, mm'[u] # NULL, q # u
        PROVE  mm'[q].pgdir # mm'[u].pgdir
    <2>1. CASE q # p /\ u # p
      BY <1>3, <2>1 DEF Others, Inv, Apart
    <2>2. CASE q = p
      <3>1. mm'[u] = mm[u] /\ u \in Procs \ {p}
        BY <1>3, <2>2 DEF Others
      <3> QED
        BY <1>3, <2>2, <3>1
    <2>3. CASE u = p
      <3>1. mm'[q] = mm[q] /\ q \in Procs \ {p}
        BY <1>3, <2>3 DEF Others
      <3> QED
        BY <1>3, <2>3, <3>1
    <2> QED
      BY <2>1, <2>2, <2>3
  <1>4. Apart'
    BY <1>3 DEF Apart
  <1> QED
    BY <1>1, <1>2, <1>4 DEF Inv

(* The pages that an operation of p touches. *)
LEMMA OwnAside ==
    ASSUME Inv, ~down, NEW p \in Procs, mm[p] # NULL, NEW W, W = Own(m, mm[p].pgdir)
    PROVE  Space(m, mm[p].pgdir, W) /\ Aside(p, W)
  <1>1. Forest(m) /\ Root(m, mm[p].pgdir)
    BY DEF Inv, SpaceOK
  <1>2. /\ Space(m, mm[p].pgdir, W)
        /\ \A e : Root(m, e) /\ e # mm[p].pgdir => Tree(m, e) \cap W = {}
    BY <1>1, OwnSpace
  <1>3. \A q \in Procs \ {p} : mm[q] # NULL => Root(m, mm[q].pgdir) /\ mm[q].pgdir # mm[p].pgdir
    BY DEF Inv, SpaceOK, Apart
  <1> QED
    BY <1>2, <1>3 DEF Aside

LEMMA FreshAside ==
    ASSUME Inv, ~down, NEW p
    PROVE  Aside(p, m.free)
  <1>1. \A q \in Procs : mm[q] # NULL => Forest(m) /\ Root(m, mm[q].pgdir)
    BY DEF Inv, SpaceOK
  <1> QED
    BY <1>1, TreeNotFree DEF Aside

(* setup_pgdir: the new directory is empty, and all that it can get comes from
   the free pages. *)
LEMMA FreshDir ==
    ASSUME NEW s, Forest(s), s.free # {}, NEW g, g = NextFree(s), NEW r, r = Take(s)
    PROVE  /\ Space(r, g, s.free) /\ Local(s, r, s.free) /\ r \in Memories /\ r.err = s.err
           /\ g \in s.free /\ g \in Pages /\ r.free \subseteq s.free
           /\ \A v \in VPages : Pte(r, g, v) = NULL
           /\ r.data = s.data /\ r.ent = s.ent
  <1>0. s \in Memories /\ s.free \subseteq Pages
    BY MemoryType DEF Forest
  <1>1. g \in s.free /\ g \in Pages
    BY <1>0, NextFreeFacts
  <1>2. /\ r \in Memories /\ r.ent = s.ent /\ r.ref = s.ref /\ r.data = s.data /\ r.err = s.err
        /\ r.free = s.free \ {g}
    BY <1>0 DEF Take, Memories
  <1>3. \A t, i, h : Points(r, t, i, h) <=> Points(s, t, i, h)
    BY <1>2 DEF Points
  <1>4. Forest(r)
    BY <1>2, <1>3 DEF Forest
  <1>5. Root(r, g)
    BY <1>1, <1>2, <1>3 DEF Root, Forest
  <1>6. \A t \in s.free, i \in Idx, h \in Pages : ~Points(r, t, i, h)
    BY <1>2, NoEntriesType DEF Forest, Points
  <1>7. Space(r, g, s.free)
    BY <1>0, <1>1, <1>2, <1>4, <1>5, <1>6 DEF Space, Closed
  <1>8. Local(s, r, s.free)
    BY <1>2, <1>3 DEF Local
  <1>9. ASSUME NEW v \in VPages PROVE Pte(r, g, v) = NULL
    <2>1. r.ent[g][PDX1(v)] = NULL
      BY <1>1, <1>2, IndexFacts, NoEntriesType DEF Forest
    <2> QED
      BY <2>1 DEF Pte, TableOf
  <1> QED
    BY <1>1, <1>2, <1>7, <1>8, <1>9

LEMMA InitInv == Init => Inv
  <1>1. SUFFICES ASSUME Init PROVE Inv
    OBVIOUS
  <1>2. /\ m.free = Pages /\ m.ref = [g \in Pages |-> 0] /\ m.ent = [g \in Pages |-> NoEntries]
        /\ m.data = [g \in Pages |-> 0] /\ m.err = "none"
        /\ m = [free |-> m.free, ref |-> m.ref, ent |-> m.ent, data |-> m.data, err |-> m.err]
    BY <1>1 DEF Init, EmptyMemory
  <1>3. m \in Memories
    <2>1. m.free \in SUBSET Pages /\ m.ref \in [Pages -> Int] /\ m.data \in [Pages -> Values]
      BY <1>2, VmAssumption
    <2>2. m.ent \in [Pages -> [Idx -> Entries \cup {NULL}]]
      BY <1>2, NoEntriesType
    <2> QED
      BY <1>2, <2>1, <2>2 DEF Memories
  <1>4. \A t \in Pages, i \in Idx, g \in Pages : ~Points(m, t, i, g)
    BY <1>2, NoEntriesType DEF Points
  <1>5. Forest(m)
    BY <1>2, <1>3, <1>4 DEF Forest
  <1>6. mm \in [Procs -> AddressSpaces \cup {NULL}] /\ \A p \in Procs : mm[p] = NULL
    BY <1>1 DEF Init
  <1>7. state \in [Procs -> {"none", "run", "load", "exec"}] /\ \A p \in Procs : state[p] \notin {"run", "load"}
    BY <1>1 DEF Init
  <1>8. todo \in [Procs -> Seq(Segments)]
    BY <1>1 DEF Init
  <1>9. Control
    BY <1>6, <1>7, <1>8 DEF Control
  <1> QED
    BY <1>1, <1>2, <1>5, <1>6, <1>9 DEF Inv, Apart, Init

---------------------------------------------------------------------------
(* The invariant: the steps of a process that keeps or loses its memory.   *)

(* Every page that p had mapped is mapped at the same place or free. *)
LeavesKept(p) ==
    mm[p] # NULL => \A v \in VPages : Pte(m, mm[p].pgdir, v) # NULL =>
        \/ Pte(m, mm[p].pgdir, v).pg \in m'.free
        \/ mm'[p] # NULL /\ Pte(m', mm'[p].pgdir, v) # NULL
                         /\ Pte(m', mm'[p].pgdir, v).pg = Pte(m, mm[p].pgdir, v).pg

(* What the invariant says of a process that has a memory. *)
LEMMA ProcFacts ==
    ASSUME Inv, ~down, NEW p \in Procs, mm[p] # NULL
    PROVE  /\ Control /\ Forest(m) /\ m \in Memories /\ m.err = "none"
           /\ mm[p] \in AddressSpaces /\ mm[p].pgdir \in Pages /\ mm[p].mmap_list \in Seq(Vmas)
           /\ SpaceOK(m, mm[p], state[p], todo[p])
           /\ ListOK(mm[p].mmap_list) /\ mm[p].mmap_list \in Lists
           /\ Within(m, mm[p].pgdir, mm[p].mmap_list)
  <1>1. /\ Control /\ Forest(m) /\ m \in Memories /\ m.err = "none" /\ mm[p] \in AddressSpaces
        /\ SpaceOK(m, mm[p], state[p], todo[p])
    BY DEF Inv, Control, Forest
  <1>2. mm[p].pgdir \in Pages /\ mm[p].mmap_list \in Seq(Vmas)
    BY <1>1 DEF AddressSpaces
  <1>3. ListOK(mm[p].mmap_list) /\ Within(m, mm[p].pgdir, mm[p].mmap_list)
    BY <1>1 DEF SpaceOK
  <1> QED
    BY <1>1, <1>2, <1>3 DEF ListOK, Lists

(* The memory s differs from m in tables of the address space x at most. *)
Spared(s, x) ==
    /\ Space(s, x.pgdir, Own(m, x.pgdir)) /\ Local(m, s, Own(m, x.pgdir)) /\ s.err = "none"
    /\ \A v \in VPages : Pte(s, x.pgdir, v) = Pte(m, x.pgdir, v)

LEMMA GoneFacts ==
    ASSUME Inv, ~down, NEW p \in Procs, mm[p] # NULL, NEW s, Spared(s, mm[p]),
           m' = Release(s, mm[p]), mm' = [mm EXCEPT ![p] = NULL],
           NEW st \in {"none", "exec"}, state' = [state EXCEPT ![p] = st],
           todo' \in [Procs -> Seq(Segments)], \A q \in Procs \ {p} : todo'[q] = todo[q],
           down' = (m'.err = "panic")
    PROVE  Inv' /\ Kept(p) /\ LeavesKept(p) /\ ~down'
  <1>0. /\ Control /\ mm[p] \in AddressSpaces
        /\ mm[p].mmap_list \in Lists /\ Within(m, mm[p].pgdir, mm[p].mmap_list)
    BY ProcFacts
  <1>1. PICK W : W = Own(m, mm[p].pgdir)
    OBVIOUS
  <1>2. Space(m, mm[p].pgdir, W) /\ Aside(p, W)
    BY <1>1, OwnAside
  <1>3. PICK d, l : d = mm[p].pgdir /\ l = mm[p].mmap_list
    OBVIOUS
  <1>4. Released(s, m', d, W, l)
    <2>1. Space(s, d, W)
      BY <1>1, <1>3 DEF Spared
    <2> QED
      BY <1>0, <1>3, <2>1, ReleaseFacts
  <1>5. Forest(m') /\ Local(s, m', W) /\ m'.free \subseteq W /\ m'.err = "none"
    BY <1>4 DEF Released, Spared
  <1>6. Local(m, m', W)
    BY <1>1, <1>5, LocalTrans DEF Spared
  <1>7. down' = FALSE
    BY <1>5
  <1>8. Others(p)
    BY <1>0 DEF Others, Control
  <1>9. Control'
    <2>1. mm' \in [Procs -> AddressSpaces \cup {NULL}] /\ mm'[p] = NULL
      BY <1>0 DEF Control
    <2>2. state' \in [Procs -> {"none", "run", "load", "exec"}] /\ state'[p] \notin {"run", "load"}
      BY <1>0 DEF Control
    <2>3. \A q \in Procs : mm'[q] # NULL <=> state'[q] \in {"run", "load"}
      BY <1>0, <1>8, <2>1, <2>2 DEF Control, Others
    <2> QED
      BY <2>1, <2>2, <2>3 DEF Control
  <1>10. mm'[p] = NULL
    BY <1>0 DEF Control
  <1>11. Inv' /\ Kept(p)
    BY <1>2, <1>5, <1>6, <1>7, <1>8, <1>9, <1>10, StepInv
  <1>12. ASSUME NEW v \in VPages, Pte(m, d, v) # NULL PROVE Pte(m, d, v).pg \in m'.free
    <2>1. \E j \in 1 .. Len(l) : Covers(l[j], v)
      BY <1>0, <1>3, <1>12 DEF Within
    <2>2. Pte(s, d, v) = Pte(m, d, v)
      BY <1>3 DEF Spared
    <2> QED
      BY <1>4, <1>12, <2>1, <2>2 DEF Released
  <1>13. LeavesKept(p)
    BY <1>3, <1>12 DEF LeavesKept
  <1> QED
    BY <1>7, <1>11, <1>13

(* The same for a process that gives back its memory as it is. *)
LEMMA ReleaseStep ==
    ASSUME Inv, ~down, NEW p \in Procs, mm[p] # NULL, m' = Release(m, mm[p]), mm' = [mm EXCEPT ![p] = NULL],
           NEW st \in {"none", "exec"}, state' = [state EXCEPT ![p] = st],
           todo' \in [Procs -> Seq(Segments)], \A q \in Procs \ {p} : todo'[q] = todo[q],
           down' = (m'.err = "panic")
    PROVE  Inv' /\ Kept(p) /\ LeavesKept(p) /\ ~down'
  <1>1. Space(m, mm[p].pgdir, Own(m, mm[p].pgdir))
    BY OwnAside
  <1>2. m.err = "none"
    BY DEF Inv
  <1>3. Spared(m, mm[p])
    BY <1>1, <1>2, LocalSelf DEF Spared
  <1> QED
    BY <1>3, GoneFacts

LEMMA DoExitStep ==
    ASSUME Inv, NEW p \in Procs, do_exit(p)
    PROVE  Inv' /\ Kept(p) /\ LeavesKept(p)
  <1>1. /\ ~down /\ state[p] = "run" /\ m' = Release(m, mm[p]) /\ mm' = [mm EXCEPT ![p] = NULL]
        /\ state' = [state EXCEPT ![p] = "none"] /\ todo' = [todo EXCEPT ![p] = << >>]
        /\ down' = (m'.err = "panic")
    BY DEF do_exit, Runs, Ends
  <1>2. Control
    BY <1>1 DEF Inv
  <1>3. mm[p] # NULL
    BY <1>1, <1>2 DEF Control
  <1>4. todo' \in [Procs -> Seq(Segments)] /\ \A q \in Procs \ {p} : todo'[q] = todo[q]
    BY <1>1, <1>2 DEF Control
  <1> QED
    BY <1>1, <1>3, <1>4, ReleaseStep

LEMMA DoExecveStep ==
    ASSUME Inv, NEW p \in Procs, do_execve(p)
    PROVE  Inv' /\ Kept(p) /\ LeavesKept(p)
  <1>1. /\ ~down /\ state[p] = "run" /\ m' = Release(m, mm[p]) /\ mm' = [mm EXCEPT ![p] = NULL]
        /\ state' = [state EXCEPT ![p] = "exec"] /\ todo' = todo
        /\ down' = (m'.err = "panic")
    BY DEF do_execve, Runs
  <1>2. Control
    BY <1>1 DEF Inv
  <1>3. mm[p] # NULL
    BY <1>1, <1>2 DEF Control
  <1>4. todo' \in [Procs -> Seq(Segments)] /\ \A q \in Procs \ {p} : todo'[q] = todo[q]
    BY <1>1, <1>2 DEF Control
  <1> QED
    BY <1>1, <1>3, <1>4, ReleaseStep

LEMMA LoadFailsStep ==
    ASSUME Inv, NEW p \in Procs, load_fails(p)
    PROVE  Inv' /\ Kept(p) /\ LeavesKept(p)
  <1>1. /\ ~down /\ state[p] = "load" /\ m' = Release(m, mm[p]) /\ mm' = [mm EXCEPT ![p] = NULL]
        /\ state' = [state EXCEPT ![p] = "none"] /\ todo' = [todo EXCEPT ![p] = << >>]
        /\ down' = (m'.err = "panic")
    BY DEF load_fails, Ends
  <1>2. Control
    BY <1>1 DEF Inv
  <1>3. mm[p] # NULL
    BY <1>1, <1>2 DEF Control
  <1>4. todo' \in [Procs -> Seq(Segments)] /\ \A q \in Procs \ {p} : todo'[q] = todo[q]
    BY <1>1, <1>2 DEF Control
  <1> QED
    BY <1>1, <1>3, <1>4, ReleaseStep

LEMMA NoPgdirStep ==
    ASSUME Inv, NEW p \in Procs, load_icode_no_pgdir(p)
    PROVE  Inv' /\ Kept(p) /\ LeavesKept(p)
  <1>1. /\ ~down /\ state[p] = "exec" /\ m' = m /\ mm' = [mm EXCEPT ![p] = NULL]
        /\ state' = [state EXCEPT ![p] = "none"] /\ todo' = [todo EXCEPT ![p] = << >>]
        /\ down' = (m.err = "panic")
    BY DEF load_icode_no_pgdir, Ends
  <1>2. Control /\ Forest(m) /\ m.err = "none"
    BY <1>1 DEF Inv
  <1>3. mm[p] = NULL /\ down' = FALSE
    BY <1>1, <1>2 DEF Control
  <1>4. Others(p)
    BY <1>1, <1>2 DEF Others, Control
  <1>5. Control'
    <2>1. mm' \in [Procs -> AddressSpaces \cup {NULL}] /\ mm'[p] = NULL
      BY <1>1, <1>2 DEF Control
    <2>2. state' \in [Procs -> {"none", "run", "load", "exec"}] /\ state'[p] \notin {"run", "load"}
      BY <1>1, <1>2 DEF Control
    <2>3. todo' \in [Procs -> Seq(Segments)]
      BY <1>1, <1>2 DEF Control
    <2>4. \A q \in Procs : mm'[q] # NULL <=> state'[q] \in {"run", "load"}
      BY <1>2, <1>4, <2>1, <2>2 DEF Control, Others
    <2> QED
      BY <2>1, <2>2, <2>3, <2>4 DEF Control
  <1>6. Aside(p, m.free) /\ Local(m, m', m.free) /\ Forest(m') /\ m'.err = "none" /\ m'.free \subseteq m.free
    BY <1>1, <1>2, FreshAside, LocalSelf
  <1>7. mm'[p] = NULL
    BY <1>1, <1>2 DEF Control
  <1>8. Inv' /\ Kept(p)
    BY <1>1, <1>3, <1>4, <1>5, <1>6, <1>7, StepInv
  <1> QED
    BY <1>3, <1>8 DEF LeavesKept

(* The segments of a program. *)
LEMMA ProgramFacts ==
    ASSUME NEW prog \in Programs
    PROVE  prog \in Seq(Segments)
  <1>1. prog \in Seq(Vmas) /\ \A i \in 1 .. Len(prog) : prog[i].start < prog[i].end /\ prog[i].flags # "STACK"
    BY VmAssumption
  <1>2. Len(prog) \in Nat /\ prog = [i \in 1 .. Len(prog) |-> prog[i]]
    BY <1>1, LenProperties
  <1>3. \A i \in 1 .. Len(prog) : prog[i] \in Segments
    BY <1>1 DEF Segments
  <1> QED
    BY <1>2, <1>3

LEMMA LoadIcodeStep ==
    ASSUME Inv, NEW p \in Procs, NEW prog \in Programs, load_icode(p, prog)
    PROVE  Inv' /\ Kept(p) /\ LeavesKept(p)
  <1>1. PICK g : g = NextFree(m)
    OBVIOUS
  <1>2. PICK x : x = [pgdir |-> g, mmap_list |-> << >>]
    OBVIOUS
  <1>3. /\ ~down /\ down' = down /\ state[p] = "exec" /\ m.free # {} /\ m' = Take(m)
        /\ mm' = [mm EXCEPT ![p] = x]
        /\ state' = [state EXCEPT ![p] = "load"] /\ todo' = [todo EXCEPT ![p] = prog]
    BY <1>1, <1>2 DEF load_icode
  <1>4. Control /\ Forest(m) /\ m.err = "none"
    BY <1>3 DEF Inv
  <1>5. /\ Space(m', g, m.free) /\ Local(m, m', m.free) /\ m'.err = "none"
        /\ g \in m.free /\ g \in Pages /\ m'.free \subseteq m.free
        /\ \A v \in VPages : Pte(m', g, v) = NULL
    BY <1>1, <1>3, <1>4, FreshDir
  <1>6. << >> \in Seq(Vmas) /\ Len(<< >>) = 0
    OBVIOUS
  <1>7. x \in AddressSpaces /\ x.pgdir = g /\ x.mmap_list = << >>
    BY <1>2, <1>5, <1>6 DEF AddressSpaces
  <1>8. x # NULL
    BY <1>7, VmAssumption
  <1>9. mm[p] = NULL /\ mm'[p] = x /\ state'[p] = "load" /\ todo'[p] = prog
    BY <1>3, <1>4 DEF Control
  <1>10. Others(p)
    BY <1>3, <1>4 DEF Others, Control
  <1>11. Control'
    <2>1. mm' \in [Procs -> AddressSpaces \cup {NULL}]
      BY <1>3, <1>4, <1>7 DEF Control
    <2>2. state' \in [Procs -> {"none", "run", "load", "exec"}]
      BY <1>3, <1>4 DEF Control
    <2>3. todo' \in [Procs -> Seq(Segments)]
      BY <1>3, <1>4, ProgramFacts DEF Control
    <2>4. \A q \in Procs : mm'[q] # NULL <=> state'[q] \in {"run", "load"}
      BY <1>4, <1>8, <1>9, <1>10 DEF Control, Others
    <2> QED
      BY <2>1, <2>2, <2>3, <2>4 DEF Control
  <1>12. SpaceOK(m', x, "load", prog)
    BY <1>5, <1>6, <1>7 DEF SpaceOK, ListOK, Within, Space
  <1>13. \A q \in Procs \ {p} : mm[q] # NULL => mm[q].pgdir # g
    BY <1>3, <1>5 DEF Inv, SpaceOK, Root
  <1>14. Aside(p, m.free) /\ Forest(m')
    BY <1>3, <1>5, FreshAside DEF Space
  <1>15. down' \in BOOLEAN
    BY <1>3 DEF Inv
  <1>16. SpaceOK(m', mm'[p], state'[p], todo'[p])
    BY <1>9, <1>12
  <1>17. \A q \in Procs \ {p} : mm[q] # NULL => mm[q].pgdir # mm'[p].pgdir
    BY <1>7, <1>9, <1>13
  <1>18. Inv' /\ Kept(p)
    BY <1>3, <1>5, <1>10, <1>11, <1>14, <1>15, <1>16, <1>17, StepInv
  <1> QED
    BY <1>9, <1>18 DEF LeavesKept

---------------------------------------------------------------------------
(* The invariant: load_icode maps segments and pages.                      *)

(* The vmas of a list stay in the longer list, which maps no less. *)
LEMMA InsertedOld ==
    ASSUME NEW l \in Seq(Vmas), NEW a \in Vmas, NEW p \in 1 .. Len(l) + 1, NEW k, Inserted(k, l, p, a),
           NEW j \in 1 .. Len(l)
    PROVE  \E i \in 1 .. Len(k) : k[i] = l[j] /\ i # p
  <1>0. Len(l) \in Nat /\ Len(k) = Len(l) + 1
    BY DEF Inserted
  <1>1. CASE j < p
    <2>1. j \in 1 .. p - 1 /\ j \in 1 .. Len(k) /\ j # p
      BY <1>0, <1>1
    <2> QED
      BY <2>1 DEF Inserted
  <1>2. CASE p <= j
    <2>1. j \in p .. Len(l) /\ j + 1 \in 1 .. Len(k) /\ j + 1 # p
      BY <1>0, <1>2
    <2>2. k[j + 1] = l[j]
      BY <2>1 DEF Inserted
    <2> QED
      BY <2>1, <2>2
  <1> QED
    BY <1>1, <1>2

LEMMA InsertedWithin ==
    ASSUME NEW l \in Seq(Vmas), NEW a \in Vmas, NEW p \in 1 .. Len(l) + 1, NEW k, Inserted(k, l, p, a),
           NEW s, NEW d, Within(s, d, l)
    PROVE  Within(s, d, k)
  <1>1. ASSUME NEW v \in VPages, Pte(s, d, v) # NULL
        PROVE  \E i \in 1 .. Len(k) : Covers(k[i], v) /\ (Pte(s, d, v).w <=> k[i].flags # "R")
    <2>1. PICK j \in 1 .. Len(l) : Covers(l[j], v) /\ (Pte(s, d, v).w <=> l[j].flags # "R")
      BY <1>1 DEF Within
    <2>2. PICK i \in 1 .. Len(k) : k[i] = l[j]
      BY InsertedOld
    <2> QED
      BY <2>1, <2>2
  <1> QED
    BY <1>1 DEF Within

(* Nothing is mapped in a vma that is new to the list. *)
LEMMA InsertedUnmapped ==
    ASSUME NEW l \in Seq(Vmas), NEW a \in Vmas, NEW p \in 1 .. Len(l) + 1, NEW k, Inserted(k, l, p, a),
           ListOK(k), NEW s, NEW d, Within(s, d, l), NEW v \in VPages, Covers(a, v)
    PROVE  Pte(s, d, v) = NULL
  <1>1. SUFFICES ASSUME Pte(s, d, v) # NULL PROVE FALSE
    OBVIOUS
  <1>2. PICK j \in 1 .. Len(l) : Covers(l[j], v)
    BY <1>1 DEF Within
  <1>3. PICK i \in 1 .. Len(k) : k[i] = l[j] /\ i # p
    BY InsertedOld
  <1>4. p \in 1 .. Len(k) /\ k[p] = a /\ Len(k) \in Nat
    BY DEF Inserted
  <1>5. /\ v \in Nat
        /\ k[i].start \in Nat /\ k[i].end \in Nat /\ k[p].start \in Nat /\ k[p].end \in Nat
    <2>1. k \in Lists
      BY DEF ListOK, Lists
    <2> QED
      BY <1>4, <2>1, VmaFacts, FanFacts DEF VPages
  <1>6. k[i].end <= k[p].start \/ k[p].end <= k[i].start
    BY <1>3, <1>4 DEF ListOK
  <1> QED
    BY <1>2, <1>3, <1>4, <1>5, <1>6, SMTT(30) DEF Covers

(* A process that loads is not down and has a segment. *)
LEMMA LoadingFacts ==
    ASSUME Inv, NEW p \in Procs, Loading(p)
    PROVE  /\ ~down /\ state[p] = "load" /\ todo[p] # << >> /\ mm[p] # NULL /\ Control
           /\ Segment(p) = Head(todo[p]) /\ Segment(p) \in Segments /\ Segment(p) \in Vmas
           /\ Segment(p).start < Segment(p).end /\ Segment(p).flags # "STACK"
  <1>1. ~down /\ state[p] = "load" /\ todo[p] # << >> /\ Control
    BY DEF Loading, Inv
  <1>2. mm[p] # NULL /\ todo[p] \in Seq(Segments)
    BY <1>1 DEF Control
  <1>3. Head(todo[p]) \in Segments
    BY <1>1, <1>2, HeadTailProperties
  <1> QED
    BY <1>1, <1>2, <1>3 DEF Segment, Segments

LEMMA LoadMapStep ==
    ASSUME Inv, NEW p \in Procs, load_map(p)
    PROVE  Inv' /\ Kept(p) /\ LeavesKept(p)
  <1>1. PICK a : a = Segment(p)
    OBVIOUS
  <1>2. /\ ~down /\ state[p] = "load" /\ todo[p] # << >> /\ mm[p] # NULL /\ Control
        /\ a = Head(todo[p]) /\ a \in Segments /\ a \in Vmas /\ a.start < a.end
    BY <1>1, LoadingFacts DEF load_map
  <1>3. PICK y : y = insert_vma_struct(mm[p], a)
    OBVIOUS
  <1>4. /\ ~Contains(mm[p].mmap_list, a) /\ mm' = [mm EXCEPT ![p] = y] /\ down' = Overlaps(mm'[p].mmap_list)
        /\ m' = m /\ todo' = todo /\ state' = state
    BY <1>1, <1>3 DEF load_map, MapSegment
  <1>5. /\ Forest(m) /\ m.err = "none" /\ mm[p] \in AddressSpaces /\ m \in Memories
        /\ SpaceOK(m, mm[p], state[p], todo[p])
        /\ ListOK(mm[p].mmap_list) /\ Within(m, mm[p].pgdir, mm[p].mmap_list)
    BY <1>2, ProcFacts
  <1>6. mm'[p] = y
    BY <1>2, <1>4 DEF Control
  <1>7. PICK l \in Seq(Vmas), d \in Pages : l = mm[p].mmap_list /\ d = mm[p].pgdir
    BY <1>5 DEF AddressSpaces
  <1>8. /\ y \in AddressSpaces /\ y.pgdir = d
        /\ \E i \in 1 .. Len(l) + 1 : i = insert_pos(l, a) /\ Inserted(y.mmap_list, l, i, a)
    BY <1>2, <1>3, <1>5, <1>7, InsertFacts
  <1>9. PICK i \in 1 .. Len(l) + 1 : Inserted(y.mmap_list, l, i, a)
    BY <1>8
  <1>10. PICK k : k = y.mmap_list
    OBVIOUS
  <1>11. Others(p)
    BY <1>2, <1>4 DEF Others, Control
  <1>12. PICK W : W = Own(m, mm[p].pgdir)
    OBVIOUS
  <1>13. Space(m, mm[p].pgdir, W) /\ Aside(p, W)
    BY <1>2, <1>12, OwnAside
  <1>14. Local(m, m', W) /\ m'.free \subseteq W /\ Forest(m') /\ m' \in Memories /\ m'.err = "none"
    BY <1>4, <1>5, <1>13, LocalSelf DEF Space
  <1>15. Kept(p)
    BY <1>2, <1>11, <1>13, <1>14, StepFrame
  <1>16. y # NULL
    BY <1>8, VmAssumption
  <1>17. down' \in BOOLEAN
    BY <1>4 DEF Overlaps
  <1>18. Inv'
    <2>1. CASE down'
      BY <1>17, <2>1 DEF Inv
    <2>2. CASE ~down'
      <3>1. ~Overlaps(k)
        BY <1>4, <1>6, <1>10, <2>2
      <3>2. ListOK(k)
        BY <1>2, <1>5, <1>7, <1>9, <1>10, <3>1, InsertedOK
      <3>3. Within(m, d, k)
        BY <1>2, <1>5, <1>7, <1>9, <1>10, InsertedWithin
      <3>4. \A v \in VPages : Covers(a, v) => Pte(m, d, v) = NULL
        BY <1>2, <1>5, <1>7, <1>9, <1>10, <3>2, InsertedUnmapped
      <3>5. Partly(m, d, a)
        <4>1. k \in Lists /\ i \in 1 .. Len(k) /\ k[i] = a
          BY <1>9, <1>10, <3>2 DEF Inserted, ListOK, Lists
        <4>2. /\ a.start \in Nat /\ a.end \in Nat
              /\ \A v \in a.start .. a.end - 1 : v \in VPages /\ Covers(a, v)
          BY <4>1, VmaFacts
        <4>3. a.start \in a.start .. a.end - 1
          BY <1>2, <4>2
        <4>4. \A v \in a.start .. a.end - 1 : Pte(m, d, v) # NULL <=> v < a.start
          BY <3>4, <4>2
        <4> QED
          BY <4>3, <4>4 DEF Partly
      <3>6. ASSUME NEW j \in 1 .. Len(k)
            PROVE  \/ Full(m, d, k[j])
                   \/ k[j] = a
        <4>1. k[j] = a \/ \E n \in 1 .. Len(l) : k[j] = l[n]
          <5>1. \/ k[j] = a
                \/ j \in 1 .. Len(l) /\ k[j] = l[j]
                \/ j - 1 \in 1 .. Len(l) /\ k[j] = l[j - 1]
            BY <1>2, <1>9, <1>10, InsertedFrom
          <5> QED
            BY <5>1
        <4>2. \A n \in 1 .. Len(l) : Full(m, d, l[n])
          BY <1>2, <1>4, <1>5, <1>7 DEF SpaceOK, Contains
        <4> QED
          BY <4>1, <4>2
      <3>7. SpaceOK(m, y, "load", todo[p])
        <4>1. Root(m, d)
          BY <1>5, <1>7 DEF SpaceOK
        <4> QED
          BY <1>2, <1>8, <1>10, <3>2, <3>3, <3>5, <3>6, <4>1 DEF SpaceOK
      <3>8. Control'
        <4>1. mm' \in [Procs -> AddressSpaces \cup {NULL}]
          BY <1>2, <1>4, <1>8 DEF Control
        <4>2. \A q \in Procs : mm'[q] # NULL <=> mm[q] # NULL
          BY <1>2, <1>6, <1>11, <1>16 DEF Others
        <4> QED
          BY <1>2, <1>4, <4>1, <4>2 DEF Control
      <3>9. SpaceOK(m', mm'[p], state'[p], todo'[p])
        BY <1>2, <1>4, <1>6, <3>7
      <3>10. \A q \in Procs \ {p} : mm[q] # NULL => mm[q].pgdir # mm'[p].pgdir
        BY <1>2, <1>6, <1>7, <1>8 DEF Inv, Apart
      <3> QED
        BY <1>2, <1>11, <1>13, <1>14, <1>17, <3>8, <3>9, <3>10, StepInv
    <2> QED
      BY <1>17, <2>1, <2>2
  <1>19. LeavesKept(p)
    BY <1>4, <1>6, <1>7, <1>8, <1>16 DEF LeavesKept
  <1> QED
    BY <1>15, <1>18, <1>19

---------------------------------------------------------------------------
(* The invariant: load_icode allocates the pages of a segment.             *)

(* What Loaded counts: load_page goes on with the first page that is missing. *)
LEMMA LoadedFacts ==
    ASSUME Inv, NEW p \in Procs, Loading(p), NEW a, a = Segment(p), NEW l, l = mm[p].mmap_list,
           Contains(l, a), NEW v, v = a.start + Cardinality(Loaded(p)), v < a.end
    PROVE  /\ v \in VPages /\ v \in a.start .. a.end - 1
           /\ \A u \in a.start .. a.end - 1 : Pte(m, mm[p].pgdir, u) # NULL <=> u < v
  <1>1. PICK d : d = mm[p].pgdir
    OBVIOUS
  <1>2. /\ ~down /\ state[p] = "load" /\ todo[p] # << >> /\ mm[p] # NULL
        /\ a = Head(todo[p])
    BY LoadingFacts
  <1>3. SpaceOK(m, mm[p], state[p], todo[p]) /\ l \in Lists
    BY <1>2, ProcFacts
  <1>4. PICK i \in 1 .. Len(l) : l[i] = a
    BY DEF Contains
  <1>5. /\ a.start \in Nat /\ a.end \in Nat /\ a.start < a.end
        /\ \A u \in a.start .. a.end - 1 : u \in VPages
    BY <1>3, <1>4, VmaFacts
  <1>6. Full(m, d, a) \/ Partly(m, d, a)
    BY <1>1, <1>2, <1>3, <1>4 DEF SpaceOK
  <1>7. Loaded(p) = {u \in a.start .. a.end - 1 : Pte(m, d, u) # NULL}
    BY <1>1 DEF Loaded
  <1>8. ASSUME Full(m, d, a) PROVE FALSE
    <2>1. Loaded(p) = a.start .. a.end - 1
      BY <1>7, <1>8 DEF Full
    <2>2. a.start \in Int /\ a.end - 1 \in Int /\ ~(a.start > a.end - 1)
      BY <1>5
    <2>3. Cardinality(a.start .. a.end - 1) = (a.end - 1) - a.start + 1
      BY <2>2, FS_Interval
    <2> QED
      BY <1>5, <2>1, <2>3
  <1>9. PICK n \in a.start .. a.end - 1 : \A u \in a.start .. a.end - 1 : Pte(m, d, u) # NULL <=> u < n
    BY <1>6, <1>8 DEF Partly
  <1>10. v = n
    <2>1. Loaded(p) = a.start .. n - 1
      BY <1>5, <1>7, <1>9
    <2>2. a.start \in Int /\ n - 1 \in Int
      BY <1>5
    <2>3. Cardinality(a.start .. n - 1) = n - a.start
      <3>1. CASE a.start > n - 1
        <4>1. Cardinality(a.start .. n - 1) = 0
          BY <2>2, <3>1, FS_Interval
        <4> QED
          BY <1>5, <3>1, <4>1
      <3>2. CASE ~(a.start > n - 1)
        <4>1. Cardinality(a.start .. n - 1) = (n - 1) - a.start + 1
          BY <2>2, <3>2, FS_Interval
        <4> QED
          BY <1>5, <4>1
      <3> QED
        BY <3>1, <3>2
    <2> QED
      BY <1>5, <2>1, <2>3
  <1> QED
    BY <1>1, <1>5, <1>9, <1>10

(* One more page of a segment is mapped. *)
More(s, r, d, l, v) ==
    /\ \A u \in VPages : Pte(r, d, u) # NULL <=> Pte(s, d, u) # NULL \/ u = v
    /\ Within(s, d, l) => Within(r, d, l)
    /\ \A j \in 1 .. Len(l) : Full(s, d, l[j]) => Full(r, d, l[j])

LEMMA MoreMapped ==
    ASSUME NEW s, NEW r, NEW d, NEW l \in Lists, NEW i \in 1 .. Len(l), NEW w \in BOOLEAN,
           NEW v \in VPages, v \in l[i].start .. l[i].end - 1, w = (l[i].flags # "R"),
           Mapped(s, r, d, v, w), Pte(s, d, v) = NULL
    PROVE  More(s, r, d, l, v)
  <1>1. \A u \in VPages : Pte(r, d, u) # NULL <=> Pte(s, d, u) # NULL \/ u = v
    BY DEF Mapped, SameAt
  <1>2. ASSUME Within(s, d, l) PROVE Within(r, d, l)
    <2>1. SUFFICES ASSUME NEW u \in VPages, Pte(r, d, u) # NULL
                   PROVE  \E j \in 1 .. Len(l) : Covers(l[j], u) /\ (Pte(r, d, u).w <=> l[j].flags # "R")
      BY DEF Within
    <2>2. CASE u = v
      <3>1. Covers(l[i], u)
        BY <2>2, VmaFacts
      <3>2. Pte(r, d, u).w = w
        BY <2>2 DEF Mapped
      <3> QED
        BY <3>1, <3>2
    <2>3. CASE u # v
      <3>1. Pte(r, d, u) = Pte(s, d, u)
        BY <2>3 DEF Mapped, SameAt
      <3> QED
        BY <1>2, <2>1, <3>1 DEF Within
    <2> QED
      BY <2>2, <2>3
  <1>3. ASSUME NEW j \in 1 .. Len(l), Full(s, d, l[j]) PROVE Full(r, d, l[j])
    <2>1. \A u \in l[j].start .. l[j].end - 1 : u \in VPages
      BY VmaFacts
    <2> QED
      BY <1>1, <1>3, <2>1 DEF Full
  <1> QED
    BY <1>1, <1>2, <1>3 DEF More

LEMMA LoadPageStep ==
    ASSUME Inv, NEW p \in Procs, load_page(p)
    PROVE  Inv' /\ Kept(p) /\ LeavesKept(p)
  <1>1. PICK a : a = Segment(p)
    OBVIOUS
  <1>2. /\ ~down /\ state[p] = "load" /\ todo[p] # << >> /\ mm[p] # NULL /\ Control
        /\ a = Head(todo[p]) /\ a \in Vmas /\ a.start < a.end /\ a.flags # "STACK" /\ Loading(p)
    BY <1>1, LoadingFacts DEF load_page
  <1>3. /\ Forest(m) /\ m.err = "none" /\ mm[p] \in AddressSpaces /\ m \in Memories
        /\ SpaceOK(m, mm[p], state[p], todo[p]) /\ mm[p].mmap_list \in Lists
        /\ Within(m, mm[p].pgdir, mm[p].mmap_list)
    BY <1>2, ProcFacts
  <1>4. PICK l \in Lists, d \in Pages : l = mm[p].mmap_list /\ d = mm[p].pgdir
    BY <1>3 DEF AddressSpaces
  <1>5. PICK v : v = a.start + Cardinality(Loaded(p))
    OBVIOUS
  <1>6. PICK w \in BOOLEAN : w = (a.flags = "RW")
    OBVIOUS
  <1>7. PICK m1 : m1 = pgdir_alloc_page(m, d, v, w)
    OBVIOUS
  <1>8. Contains(l, a) /\ v < a.end
    BY <1>1, <1>4, <1>5 DEF load_page
  <1>9. IF m1.err = "none"
        THEN /\ m' = m1
             /\ todo' = [todo EXCEPT ![p] = IF v + 1 = a.end THEN Tail(@) ELSE @]
             /\ UNCHANGED <<mm, state, down>>
        ELSE Ends(p, Release([m1 EXCEPT !.err = "none"], mm[p]))
    BY <1>1, <1>4, <1>5, <1>6, <1>7 DEF load_page
  <1>10. /\ v \in VPages /\ v \in a.start .. a.end - 1
         /\ \A u \in a.start .. a.end - 1 : Pte(m, d, u) # NULL <=> u < v
    <2>1. Contains(mm[p].mmap_list, a) /\ Loading(p)
      BY <1>2, <1>4, <1>8
    <2>2. /\ v \in VPages /\ v \in a.start .. a.end - 1
          /\ \A u \in a.start .. a.end - 1 : Pte(m, mm[p].pgdir, u) # NULL <=> u < v
      BY <1>1, <1>5, <1>8, <2>1, LoadedFacts
    <2> QED
      BY <1>4, <2>2
  <1>11. Pte(m, d, v) = NULL
    BY <1>10
  <1>12. PICK W : W = Own(m, d)
    OBVIOUS
  <1>13. Space(m, d, W) /\ Aside(p, W)
    BY <1>2, <1>4, <1>12, OwnAside
  <1>14. /\ Space(m1, d, W) /\ Local(m, m1, W)
         /\ \/ m1.err = "none" /\ Mapped(m, m1, d, v, w)
            \/ m1.err = "E_NO_MEM" /\ \A u \in VPages : Pte(m1, d, u) = Pte(m, d, u)
    BY <1>3, <1>7, <1>10, <1>11, <1>13, AllocPageFacts
  <1>15. CASE m1.err = "none"
    <2>1. Mapped(m, m1, d, v, w) /\ m' = m1 /\ UNCHANGED <<mm, state, down>>
      BY <1>9, <1>14, <1>15
    <2>2. todo' = [todo EXCEPT ![p] = IF v + 1 = a.end THEN Tail(todo[p]) ELSE todo[p]]
      BY <1>9, <1>15
    <2>3. PICK i \in 1 .. Len(l) : l[i] = a
      BY <1>8 DEF Contains
    <2>4. w = (l[i].flags # "R")
      BY <1>2, <1>6, <2>3 DEF Vmas
    <2>5. /\ \A u \in VPages : Pte(m1, d, u) # NULL <=> Pte(m, d, u) # NULL \/ u = v
          /\ Within(m1, d, l)
          /\ \A j \in 1 .. Len(l) : Full(m, d, l[j]) => Full(m1, d, l[j])
      <3>1. v \in l[i].start .. l[i].end - 1 /\ Within(m, d, l)
        BY <1>3, <1>4, <1>10, <2>3
      <3>2. w \in BOOLEAN /\ v \in VPages /\ Mapped(m, m1, d, v, w) /\ Pte(m, d, v) = NULL
        BY <1>10, <1>11, <2>1
      <3>3. More(m, m1, d, l, v)
        BY <2>4, <3>1, <3>2, MoreMapped
      <3> QED
        BY <3>1, <3>3 DEF More
    <2>6. /\ a.start \in Nat /\ a.end \in Nat /\ v \in Nat
          /\ \A u \in a.start .. a.end - 1 : u \in VPages
      BY <1>10, <2>3, VmaFacts
    <2>7. \A u \in a.start .. a.end - 1 : Pte(m1, d, u) # NULL <=> u < v + 1
      BY <1>10, <2>5, <2>6
    <2>8. todo'[p] = IF v + 1 = a.end THEN Tail(todo[p]) ELSE todo[p]
      BY <1>2, <2>2 DEF Control
    <2>9. IF v + 1 = a.end THEN Full(m1, d, a) ELSE Partly(m1, d, a) /\ todo'[p] # << >> /\ Head(todo'[p]) = a
      <3>1. CASE v + 1 = a.end
        BY <2>6, <2>7, <3>1 DEF Full
      <3>2. CASE v + 1 # a.end
        <4>1. v + 1 \in a.start .. a.end - 1
          BY <1>10, <2>6, <3>2
        <4> QED
          BY <1>2, <2>7, <2>8, <3>2, <4>1 DEF Partly
      <3> QED
        BY <3>1, <3>2
    <2>10. \A j \in 1 .. Len(l) : \/ Full(m1, d, l[j])
                                  \/ todo'[p] # << >> /\ l[j] = Head(todo'[p]) /\ Partly(m1, d, Head(todo'[p]))
      <3>1. \A j \in 1 .. Len(l) : Full(m, d, l[j]) \/ l[j] = a
        BY <1>2, <1>3, <1>4 DEF SpaceOK
      <3> QED
        BY <2>5, <2>9, <3>1
    <2>11. SpaceOK(m1, mm[p], "load", todo'[p])
      <3>1. Root(m1, d) /\ ListOK(l)
        BY <1>3, <1>4, <1>14 DEF SpaceOK, Space
      <3> QED
        BY <1>4, <2>5, <2>10, <3>1 DEF SpaceOK
    <2>12. Others(p)
      BY <1>2, <2>1, <2>2 DEF Others, Control
    <2>13. Control'
      <3>1. Tail(todo[p]) \in Seq(Segments)
        BY <1>2, HeadTailProperties DEF Control
      <3>2. todo' \in [Procs -> Seq(Segments)]
        BY <1>2, <2>2, <3>1 DEF Control
      <3> QED
        BY <1>2, <2>1, <3>2 DEF Control
    <2>14. SpaceOK(m', mm'[p], state'[p], todo'[p])
      BY <1>2, <2>1, <2>11
    <2>15. Forest(m') /\ m'.err = "none" /\ m'.free \subseteq W /\ Local(m, m', W) /\ down' \in BOOLEAN
      BY <1>14, <1>15, <2>1 DEF Space, Inv
    <2>16. \A q \in Procs \ {p} : mm[q] # NULL => mm[q].pgdir # mm'[p].pgdir
      BY <1>2, <2>1 DEF Inv, Apart
    <2>17. Inv' /\ Kept(p)
      BY <1>2, <1>13, <2>12, <2>13, <2>14, <2>15, <2>16, StepInv
    <2>18. LeavesKept(p)
      <3>1. ASSUME NEW u \in VPages, Pte(m, d, u) # NULL PROVE Pte(m1, d, u) = Pte(m, d, u)
        BY <1>11, <2>1, <3>1 DEF Mapped, SameAt
      <3> QED
        BY <1>2, <1>4, <2>1, <3>1 DEF LeavesKept
    <2> QED
      BY <2>17, <2>18
  <1>16. CASE m1.err = "E_NO_MEM"
    <2>1. PICK s : s = [m1 EXCEPT !.err = "none"]
      OBVIOUS
    <2>2. m1 \in Memories /\ m1.err # "none"
      BY <1>14, <1>16 DEF Space, Forest
    <2>3. Ends(p, Release(s, mm[p]))
      BY <1>9, <2>1, <2>2
    <2>4. s \in Memories /\ s.ent = m1.ent /\ s.ref = m1.ref /\ s.free = m1.free /\ s.data = m1.data /\ s.err = "none"
      BY <2>1, <2>2, SetErr
    <2>5. Space(s, d, W) /\ Local(m1, s, W) /\ \A u \in VPages : Pte(s, d, u) = Pte(m1, d, u)
      BY <1>14, <2>4, Retouch
    <2>6. Local(m, s, W) /\ \A u \in VPages : Pte(s, d, u) = Pte(m, d, u)
      BY <1>14, <1>16, <2>5, LocalTrans
    <2>7. /\ m' = Release(s, mm[p]) /\ mm' = [mm EXCEPT ![p] = NULL]
          /\ todo' = [todo EXCEPT ![p] = << >>] /\ state' = [state EXCEPT ![p] = "none"]
          /\ down' = (m'.err = "panic")
      BY <2>3 DEF Ends
    <2>8. todo' \in [Procs -> Seq(Segments)] /\ \A q \in Procs \ {p} : todo'[q] = todo[q]
      <3>1. << >> \in Seq(Segments)
        OBVIOUS
      <3> QED
        BY <1>2, <2>7, <3>1 DEF Control
    <2>9. Spared(s, mm[p])
      BY <1>4, <1>12, <2>4, <2>5, <2>6 DEF Spared
    <2>10. PICK st \in {"none", "exec"} : st = "none"
      OBVIOUS
    <2>11. ~down /\ mm[p] # NULL /\ state' = [state EXCEPT ![p] = st]
      BY <1>2, <2>7, <2>10
    <2>12. m' = Release(s, mm[p]) /\ mm' = [mm EXCEPT ![p] = NULL] /\ down' = (m'.err = "panic")
      BY <2>7
    <2> QED
      BY <2>8, <2>9, <2>11, <2>12, GoneFacts
  <1> QED
    BY <1>14, <1>15, <1>16

---------------------------------------------------------------------------
(* The invariant: the contents of pages, and the stack.                    *)

(* A page that is mapped belongs to the address space, and to one place in it. *)
LEMMA PteOwn ==
    ASSUME NEW s, NEW d, NEW W, Space(s, d, W), NEW v \in VPages, Pte(s, d, v) # NULL
    PROVE  Pte(s, d, v).pg \in W /\ Pte(s, d, v).pg \in Pages
  <1>1. s \in Memories /\ d \in Pages /\ d \in W /\ Closed(s, W) /\ W \in SUBSET Pages
    BY DEF Space, Forest, Root
  <1>2. PICK t : t = TableOf(s, d, v)
    OBVIOUS
  <1>3. t \in Pages /\ Pte(s, d, v).pg \in Pages /\ Points(s, t, PTX(v), Pte(s, d, v).pg)
    BY <1>1, <1>2, WalkFacts
  <1>4. PICK b \in Pages : Points(s, d, PDX1(v), b) /\ Points(s, b, PDX0(v), t)
    BY <1>1, <1>2, WalkFacts
  <1>5. PDX1(v) \in Idx /\ PDX0(v) \in Idx /\ PTX(v) \in Idx
    BY IndexFacts
  <1>6. b \in W
    BY <1>1, <1>4, <1>5 DEF Closed
  <1>7. t \in W
    BY <1>3, <1>4, <1>5, <1>6, <1>1 DEF Closed
  <1> QED
    BY <1>1, <1>3, <1>5, <1>7 DEF Closed

LEMMA PteInjective ==
    ASSUME NEW s, Forest(s), NEW d, Root(s, d), NEW u \in VPages, NEW v \in VPages,
           Pte(s, d, u) # NULL, Pte(s, d, v) # NULL, Pte(s, d, u).pg = Pte(s, d, v).pg
    PROVE  u = v
  <1>1. s \in Memories /\ d \in Pages
    BY DEF Forest, Root
  <1>2. PICK t, r, g : t = TableOf(s, d, u) /\ r = TableOf(s, d, v) /\ g = Pte(s, d, u).pg
    OBVIOUS
  <1>3. t \in Pages /\ g \in Pages /\ Points(s, t, PTX(u), g) /\ t # NULL
    BY <1>1, <1>2, WalkFacts
  <1>4. r \in Pages /\ Points(s, r, PTX(v), g)
    BY <1>1, <1>2, WalkFacts
  <1>5. PTX(u) \in Idx /\ PTX(v) \in Idx
    BY IndexFacts
  <1>6. t = r /\ PTX(u) = PTX(v)
    BY <1>3, <1>4, <1>5 DEF Forest
  <1> QED
    BY <1>2, <1>3, <1>6, OtherEntry

(* The contents of pages change and nothing else. *)
Rewritten(s, r, D) ==
    /\ r \in Memories
    /\ r.ent = s.ent /\ r.ref = s.ref /\ r.free = s.free /\ r.err = s.err
    /\ \A g \in Pages \ D : r.data[g] = s.data[g]

LEMMA FilledFacts ==
    ASSUME NEW s \in Memories, NEW D \in SUBSET Pages, NEW new \in [D -> Values], NEW r, r = Filled(s, new)
    PROVE  Rewritten(s, r, D)
  <1>1. PICK f : f = [g \in Pages |-> IF g \in D THEN new[g] ELSE s.data[g]]
    OBVIOUS
  <1>2. f \in [Pages -> Values]
    BY <1>1 DEF Memories
  <1>3. r = [s EXCEPT !.data = f]
    BY <1>1 DEF Filled
  <1>4. \A g \in Pages \ D : f[g] = s.data[g]
    BY <1>1
  <1> QED
    BY <1>2, <1>3, <1>4 DEF Rewritten, Memories

LEMMA RewrittenFacts ==
    ASSUME NEW s, NEW d, NEW W, Space(s, d, W), NEW D, D \subseteq W, NEW r, Rewritten(s, r, D)
    PROVE  /\ Space(r, d, W) /\ Local(s, r, W)
           /\ \A v \in VPages : Pte(r, d, v) = Pte(s, d, v)
  <1>1. /\ r \in Memories /\ r.ent = s.ent /\ r.ref = s.ref /\ r.free \subseteq s.free
        /\ \A h \in Pages \ W : r.data[h] = s.data[h]
    BY DEF Rewritten
  <1> QED
    BY <1>1, Retouch

(* The process p has written pages that it may write. *)
Stored(p) ==
    \A v \in VPages :
       /\ Pte(m', mm[p].pgdir, v) = Pte(m, mm[p].pgdir, v)
       /\ Pte(m, mm[p].pgdir, v) # NULL =>
             \/ m'.data[Pte(m, mm[p].pgdir, v).pg] = m.data[Pte(m, mm[p].pgdir, v).pg]
             \/ /\ Pte(m, mm[p].pgdir, v).w
                /\ m'.data[Pte(m, mm[p].pgdir, v).pg] \in Values

(* The pages D that change are mapped for writing. *)
LEMMA WriteFacts ==
    ASSUME Inv, NEW p \in Procs, Runs(p), NEW D, Rewritten(m, m', D),
           \A g \in D : \E v \in VPages : Writable(p, v) /\ Pte(m, mm[p].pgdir, v).pg = g,
           UNCHANGED <<mm, todo, state, down>>
    PROVE  Inv' /\ Kept(p) /\ LeavesKept(p) /\ Stored(p)
  <1>1. ~down /\ state[p] = "run"
    BY DEF Runs
  <1>2. mm[p] # NULL
    BY <1>1 DEF Inv, Control
  <1>3. /\ Control /\ Forest(m) /\ m.err = "none" /\ mm[p] \in AddressSpaces
        /\ SpaceOK(m, mm[p], state[p], todo[p])
    BY <1>1, <1>2, ProcFacts
  <1>4. PICK d : d = mm[p].pgdir
    OBVIOUS
  <1>5. PICK W : W = Own(m, d)
    OBVIOUS
  <1>6. Space(m, d, W) /\ Aside(p, W)
    BY <1>1, <1>2, <1>4, <1>5, OwnAside
  <1>7. D \subseteq W
    <2>1. SUFFICES ASSUME NEW g \in D PROVE g \in W
      OBVIOUS
    <2>2. PICK v \in VPages : Pte(m, d, v) # NULL /\ Pte(m, d, v).pg = g
      BY <1>4 DEF Writable
    <2> QED
      BY <1>6, <2>2, PteOwn
  <1>8. Space(m', d, W) /\ Local(m, m', W) /\ \A v \in VPages : Pte(m', d, v) = Pte(m, d, v)
    BY <1>6, <1>7, RewrittenFacts
  <1>9. Others(p)
    BY DEF Others
  <1>10. Forest(m') /\ m'.err = "none" /\ m'.free \subseteq W /\ m' \in Memories /\ Root(m', d)
    BY <1>3, <1>8 DEF Space, Rewritten
  <1>11. SpaceOK(m', mm[p], state[p], todo[p])
    BY <1>3, <1>4, <1>8, <1>10, SamePtes
  <1>12. SpaceOK(m', mm'[p], state'[p], todo'[p])
    BY <1>11
  <1>13. Control' /\ down' \in BOOLEAN
    BY <1>3 DEF Control, Inv
  <1>14. \A q \in Procs \ {p} : mm[q] # NULL => mm[q].pgdir # mm'[p].pgdir
    BY <1>1, <1>2 DEF Inv, Apart
  <1>15. Inv' /\ Kept(p)
    BY <1>1, <1>6, <1>8, <1>9, <1>10, <1>12, <1>13, <1>14, StepInv
  <1>16. LeavesKept(p)
    BY <1>2, <1>4, <1>8 DEF LeavesKept
  <1>17. Stored(p)
    <2>1. ASSUME NEW v \in VPages, Pte(m, d, v) # NULL
          PROVE  \/ m'.data[Pte(m, d, v).pg] = m.data[Pte(m, d, v).pg]
                 \/ Pte(m, d, v).w /\ m'.data[Pte(m, d, v).pg] \in Values
      <3>1. Pte(m, d, v).pg \in Pages
        BY <1>6, <2>1, PteOwn
      <3>2. CASE Pte(m, d, v).pg \notin D
        BY <3>1, <3>2 DEF Rewritten
      <3>3. CASE Pte(m, d, v).pg \in D
        <4>1. PICK u \in VPages : Writable(p, u) /\ Pte(m, d, u).pg = Pte(m, d, v).pg
          BY <1>4, <3>3
        <4>2. Pte(m, d, u) # NULL /\ Pte(m, d, u).w
          BY <1>4, <4>1 DEF Writable
        <4>3. u = v
          BY <1>3, <1>6, <2>1, <4>1, <4>2, PteInjective DEF Space
        <4>4. m'.data[Pte(m, d, v).pg] \in Values
          BY <1>10, <3>1 DEF Memories
        <4> QED
          BY <4>2, <4>3, <4>4
      <3> QED
        BY <3>2, <3>3
    <2> QED
      BY <1>4, <1>8, <2>1 DEF Stored
  <1> QED
    BY <1>15, <1>16, <1>17

LEMMA StoreStep ==
    ASSUME Inv, NEW p \in Procs, NEW v \in VPages, NEW val \in Values, store(p, v, val)
    PROVE  Inv' /\ Kept(p) /\ LeavesKept(p) /\ Stored(p)
  <1>1. PICK g : g = Pte(m, mm[p].pgdir, v).pg
    OBVIOUS
  <1>2. Runs(p) /\ Writable(p, v) /\ m' = [m EXCEPT !.data[g] = val] /\ UNCHANGED <<mm, todo, state, down>>
    BY <1>1 DEF store
  <1>3. ~down /\ state[p] = "run" /\ mm[p] # NULL
    BY <1>2 DEF Runs, Inv, Control
  <1>4. m \in Memories /\ mm[p].pgdir \in Pages
    BY <1>3, ProcFacts
  <1>5. g \in Pages
    BY <1>1, <1>2, <1>4, WalkFacts DEF Writable
  <1>6. m' = [m EXCEPT !.data = [m.data EXCEPT ![g] = val]]
    BY <1>2
  <1>7. Rewritten(m, m', {g})
    BY <1>4, <1>5, <1>6 DEF Rewritten, Memories
  <1>8. \A h \in {g} : \E u \in VPages : Writable(p, u) /\ Pte(m, mm[p].pgdir, u).pg = h
    BY <1>1, <1>2
  <1> QED
    BY <1>2, <1>7, <1>8, WriteFacts

LEMMA CopyToUserStep ==
    ASSUME Inv, NEW p \in Procs, NEW s \in VPages, NEW len \in Nat, copy_to_user(p, s, s + len)
    PROVE  Inv' /\ Kept(p) /\ (~down' => LeavesKept(p)) /\ Stored(p)
  <1>1. PICK e : e = s + len
    OBVIOUS
  <1>2. Runs(p) /\ e <= USTACKTOP /\ UNCHANGED <<mm, todo, state>>
    BY <1>1 DEF copy_to_user
  <1>3. ~down /\ state[p] = "run" /\ mm[p] # NULL
    BY <1>2 DEF Runs, Inv, Control
  <1>4. /\ m \in Memories /\ mm[p].pgdir \in Pages
    BY <1>3, ProcFacts
  <1>5. CASE \A v \in s .. e - 1 : Writable(p, v)
    <2>1. PICK D : D = PagesAt(m, mm[p].pgdir, s, e)
      OBVIOUS
    <2>2. PICK val \in Values : m' = Filled(m, [g \in D |-> val])
      BY <1>1, <1>5, <2>1 DEF copy_to_user
    <2>3. UNCHANGED down
      BY <1>1, <1>5 DEF copy_to_user
    <2>4. \A v \in s .. e - 1 : v \in VPages
      BY <1>1, <1>2, FanFacts DEF VPages, USTACKTOP
    <2>5. \A g \in D : \E v \in VPages : Writable(p, v) /\ Pte(m, mm[p].pgdir, v).pg = g
      BY <1>5, <2>1, <2>4 DEF PagesAt
    <2>6. D \in SUBSET Pages
      BY <1>4, <2>5, WalkFacts DEF Writable
    <2>7. PICK new : new = [g \in D |-> val]
      OBVIOUS
    <2>8. new \in [D -> Values]
      BY <2>7
    <2>9. Rewritten(m, m', D)
      BY <1>4, <2>2, <2>6, <2>7, <2>8, FilledFacts
    <2> QED
      BY <1>2, <2>3, <2>5, <2>9, WriteFacts
  <1>6. CASE ~\A v \in s .. e - 1 : Writable(p, v)
    <2>1. down' = TRUE /\ m' = m
      BY <1>1, <1>6 DEF copy_to_user
    <2>2. Inv'
      BY <2>1 DEF Inv
    <2>3. Kept(p)
      BY <1>2, <2>1 DEF Kept, Others, SameAt
    <2>4. Stored(p)
      BY <2>1 DEF Stored
    <2> QED
      BY <2>1, <2>2, <2>3, <2>4
  <1> QED
    BY <1>5, <1>6

---------------------------------------------------------------------------
(* The invariant: the stack.                                               *)

LEMMA StackVmaFacts ==
    /\ StackVma \in Vmas /\ StackVma.start < StackVma.end /\ StackVma.flags = "STACK"
    /\ StackPages \in Nat
    /\ \A v \in VPages : v >= USTACKTOP - StackPages => Covers(StackVma, v)
    /\ \A i \in 1 .. StackPages : USTACKTOP - i \in VPages /\ USTACKTOP - i >= USTACKTOP - StackPages
    /\ \A v \in (USTACKTOP - StackPages) .. (USTACKTOP - 1) : v \in VPages /\ v >= USTACKTOP - StackPages
  <1>1. VPages = 0 .. USTACKTOP - 1 /\ USTACKTOP \in Nat
    BY FanFacts DEF VPages, USTACKTOP
  <1>2. StackLow \in VPages /\ StackPages \in Nat /\ StackLow + StackPages \in VPages
    BY VmAssumption
  <1>3. StackLow \in Nat /\ StackLow + StackPages < USTACKTOP
    BY <1>1, <1>2
  <1>4. StackVma \in Vmas /\ StackVma.start = StackLow /\ StackVma.end = USTACKTOP /\ StackVma.flags = "STACK"
    BY <1>1, <1>2, <1>3 DEF StackVma, Vmas
  <1>5. \A v \in VPages : v >= USTACKTOP - StackPages => Covers(StackVma, v)
    BY <1>1, <1>2, <1>3, <1>4 DEF Covers
  <1>6. \A i \in 1 .. StackPages : USTACKTOP - i \in VPages /\ USTACKTOP - i >= USTACKTOP - StackPages
    BY <1>1, <1>2, <1>3
  <1>7. \A v \in (USTACKTOP - StackPages) .. (USTACKTOP - 1) : v \in VPages /\ v >= USTACKTOP - StackPages
    BY <1>1, <1>2, <1>3
  <1>8. StackVma.start < StackVma.end
    BY <1>1, <1>2, <1>3, <1>4
  <1> QED
    BY <1>2, <1>4, <1>5, <1>6, <1>7, <1>8

(* An address space gets a stack of which some pages are mapped. *)
LEMMA StackedFacts ==
    ASSUME NEW s, NEW d, NEW l, ListOK(l), Within(s, d, l), \A n \in 1 .. Len(l) : Full(s, d, l[n]),
           NEW p \in 1 .. Len(l) + 1, NEW k, Inserted(k, l, p, StackVma), ListOK(k),
           NEW r, \A v \in VPages : StackAt(s, r, d, StackPages, v), Root(r, d)
    PROVE  /\ Within(r, d, k)
           /\ \A i \in 1 .. Len(k) : k[i].flags = "STACK" \/ Full(r, d, k[i])
           /\ \A v \in VPages : Pte(s, d, v) # NULL => Pte(r, d, v) = Pte(s, d, v)
  <1>1. l \in Seq(Vmas) /\ k \in Seq(Vmas) /\ l \in Lists
    BY DEF ListOK, Lists
  <1>2. /\ StackVma \in Vmas /\ StackVma.flags = "STACK"
        /\ \A v \in VPages : v >= USTACKTOP - StackPages => Covers(StackVma, v)
    BY StackVmaFacts
  <1>3. \A v \in VPages : v \in Int /\ USTACKTOP - StackPages \in Int
    BY FanFacts, VmAssumption DEF VPages
  <1>4. Within(s, d, k)
    BY <1>1, <1>2, InsertedWithin
  <1>5. \A v \in VPages : v >= USTACKTOP - StackPages => Pte(s, d, v) = NULL
    BY <1>1, <1>2, InsertedUnmapped
  <1>6. \A v \in VPages : /\ v >= USTACKTOP - StackPages => Pte(r, d, v) # NULL /\ Pte(r, d, v).w = TRUE
                          /\ ~(v >= USTACKTOP - StackPages) => Pte(r, d, v) = Pte(s, d, v)
    BY <1>3 DEF StackAt, SameAt
  <1>7. \A v \in VPages : Pte(s, d, v) # NULL => Pte(r, d, v) = Pte(s, d, v)
    BY <1>5, <1>6
  <1>8. Within(r, d, k)
    <2>1. SUFFICES ASSUME NEW v \in VPages, Pte(r, d, v) # NULL
                   PROVE  \E i \in 1 .. Len(k) : Covers(k[i], v) /\ (Pte(r, d, v).w <=> k[i].flags # "R")
      BY DEF Within
    <2>2. CASE v >= USTACKTOP - StackPages
      <3>1. p \in 1 .. Len(k) /\ k[p] = StackVma
        BY DEF Inserted
      <3>2. Covers(k[p], v) /\ Pte(r, d, v).w = TRUE /\ k[p].flags # "R"
        BY <1>2, <1>6, <2>2, <3>1
      <3> QED
        BY <3>1, <3>2
    <2>3. CASE ~(v >= USTACKTOP - StackPages)
      <3>1. Pte(r, d, v) = Pte(s, d, v)
        BY <1>6, <2>3
      <3> QED
        BY <1>4, <2>1, <3>1 DEF Within
    <2> QED
      BY <2>2, <2>3
  <1>9. ASSUME NEW i \in 1 .. Len(k) PROVE k[i].flags = "STACK" \/ Full(r, d, k[i])
    <2>1. \/ k[i] = StackVma
          \/ i \in 1 .. Len(l) /\ k[i] = l[i]
          \/ i - 1 \in 1 .. Len(l) /\ k[i] = l[i - 1]
      BY <1>1, <1>2, InsertedFrom
    <2>2. ASSUME NEW n \in 1 .. Len(l) PROVE Full(r, d, l[n])
      <3>1. \A v \in l[n].start .. l[n].end - 1 : v \in VPages
        BY <1>1, VmaFacts
      <3> QED
        BY <1>7, <3>1 DEF Full
    <2> QED
      BY <1>2, <2>1, <2>2
  <1> QED
    BY <1>7, <1>8, <1>9

LEMMA LoadStackStep ==
    ASSUME Inv, NEW p \in Procs, load_stack(p)
    PROVE  /\ Inv' /\ Kept(p) /\ (~down' => LeavesKept(p))
           /\ m' \in Memories /\ mm'[p] \in AddressSpaces
  <1>1. ~down /\ state[p] = "load" /\ todo[p] = << >>
    BY DEF load_stack
  <1>2. mm[p] # NULL /\ Control
    BY <1>1 DEF Inv, Control
  <1>3. PICK y : y = insert_vma_struct(mm[p], StackVma)
    OBVIOUS
  <1>4. /\ mm' = [mm EXCEPT ![p] = y] /\ state' = [state EXCEPT ![p] = "run"] /\ todo' = todo
    BY <1>3 DEF load_stack
  <1>5. /\ Forest(m) /\ m.err = "none" /\ mm[p] \in AddressSpaces /\ m \in Memories
        /\ SpaceOK(m, mm[p], state[p], todo[p])
        /\ ListOK(mm[p].mmap_list) /\ Within(m, mm[p].pgdir, mm[p].mmap_list)
    BY <1>1, <1>2, ProcFacts
  <1>6. mm'[p] = y
    BY <1>2, <1>4 DEF Control
  <1>7. PICK l \in Seq(Vmas), d \in Pages : l = mm[p].mmap_list /\ d = mm[p].pgdir
    BY <1>5 DEF AddressSpaces
  <1>8. PICK k : k = y.mmap_list
    OBVIOUS
  <1>9. y \in AddressSpaces /\ y.pgdir = d /\ \E i \in 1 .. Len(l) + 1 : Inserted(k, l, i, StackVma)
    BY <1>3, <1>5, <1>7, <1>8, StackVmaFacts, InsertFacts
  <1>10. PICK m1 : m1 = alloc_stack(m, d)
    OBVIOUS
  <1>11. IF Overlaps(k) THEN m' = m /\ down' = TRUE
         ELSE IF m1.err # "none" THEN m' = m1 /\ down' = TRUE
         ELSE \E old \in [PagesAt(m1, d, USTACKTOP - StackPages, USTACKTOP) -> Values],
                 fit \in BOOLEAN : m' = Filled(m1, old) /\ down' = ~fit
    BY <1>6, <1>7, <1>8, <1>10 DEF load_stack
  <1>12. Others(p)
    BY <1>2, <1>4 DEF Others, Control
  <1>13. PICK W : W = Own(m, d)
    OBVIOUS
  <1>14. Space(m, d, W) /\ Aside(p, W)
    BY <1>1, <1>2, <1>7, <1>13, OwnAside
  <1>15. y # NULL
    BY <1>9, VmAssumption
  <1>16. ASSUME Space(m', d, W), Local(m, m', W), ~down' => LeavesKept(p), Inv'
         PROVE  /\ Inv' /\ Kept(p) /\ (~down' => LeavesKept(p))
                /\ m' \in Memories /\ mm'[p] \in AddressSpaces
    <2>1. m' \in Memories /\ m'.free \subseteq W
      BY <1>16 DEF Space, Forest
    <2>2. Kept(p)
      BY <1>1, <1>12, <1>14, <1>16, <2>1, StepFrame
    <2> QED
      BY <1>6, <1>9, <1>16, <2>1, <2>2
  <1>17. CASE Overlaps(k)
    <2>1. m' = m /\ down' = TRUE
      BY <1>11, <1>17
    <2>2. Inv' /\ Local(m, m', W)
      BY <2>1, LocalSelf DEF Inv
    <2> QED
      BY <1>14, <1>16, <2>1, <2>2
  <1>18. CASE ~Overlaps(k)
    <2>1. PICK i \in 1 .. Len(l) + 1 : Inserted(k, l, i, StackVma)
      BY <1>9
    <2>2. ListOK(k)
      BY <1>5, <1>7, <1>18, <2>1, StackVmaFacts, InsertedOK
    <2>3. \A j \in 1 .. StackPages : Pte(m, d, USTACKTOP - j) = NULL
      BY <1>5, <1>7, <2>1, <2>2, StackVmaFacts, InsertedUnmapped
    <2>4. StackTo(m, m1, d, W, StackPages)
      BY <1>10, <1>14, <2>3, AllocStackFacts
    <2>5. CASE m1.err # "none"
      <3>1. m' = m1 /\ down' = TRUE
        BY <1>11, <1>18, <2>5
      <3>2. Inv' /\ Space(m', d, W) /\ Local(m, m', W)
        BY <2>4, <3>1 DEF Inv, StackTo
      <3> QED
        BY <1>16, <3>1, <3>2
    <2>6. CASE m1.err = "none"
      <3>1. PICK D : D = PagesAt(m1, d, USTACKTOP - StackPages, USTACKTOP)
        OBVIOUS
      <3>2. PICK old \in [D -> Values], fit \in BOOLEAN : m' = Filled(m1, old) /\ down' = ~fit
        BY <1>11, <1>18, <2>6, <3>1
      <3>3. /\ Space(m1, d, W) /\ Local(m, m1, W) /\ m1 \in Memories
            /\ \A v \in VPages : StackAt(m, m1, d, StackPages, v)
        BY <2>4, <2>6 DEF StackTo
      <3>4. D \subseteq W /\ D \in SUBSET Pages
        <4>1. SUFFICES ASSUME NEW g \in D PROVE g \in W /\ g \in Pages
          OBVIOUS
        <4>2. PICK v \in (USTACKTOP - StackPages) .. (USTACKTOP - 1) : g = Pte(m1, d, v).pg
          BY <3>1 DEF PagesAt
        <4>3. v \in VPages /\ v >= USTACKTOP - StackPages
          BY StackVmaFacts
        <4>4. Pte(m1, d, v) # NULL
          BY <3>3, <4>3 DEF StackAt
        <4> QED
          BY <3>3, <4>2, <4>3, <4>4, PteOwn
      <3>5. Rewritten(m1, m', D)
        BY <3>2, <3>3, <3>4, FilledFacts
      <3>6. Space(m', d, W) /\ Local(m1, m', W) /\ \A v \in VPages : Pte(m', d, v) = Pte(m1, d, v)
        BY <3>3, <3>4, <3>5, RewrittenFacts
      <3>7. Local(m, m', W) /\ m' \in Memories /\ m'.err = "none" /\ Root(m', d) /\ Root(m1, d)
        BY <2>6, <3>3, <3>5, <3>6, LocalTrans DEF Rewritten, Space
      <3>8. \A n \in 1 .. Len(l) : Full(m, d, l[n])
        BY <1>1, <1>5, <1>7 DEF SpaceOK
      <3>9. /\ Within(m1, d, k)
            /\ \A n \in 1 .. Len(k) : k[n].flags = "STACK" \/ Full(m1, d, k[n])
            /\ \A v \in VPages : Pte(m, d, v) # NULL => Pte(m1, d, v) = Pte(m, d, v)
        BY <1>5, <1>7, <2>1, <2>2, <3>3, <3>7, <3>8, StackedFacts
      <3>10. SpaceOK(m1, y, "run", << >>)
        BY <1>8, <1>9, <2>2, <3>7, <3>9 DEF SpaceOK
      <3>11. SpaceOK(m', y, "run", << >>)
        BY <1>9, <3>6, <3>7, <3>10, SamePtes
      <3>12. state'[p] = "run" /\ todo'[p] = << >>
        BY <1>1, <1>2, <1>4 DEF Control
      <3>13. SpaceOK(m', mm'[p], state'[p], todo'[p])
        BY <1>6, <3>11, <3>12
      <3>14. Control'
        <4>1. mm' \in [Procs -> AddressSpaces \cup {NULL}]
          BY <1>2, <1>4, <1>9 DEF Control
        <4>2. state' \in [Procs -> {"none", "run", "load", "exec"}]
          BY <1>2, <1>4 DEF Control
        <4>3. \A q \in Procs : mm'[q] # NULL <=> state'[q] \in {"run", "load"}
          BY <1>2, <1>6, <1>12, <1>15, <3>12 DEF Control, Others
        <4> QED
          BY <1>2, <1>4, <4>1, <4>2, <4>3 DEF Control
      <3>15. Forest(m') /\ m'.free \subseteq W /\ down' \in BOOLEAN
        BY <3>2, <3>6 DEF Space
      <3>16. \A q \in Procs \ {p} : mm[q] # NULL => mm[q].pgdir # mm'[p].pgdir
        BY <1>1, <1>2, <1>6, <1>7, <1>9 DEF Inv, Apart
      <3>17. Inv'
        BY <1>1, <1>12, <1>14, <3>7, <3>13, <3>14, <3>15, <3>16, StepInv
      <3>18. LeavesKept(p)
        BY <1>6, <1>7, <1>9, <1>15, <3>6, <3>9 DEF LeavesKept
      <3> QED
        BY <1>16, <3>6, <3>7, <3>17, <3>18
    <2> QED
      BY <2>5, <2>6
  <1> QED
    BY <1>17, <1>18

---------------------------------------------------------------------------
(* The invariant: fork.                                                    *)

(* The process q has got a copy of the memory of p. *)
Forked(p, q) ==
    /\ state' = [state EXCEPT ![q] = "run"]
    /\ \A v \in VPages : CopyOf(m, mm[p].pgdir, m', mm'[q].pgdir, v)

(* An address space whose pages are copies of those of x has the list of x. *)
LEMMA CopiedSpace ==
    ASSUME NEW s, NEW x \in AddressSpaces, NEW td, SpaceOK(s, x, "run", td),
           NEW r, NEW y, Root(r, y.pgdir), y.mmap_list = x.mmap_list,
           \A v \in VPages : CopyOf(s, x.pgdir, r, y.pgdir, v), NEW ntd
    PROVE  SpaceOK(r, y, "run", ntd)
  <1>1. PICK l, e, d : l = x.mmap_list /\ e = x.pgdir /\ d = y.pgdir
    OBVIOUS
  <1>2. /\ ListOK(l) /\ Within(s, e, l) /\ l \in Lists
        /\ \A i \in 1 .. Len(l) : l[i].flags = "STACK" \/ Full(s, e, l[i])
    BY <1>1 DEF SpaceOK, ListOK, Lists
  <1>3. \A v \in VPages : /\ Pte(r, d, v) # NULL <=> Pte(s, e, v) # NULL
                          /\ Pte(s, e, v) # NULL => Pte(r, d, v).w = Pte(s, e, v).w
    BY <1>1 DEF CopyOf
  <1>4. Within(r, d, l)
    BY <1>2, <1>3 DEF Within
  <1>5. ASSUME NEW i \in 1 .. Len(l), Full(s, e, l[i]) PROVE Full(r, d, l[i])
    <2>1. \A v \in l[i].start .. l[i].end - 1 : v \in VPages
      BY <1>2, VmaFacts
    <2> QED
      BY <1>3, <1>5, <2>1 DEF Full
  <1> QED
    BY <1>1, <1>2, <1>4, <1>5 DEF SpaceOK

(* dup_mmap of the whole list. *)
Whole(s, e, z, d, l) == z.y.mmap_list = l /\ \A v \in VPages : CopyOf(s, e, z.m, d, v)
Unmoved(s, s0, e) == \A v \in VPages : SameAt(s, s0, e, v)

LEMMA WholeCopy ==
    ASSUME NEW s, NEW x \in AddressSpaces, NEW e, e = x.pgdir, NEW l, l = x.mmap_list, l \in Lists,
           Within(s, e, l), NEW s0, Unmoved(s, s0, e),
           NEW z, NEW d, NEW W, DupTo(s0, e, z, d, W, l, Len(l)), z.m.err = "none"
    PROVE  Whole(s, e, z, d, l)
  <1>1. l \in Seq(Vmas) /\ Len(l) \in Nat
    BY DEF Lists
  <1>2. /\ z.y \in AddressSpaces /\ Suffix(z.y.mmap_list, l, Len(l))
        /\ \A v \in VPages : DupAt(s0, e, z.m, d, l, Len(l), v)
    BY DEF DupTo, Dups
  <1>3. z.y.mmap_list \in Seq(Vmas)
    BY <1>2 DEF AddressSpaces
  <1>4. Len(z.y.mmap_list) = Len(l) /\ \A j \in 1 .. Len(l) : z.y.mmap_list[j] = l[j]
    BY <1>1, <1>2 DEF Suffix
  <1>5. z.y.mmap_list = l
    BY <1>1, <1>3, <1>4, SeqEqual
  <1>6. ASSUME NEW v \in VPages PROVE CopyOf(s, e, z.m, d, v)
    <2>1. /\ Pte(s0, e, v) = Pte(s, e, v)
          /\ Pte(s, e, v) # NULL => s0.data[Pte(s, e, v).pg] = s.data[Pte(s, e, v).pg]
      BY DEF SameAt, Unmoved
    <2>2. CopyOf(s0, e, z.m, d, v)
      <3>1. CASE \E j \in 1 .. Len(l) : Covers(l[j], v)
        <4>1. \E j \in 1 .. Len(l) : AmongLast(l, Len(l), j) /\ Covers(l[j], v)
          BY <1>1, <3>1 DEF AmongLast
        <4> QED
          BY <1>2, <4>1 DEF DupAt
      <3>2. CASE ~\E j \in 1 .. Len(l) : Covers(l[j], v)
        <4>1. Pte(z.m, d, v) = NULL
          BY <1>2, <3>2 DEF DupAt
        <4>2. Pte(s, e, v) = NULL
          BY <3>2 DEF Within
        <4> QED
          BY <2>1, <4>1, <4>2 DEF CopyOf
      <3> QED
        BY <3>1, <3>2
    <2> QED
      BY <2>1, <2>2 DEF CopyOf
  <1> QED
    BY <1>5, <1>6 DEF Whole

LEMMA DoForkStep ==
    ASSUME Inv, NEW p \in Procs, NEW q \in Procs, do_fork(p, q)
    PROVE  /\ Inv' /\ Kept(q) /\ LeavesKept(q)
           /\ UNCHANGED state \/ (Forked(p, q) /\ mm'[q] # NULL)
           /\ ~down /\ state[p] = "run" /\ state[q] = "none"
  <1>1. ~down /\ state[p] = "run" /\ state[q] = "none" /\ m.free # {} /\ todo' = todo
    BY DEF do_fork, Runs
  <1>2. Control /\ mm[p] # NULL /\ mm[q] = NULL /\ p # q
    BY <1>1 DEF Inv, Control
  <1>3. /\ Forest(m) /\ m.err = "none" /\ mm[p] \in AddressSpaces /\ m \in Memories
        /\ SpaceOK(m, mm[p], state[p], todo[p]) /\ mm[p].mmap_list \in Lists
        /\ ListOK(mm[p].mmap_list) /\ Within(m, mm[p].pgdir, mm[p].mmap_list)
    BY <1>1, <1>2, ProcFacts
  <1>4. PICK x, e, l : x = mm[p] /\ e = mm[p].pgdir /\ l = mm[p].mmap_list
    OBVIOUS
  <1>5. PICK d, s0, W : d = NextFree(m) /\ s0 = Take(m) /\ W = m.free
    OBVIOUS
  <1>6. PICK y0 : y0 = [pgdir |-> d, mmap_list |-> << >>]
    OBVIOUS
  <1>7. PICK n \in 0 .. Len(l) :
           LET dup == dup_mmap(s0, y0, x, n)
           IN  IF dup.m.err = "none" /\ n = Len(l)
               THEN /\ m' = dup.m
                    /\ \/ /\ mm' = [mm EXCEPT ![q] = dup.y]
                          /\ state' = [state EXCEPT ![q] = "run"]
                       \/ UNCHANGED <<mm, state>>
                    /\ UNCHANGED down
               ELSE /\ m' = IF dup.m.err = "panic" THEN dup.m
                            ELSE Release([dup.m EXCEPT !.err = "none"], dup.y)
                    /\ down' = (m'.err = "panic")
                    /\ UNCHANGED <<mm, state>>
    BY <1>4, <1>5, <1>6 DEF do_fork
  <1>8. PICK z : z = dup_mmap(s0, y0, x, n)
    OBVIOUS
  <1>9. /\ Space(s0, d, W) /\ Local(m, s0, W) /\ s0 \in Memories /\ s0.err = "none"
         /\ d \in m.free /\ d \in Pages /\ s0.free \subseteq W
         /\ \A v \in VPages : Pte(s0, d, v) = NULL
    BY <1>1, <1>3, <1>5, FreshDir
  <1>10. Aside(q, W)
    BY <1>1, <1>5, FreshAside
  <1>11. Tree(m, e) \cap W = {} /\ Root(m, e)
    BY <1>2, <1>3, <1>4, <1>10 DEF Aside, SpaceOK
  <1>12. /\ Root(s0, e) /\ Tree(s0, e) \cap W = {}
         /\ \A v \in VPages : SameAt(m, s0, e, v)
    BY <1>3, <1>9, <1>11, Frame
  <1>13. DupTo(s0, e, z, d, W, l, n)
    BY <1>3, <1>4, <1>6, <1>8, <1>9, <1>12, DupMmapFacts
  <1>14. /\ Space(z.m, d, W) /\ Local(s0, z.m, W) /\ z.y \in AddressSpaces /\ z.y.pgdir = d
         /\ z.y.mmap_list \in Lists /\ z.m \in Memories
    BY <1>13 DEF DupTo, Dups
  <1>15. Local(m, z.m, W) /\ Forest(z.m) /\ z.m.free \subseteq W
    BY <1>9, <1>14, LocalTrans DEF Space
  <1>16. LeavesKept(q)
    BY <1>2 DEF LeavesKept
  <1>17. CASE z.m.err = "none" /\ n = Len(l)
    <2>1. /\ m' = z.m /\ UNCHANGED down
          /\ \/ mm' = [mm EXCEPT ![q] = z.y] /\ state' = [state EXCEPT ![q] = "run"]
             \/ UNCHANGED <<mm, state>>
      BY <1>7, <1>8, <1>17
    <2>2. Forest(m') /\ m'.err = "none" /\ m'.free \subseteq W /\ Local(m, m', W) /\ down' \in BOOLEAN
      BY <1>15, <1>17, <2>1 DEF Inv
    <2>3. z.y.mmap_list = l /\ \A v \in VPages : CopyOf(m, e, z.m, d, v)
      <3>1. x \in AddressSpaces /\ e = x.pgdir /\ l = x.mmap_list /\ l \in Lists /\ Within(m, e, l)
        BY <1>3, <1>4
      <3>2. DupTo(s0, e, z, d, W, l, Len(l)) /\ z.m.err = "none"
        BY <1>13, <1>17
      <3>3. Unmoved(m, s0, e)
        BY <1>12 DEF Unmoved
      <3>4. Whole(m, e, z, d, l)
        BY <3>1, <3>2, <3>3, WholeCopy
      <3> QED
        BY <3>4 DEF Whole
    <2>4. CASE mm' = [mm EXCEPT ![q] = z.y] /\ state' = [state EXCEPT ![q] = "run"]
      <3>1. mm'[q] = z.y /\ state'[q] = "run" /\ Others(q)
        BY <1>1, <1>2, <2>4 DEF Others, Control
      <3>2. z.y # NULL
        BY <1>14, VmAssumption
      <3>3. Control'
        <4>1. mm' \in [Procs -> AddressSpaces \cup {NULL}] /\ state' \in [Procs -> {"none", "run", "load", "exec"}]
          BY <1>2, <1>14, <2>4 DEF Control
        <4>2. \A o \in Procs : mm'[o] # NULL <=> state'[o] \in {"run", "load"}
          BY <1>2, <3>1, <3>2, ZenonT(40) DEF Control, Others
        <4> QED
          BY <1>1, <1>2, <4>1, <4>2 DEF Control
      <3>4. SpaceOK(z.m, z.y, "run", todo'[q])
        <4>1. SpaceOK(m, x, "run", todo[p]) /\ x \in AddressSpaces
          BY <1>1, <1>3, <1>4
        <4>2. Root(z.m, z.y.pgdir) /\ z.y.mmap_list = x.mmap_list
          BY <1>4, <1>14, <2>3 DEF Space
        <4>3. \A v \in VPages : CopyOf(m, x.pgdir, z.m, z.y.pgdir, v)
          BY <1>4, <1>14, <2>3
        <4> QED
          BY <4>1, <4>2, <4>3, CopiedSpace
      <3>5. SpaceOK(m', mm'[q], state'[q], todo'[q])
        BY <2>1, <3>1, <3>4
      <3>6. \A o \in Procs \ {q} : mm[o] # NULL => mm[o].pgdir # mm'[q].pgdir
        <4>1. \A o \in Procs \ {q} : mm[o] # NULL => mm[o].pgdir \notin m.free
          BY <1>1 DEF Inv, SpaceOK, Root
        <4> QED
          BY <1>9, <1>14, <3>1, <4>1
      <3>7. Inv' /\ Kept(q)
        BY <1>1, <1>10, <2>2, <3>1, <3>3, <3>5, <3>6, StepInv
      <3>8. Forked(p, q)
        BY <1>4, <1>14, <2>1, <2>3, <2>4, <3>1 DEF Forked
      <3> QED
        BY <1>1, <1>16, <3>1, <3>2, <3>7, <3>8
    <2>5. CASE UNCHANGED <<mm, state>>
      <3>1. Others(q) /\ Control' /\ mm'[q] = NULL /\ state' = state
        BY <1>1, <1>2, <2>5 DEF Others, Control
      <3>2. Inv' /\ Kept(q)
        BY <1>1, <1>10, <2>2, <3>1, StepInv
      <3>3. UNCHANGED state
        BY <3>1
      <3> QED
        BY <1>1, <1>16, <3>2, <3>3, Zenon
    <2> QED
      BY <2>1, <2>4, <2>5
  <1>18. CASE ~(z.m.err = "none" /\ n = Len(l))
    <2>1. /\ m' = IF z.m.err = "panic" THEN z.m ELSE Release([z.m EXCEPT !.err = "none"], z.y)
          /\ down' = (m'.err = "panic") /\ UNCHANGED <<mm, state>>
      BY <1>7, <1>8, <1>18
    <2>2. Others(q) /\ Control' /\ mm'[q] = NULL /\ state' = state
      BY <1>1, <1>2, <2>1 DEF Others, Control
    <2>3. CASE z.m.err = "panic"
      <3>1. m' = z.m /\ down' = TRUE
        BY <2>1, <2>3
      <3>2. Inv'
        BY <3>1 DEF Inv
      <3>3. Kept(q)
        BY <1>1, <1>10, <1>14, <1>15, <2>2, <3>1, StepFrame
      <3>4. UNCHANGED state
        BY <2>2
      <3> QED
        BY <1>1, <1>16, <3>2, <3>3, <3>4, Zenon
    <2>4. CASE z.m.err # "panic"
      <3>1. PICK s : s = [z.m EXCEPT !.err = "none"]
        OBVIOUS
      <3>2. /\ s \in Memories /\ s.ent = z.m.ent /\ s.ref = z.m.ref /\ s.free = z.m.free
            /\ s.data = z.m.data /\ s.err = "none"
        BY <1>14, <3>1, SetErr
      <3>3. Space(s, d, W) /\ Local(z.m, s, W)
        BY <1>14, <3>2, Retouch
      <3>4. m' = Release(s, z.y)
        BY <2>1, <2>4, <3>1
      <3>5. PICK k : k = z.y.mmap_list
        OBVIOUS
      <3>6. Released(s, m', d, W, k)
        BY <1>14, <3>3, <3>4, <3>5, ReleaseFacts
      <3>7. Forest(m') /\ m'.err = "none" /\ m'.free \subseteq W /\ Local(s, m', W)
        BY <3>2, <3>6 DEF Released
      <3>8. Local(m, m', W)
        BY <1>15, <3>3, <3>7, LocalTrans
      <3>9. down' \in BOOLEAN
        BY <2>1
      <3>10. Inv' /\ Kept(q)
        BY <1>1, <1>10, <2>2, <3>7, <3>8, <3>9, StepInv
      <3>11. UNCHANGED state
        BY <2>2
      <3> QED
        BY <1>1, <1>16, <3>10, <3>11, Zenon
    <2> QED
      BY <2>3, <2>4
  <1> QED
    BY <1>17, <1>18

---------------------------------------------------------------------------
(* The invariant of the specification and what it says.                    *)

LEMMA NextFacts ==
    ASSUME Inv, Next
    PROVE  Inv' /\ (UNCHANGED vars \/ \E p \in Procs : Kept(p) /\ (~down' => LeavesKept(p)))
  <1>1. ASSUME NEW p \in Procs, NEW q \in Procs, do_fork(p, q) PROVE Inv' /\ Kept(q) /\ LeavesKept(q)
    BY <1>1, DoForkStep
  <1>2. ASSUME NEW p \in Procs, do_exit(p) \/ do_execve(p) PROVE Inv' /\ Kept(p) /\ LeavesKept(p)
    BY <1>2, DoExitStep, DoExecveStep
  <1>3. ASSUME NEW p \in Procs, NEW prog \in Programs, load_icode(p, prog)
        PROVE  Inv' /\ Kept(p) /\ LeavesKept(p)
    BY <1>3, LoadIcodeStep
  <1>4. ASSUME NEW p \in Procs, load_icode_no_pgdir(p) \/ load_fails(p) PROVE Inv' /\ Kept(p) /\ LeavesKept(p)
    BY <1>4, NoPgdirStep, LoadFailsStep
  <1>5. ASSUME NEW p \in Procs, load_map(p) \/ load_page(p) PROVE Inv' /\ Kept(p) /\ LeavesKept(p)
    BY <1>5, LoadMapStep, LoadPageStep
  <1>6. ASSUME NEW p \in Procs, load_stack(p) PROVE Inv' /\ Kept(p) /\ (~down' => LeavesKept(p))
    BY <1>6, LoadStackStep
  <1>7. ASSUME NEW p \in Procs, NEW v \in VPages, NEW val \in Values, store(p, v, val)
        PROVE  Inv' /\ Kept(p) /\ LeavesKept(p)
    BY <1>7, StoreStep
  <1>8. ASSUME NEW p \in Procs, NEW s \in VPages, NEW len \in 1 .. MaxAccess, copy_to_user(p, s, s + len)
        PROVE  Inv' /\ Kept(p) /\ (~down' => LeavesKept(p))
    <2>1. len \in Nat
      BY <1>8
    <2> QED
      BY <1>8, <2>1, CopyToUserStep
  <1>9. ASSUME Halted PROVE Inv' /\ UNCHANGED vars
    <2>1. UNCHANGED vars
      BY <1>9 DEF Halted
    <2>2. Inv'
      BY <2>1 DEF vars, Inv, Control, Apart
    <2> QED
      BY <2>1, <2>2
  <1> QED
    BY <1>1, <1>2, <1>3, <1>4, <1>5, <1>6, <1>7, <1>8, <1>9 DEF Next

LEMMA InvStep == Inv /\ [Next]_vars => Inv'
  <1> SUFFICES ASSUME Inv, [Next]_vars PROVE Inv'
    OBVIOUS
  <1>1. CASE Next
    BY <1>1, NextFacts
  <1>2. CASE UNCHANGED vars
    BY <1>2 DEF vars, Inv, Control, Apart
  <1> QED
    BY <1>1, <1>2

(* The invariant holds in every state that the kernel can reach. *)
THEOREM InvCorrect == Spec => []Inv
  BY InitInv, InvStep, PTL DEF Spec

LEMMA InvVmaMapped == Inv => VmaMapped
  <1> SUFFICES ASSUME Inv, ~down, NEW p \in Procs, mm[p] # NULL, NEW l, l = mm[p].mmap_list
               PROVE  /\ \A i, j \in 1 .. Len(l) : i < j => l[i].end <= l[j].start
                      /\ \A v \in VPages :
                           LET pte == Pte(m, mm[p].pgdir, v)
                               in  == {i \in 1 .. Len(l) : Covers(l[i], v)}
                           IN  /\ pte # NULL => in # {}
                               /\ \A i \in in : /\ pte # NULL => (pte.w <=> l[i].flags # "R")
                                                /\ state[p] = "run" /\ l[i].flags # "STACK" => pte # NULL
    BY DEF VmaMapped
  <1>1. /\ SpaceOK(m, mm[p], state[p], todo[p]) /\ ListOK(l) /\ l \in Lists
        /\ Within(m, mm[p].pgdir, l)
    BY ProcFacts
  <1>2. \A i, j \in 1 .. Len(l) : i < j => l[i].end <= l[j].start
    BY <1>1 DEF ListOK
  <1>3. ASSUME NEW v \in VPages, NEW pte, pte = Pte(m, mm[p].pgdir, v)
        PROVE  /\ pte # NULL => \E i \in 1 .. Len(l) : Covers(l[i], v)
               /\ \A i \in 1 .. Len(l) : Covers(l[i], v) =>
                     /\ pte # NULL => (pte.w <=> l[i].flags # "R")
                     /\ state[p] = "run" /\ l[i].flags # "STACK" => pte # NULL
    <2>1. pte # NULL => \E i \in 1 .. Len(l) : Covers(l[i], v) /\ (pte.w <=> l[i].flags # "R")
      BY <1>1, <1>3 DEF Within
    <2>2. ASSUME NEW i \in 1 .. Len(l), NEW j \in 1 .. Len(l), Covers(l[i], v), Covers(l[j], v) PROVE i = j
      <3>1. l[i].start \in Nat /\ l[i].end \in Nat /\ l[j].start \in Nat /\ l[j].end \in Nat /\ v \in Nat
        <4>1. v \in Nat
          BY FanFacts, SMTT(30) DEF VPages
        <4> QED
          BY <1>1, <4>1, VmaFacts
      <3>2. Len(l) \in Nat
        BY <1>1 DEF Lists
      <3>3. ~(l[i].end <= l[j].start) /\ ~(l[j].end <= l[i].start)
        <4>1. PICK a, b, c, d : a = l[i].start /\ b = l[i].end /\ c = l[j].start /\ d = l[j].end
          OBVIOUS
        <4>2. a <= v /\ v < b /\ c <= v /\ v < d
          BY <2>2, <4>1 DEF Covers
        <4>3. a \in Nat /\ b \in Nat /\ c \in Nat /\ d \in Nat /\ v \in Nat
          BY <3>1, <4>1
        <4>4. ~(b <= c) /\ ~(d <= a)
          BY <4>2, <4>3
        <4> QED
          BY <4>1, <4>4
      <3>4. ~(i < j) /\ ~(j < i)
        BY <1>2, <3>3
      <3> QED
        BY <3>2, <3>4
    <2>3. ASSUME NEW i \in 1 .. Len(l), Covers(l[i], v), state[p] = "run", l[i].flags # "STACK" PROVE pte # NULL
      <3>1. v \in l[i].start .. l[i].end - 1
        BY <1>1, <2>3, VmaFacts
      <3>2. Full(m, mm[p].pgdir, l[i])
        BY <1>1, <2>3 DEF SpaceOK
      <3> QED
        BY <1>3, <3>1, <3>2 DEF Full
    <2> QED
      BY <2>1, <2>2, <2>3
  <1> QED
    BY <1>2, <1>3

(* insert_vma_struct, load_icode and dup_mmap: the vmas of a process are sorted
   and disjoint, they cover every page that is mapped, with its rights, and a
   program that runs has all pages of its segments. *)
THEOREM VmaMappedCorrect == Spec => []VmaMapped
  BY InvCorrect, InvVmaMapped, PTL

(* Sets of the same size. *)
LEMMA SameSize ==
    ASSUME NEW S, IsFiniteSet(S), NEW T, NEW f \in [S -> T],
           \A a, b \in S : f[a] = f[b] => a = b, \A t \in T : \E a \in S : f[a] = t
    PROVE  Cardinality(T) = Cardinality(S)
  <1>1. f \in Bijection(S, T)
    BY DEF Bijection, Injection, Surjection, IsInjective
  <1>2. ExistsBijection(S, T)
    BY <1>1 DEF ExistsBijection
  <1> QED
    BY <1>2, FS_Bijection

(* The tables of an address space are pages. *)
LEMMA TablesFacts ==
    ASSUME m \in Memories, NEW x \in AddressSpaces
    PROVE  Tables(x) \subseteq Pages
  <1>1. ASSUME NEW g \in Pages PROVE Below(g) \subseteq Pages
    <2>1. \A i \in 0 .. Fan - 1 : m.ent[g][i] # NULL => m.ent[g][i].pg \in Pages
      BY MemoryType DEF Idx
    <2> QED
      BY <2>1 DEF Below
  <1>2. x.pgdir \in Pages
    BY DEF AddressSpaces
  <1>3. Pd0s(x) \subseteq Pages
    BY <1>1, <1>2 DEF Pd0s
  <1> QED
    BY <1>1, <1>2, <1>3 DEF Tables

(* The valid entries. *)
LEMMA PointersFacts ==
    ASSUME Inv, ~down, NEW e \in Pointers
    PROVE  /\ e = <<e[1], e[2], e[3]>> /\ e[1] \in Pages /\ e[2] \in Idx /\ e[3] \in Pages
           /\ Points(m, e[1], e[2], e[3])
  <1>1. m \in Memories
    BY DEF Inv, Forest
  <1>2. \A x \in Spaces : x \in AddressSpaces
    BY DEF Inv, Control, Spaces
  <1>3. PICK t \in UNION {Tables(x) : x \in Spaces}, i \in 0 .. Fan - 1 :
            m.ent[t][i] # NULL /\ e = <<t, i, m.ent[t][i].pg>>
    BY DEF Pointers
  <1>4. t \in Pages
    BY <1>1, <1>2, <1>3, TablesFacts
  <1>5. m.ent[t][i].pg \in Pages
    BY <1>1, <1>3, <1>4, MemoryType DEF Idx
  <1> QED
    BY <1>3, <1>4, <1>5 DEF Points, Idx

LEMMA InvPagesOwned == Inv => PagesOwned
  <1> SUFFICES ASSUME Inv, ~down PROVE PagesOwned
    BY DEF PagesOwned
  <1>1. Control /\ Apart /\ Forest(m)
    BY DEF Inv
  <1>2. PICK dirs, ptrs, used, alive :
           /\ dirs = {x.pgdir : x \in Spaces} /\ ptrs = Pointers /\ used = {e[3] : e \in ptrs}
           /\ alive = {p \in Procs : mm[p] # NULL}
    OBVIOUS
  <1>3. \A g \in dirs : \E p \in alive : g = mm[p].pgdir
    BY <1>2 DEF Spaces
  <1>4. \A p \in alive : mm[p].pgdir \in dirs /\ Root(m, mm[p].pgdir)
    BY <1>2 DEF Spaces, Inv, SpaceOK
  <1>5. Cardinality(dirs) = Cardinality(alive)
    <2>1. PICK f : f = [p \in alive |-> mm[p].pgdir]
      OBVIOUS
    <2>2. f \in [alive -> dirs] /\ \A g \in dirs : \E p \in alive : f[p] = g
      BY <1>3, <1>4, <2>1
    <2>3. \A p, q \in alive : f[p] = f[q] => p = q
      BY <1>1, <1>2, <2>1 DEF Apart
    <2>4. IsFiniteSet(alive)
      BY <1>2, VmAssumption, FS_Subset
    <2> QED
      BY <2>2, <2>3, <2>4, SameSize
  <1>6. \A e \in ptrs : /\ e = <<e[1], e[2], e[3]>> /\ e[1] \in Pages /\ e[2] \in Idx /\ e[3] \in Pages
                        /\ Points(m, e[1], e[2], e[3])
    BY <1>2, PointersFacts
  <1>7. \A g \in used : \E e \in ptrs : e[3] = g
    BY <1>2
  <1>8. \A a, b \in ptrs : a[3] = b[3] => a = b
    BY <1>1, <1>6 DEF Forest
  <1>9. Cardinality(used) = Cardinality(ptrs)
    <2>1. PICK f : f = [g \in used |-> CHOOSE e \in ptrs : e[3] = g]
      OBVIOUS
    <2>2. \A g \in used : f[g] \in ptrs /\ f[g][3] = g
      BY <1>7, <2>1
    <2>3. f \in [used -> ptrs] /\ \A a, b \in used : f[a] = f[b] => a = b
      BY <2>1, <2>2
    <2>4. \A e \in ptrs : \E g \in used : f[g] = e
      <3>1. SUFFICES ASSUME NEW e \in ptrs PROVE \E g \in used : f[g] = e
        OBVIOUS
      <3>2. e[3] \in used
        BY <1>2
      <3> QED
        BY <1>8, <2>2, <3>2
    <2>5. used \subseteq Pages
      BY <1>6, <1>7
    <2>6. IsFiniteSet(used)
      <3>1. IsFiniteSet(Pages)
        BY PagesAssumption, FS_Interval DEF Pages
      <3> QED
        BY <2>5, <3>1, FS_Subset
    <2>7. Cardinality(ptrs) = Cardinality(used)
      BY <2>3, <2>4, <2>6, SameSize
    <2> QED
      BY <2>7
  <1>10. \A g \in used : g \in Pages /\ \E t \in Pages, i \in Idx : Points(m, t, i, g)
    BY <1>6, <1>7
  <1>11. dirs \cap used = {}
    BY <1>3, <1>4, <1>10 DEF Root
  <1>12. (dirs \cup used) \cap m.free = {} /\ \A g \in used : m.ref[g] = 1
    BY <1>1, <1>3, <1>4, <1>10 DEF Root, Forest
  <1> QED
    BY <1>2, <1>5, <1>9, <1>11, <1>12 DEF PagesOwned

(* page_insert, page_remove_pte and free_page under fork, exec and exit: no page
   has two uses, none is free while it has one, and page->ref counts the
   entries that point to it. *)
THEOREM PagesOwnedCorrect == Spec => []PagesOwned
  BY InvCorrect, InvPagesOwned, PTL

---------------------------------------------------------------------------
(* exit_mmap loses no page.                                                *)

(* A number below c * b with a given quotient and remainder. *)
LEMMA Combine ==
    ASSUME NEW c \in Nat, NEW b \in Nat \ {0}, NEW i \in 0 .. c - 1, NEW j \in 0 .. b - 1,
           NEW n, n = i * b + j
    PROVE  n \in Nat /\ n < c * b /\ n \div b = i /\ n % b = j
  <1>1. i * b \in Nat /\ (i + 1) * b <= c * b /\ (i + 1) * b = i * b + b
    <2>1. (i + 1) * b = i * b + b
      OBVIOUS
    <2>2. i \in Nat /\ i + 1 \in Nat /\ i + 1 <= c /\ b \in Nat
      OBVIOUS
    <2> QED
      BY <2>1, <2>2, Monotone
  <1>2. n \in Nat /\ n < c * b
    BY <1>1
  <1>3. PICK q, r : q = n \div b /\ r = n % b
    OBVIOUS
  <1>4. q \in Nat /\ r \in 0 .. b - 1 /\ n = q * b + r
    BY <1>2, <1>3, DivMod
  <1>5. ~(q >= i + 1)
    <2>1. SUFFICES ASSUME q >= i + 1 PROVE FALSE
      OBVIOUS
    <2>2. (i + 1) * b <= q * b /\ q * b \in Nat
      <3>1. i + 1 \in Nat /\ b \in Nat /\ i + 1 <= q
        BY <1>4, <2>1
      <3> QED
        BY <1>4, <3>1, Monotone
    <2> QED
      BY <1>1, <1>4, <2>2
  <1>6. ~(i >= q + 1)
    <2>1. SUFFICES ASSUME i >= q + 1 PROVE FALSE
      OBVIOUS
    <2>2. (q + 1) * b <= i * b /\ (q + 1) * b = q * b + b
      <3>1. q + 1 \in Nat /\ i \in Nat /\ b \in Nat /\ q + 1 <= i
        BY <1>4, <2>1
      <3>2. (q + 1) * b = q * b + b
        BY <1>4
      <3> QED
        BY <3>1, <3>2, Monotone
    <2>3. q * b \in Nat
      BY <1>4, Monotone
    <2> QED
      BY <1>1, <1>4, <2>2, <2>3
  <1>7. q = i
    BY <1>4, <1>5, <1>6
  <1> QED
    BY <1>1, <1>2, <1>3, <1>4, <1>7

LEMMA IndexOnto ==
    ASSUME NEW i \in Idx, NEW j \in Idx, NEW k \in Idx
    PROVE  \E v \in VPages : PDX1(v) = i /\ PDX0(v) = j /\ PTX(v) = k
  <1>1. PICK n : n = i * Fan + j
    OBVIOUS
  <1>2. n \in Nat /\ n < Fan * Fan /\ n \div Fan = i /\ n % Fan = j
    BY <1>1, FanFacts, Combine DEF Idx
  <1>3. PICK v, c : v = n * Fan + k /\ c = Fan * Fan
    OBVIOUS
  <1>4. c \in Nat /\ n \in 0 .. c - 1
    BY <1>2, <1>3, FanFacts
  <1>5. v \in Nat /\ v < c * Fan /\ v \div Fan = n /\ v % Fan = k
    BY <1>3, <1>4, FanFacts, Combine DEF Idx
  <1>6. v \in VPages
    BY <1>3, <1>5, FanFacts DEF VPages
  <1> QED
    BY <1>2, <1>5, <1>6 DEF PDX1, PDX0, PTX

(* Below and Leaves in a memory s. *)
BelowIn(s, g) == {s.ent[g][i].pg : i \in {j \in 0 .. Fan - 1 : s.ent[g][j] # NULL}}
LeavesIn(s, d) == UNION {BelowIn(s, t) : t \in UNION {BelowIn(s, g) : g \in BelowIn(s, d)}}

LEMMA BelowFacts ==
    ASSUME NEW s \in Memories, NEW t \in Pages
    PROVE  \A g : g \in BelowIn(s, t) <=> g \in Pages /\ \E i \in Idx : Points(s, t, i, g)
  <1>1. \A i \in Idx : s.ent[t][i] # NULL => s.ent[t][i].pg \in Pages
    BY MemoryType
  <1> QED
    BY <1>1 DEF BelowIn, Points, Idx

(* The leaves of an address space are the pages that it maps. *)
LEMMA LeavesFacts ==
    ASSUME NEW s \in Memories, NEW d \in Pages, NEW g
    PROVE  g \in LeavesIn(s, d) <=> \E v \in VPages : Pte(s, d, v) # NULL /\ Pte(s, d, v).pg = g
  <1>1. ASSUME g \in LeavesIn(s, d) PROVE \E v \in VPages : Pte(s, d, v) # NULL /\ Pte(s, d, v).pg = g
    <2>1. PICK b \in BelowIn(s, d) : \E t \in BelowIn(s, b) : g \in BelowIn(s, t)
      BY <1>1 DEF LeavesIn
    <2>2. PICK t \in BelowIn(s, b) : g \in BelowIn(s, t)
      BY <2>1
    <2>3. b \in Pages /\ \E i \in Idx : Points(s, d, i, b)
      BY BelowFacts
    <2>4. t \in Pages /\ \E i \in Idx : Points(s, b, i, t)
      BY <2>3, BelowFacts
    <2>5. g \in Pages /\ \E i \in Idx : Points(s, t, i, g)
      BY <2>2, <2>4, BelowFacts
    <2>6. PICK i \in Idx, j \in Idx, k \in Idx : Points(s, d, i, b) /\ Points(s, b, j, t) /\ Points(s, t, k, g)
      BY <2>3, <2>4, <2>5
    <2>7. PICK v \in VPages : PDX1(v) = i /\ PDX0(v) = j /\ PTX(v) = k
      BY IndexOnto
    <2>8. TableOf(s, d, v) = t
      BY <2>3, <2>4, <2>6, <2>7, WalkFacts
    <2>9. t # NULL
      BY <2>4, PagesAssumption DEF Pages
    <2>10. Pte(s, d, v) = s.ent[t][k]
      BY <2>7, <2>8, <2>9, WalkFacts
    <2> QED
      BY <2>6, <2>10 DEF Points
  <1>2. ASSUME NEW v \in VPages, Pte(s, d, v) # NULL, Pte(s, d, v).pg = g PROVE g \in LeavesIn(s, d)
    <2>1. PICK t : t = TableOf(s, d, v)
      OBVIOUS
    <2>2. t \in Pages /\ g \in Pages /\ Points(s, t, PTX(v), g)
      BY <1>2, <2>1, WalkFacts
    <2>3. PICK b \in Pages : Points(s, d, PDX1(v), b) /\ Points(s, b, PDX0(v), t)
      BY <1>2, <2>1, WalkFacts
    <2>4. PDX1(v) \in Idx /\ PDX0(v) \in Idx /\ PTX(v) \in Idx
      BY IndexFacts
    <2>5. b \in BelowIn(s, d)
      BY <2>3, <2>4, BelowFacts
    <2>6. t \in BelowIn(s, b)
      BY <2>2, <2>3, <2>4, BelowFacts
    <2>7. g \in BelowIn(s, t)
      BY <2>2, <2>4, BelowFacts
    <2> QED
      BY <2>5, <2>6, <2>7 DEF LeavesIn
  <1> QED
    BY <1>1, <1>2

(* A kernel that is down does nothing any more. *)
LEMMA DownStays == down /\ Next => UNCHANGED vars
  BY DEF Next, Halted, do_fork, do_exit, do_execve, load_icode, load_icode_no_pgdir, load_map, load_page,
         load_fails, load_stack, store, copy_to_user, Runs, Loading

LEMMA LeavesStep ==
    ASSUME Inv, Next, Inv', ~down', NEW q \in Procs, mm[q] # NULL, NEW g \in LeavesIn(m, mm[q].pgdir)
    PROVE  g \in m'.free \/ \E o \in Procs : mm'[o] # NULL /\ g \in LeavesIn(m', mm'[o].pgdir)
  <1>1. CASE UNCHANGED vars
    BY <1>1 DEF vars
  <1>2. CASE ~UNCHANGED vars
    <2>1. ~down
      BY <1>2, DownStays
    <2>2. PICK p \in Procs : Kept(p) /\ LeavesKept(p)
      BY <1>2, NextFacts
    <2>3. m \in Memories /\ mm[q].pgdir \in Pages
      BY <2>1, ProcFacts
    <2>4. PICK v \in VPages : Pte(m, mm[q].pgdir, v) # NULL /\ Pte(m, mm[q].pgdir, v).pg = g
      BY <2>3, LeavesFacts
    <2>5. \/ g \in m'.free
          \/ /\ mm'[q] # NULL /\ Pte(m', mm'[q].pgdir, v) # NULL
             /\ Pte(m', mm'[q].pgdir, v).pg = g
      <3>1. CASE q = p
        BY <2>2, <2>4, <3>1 DEF LeavesKept
      <3>2. CASE q # p
        <4>1. mm'[q] = mm[q] /\ SameAt(m, m', mm[q].pgdir, v)
          BY <2>2, <3>2 DEF Kept, Others
        <4> QED
          BY <2>4, <4>1 DEF SameAt
      <3> QED
        BY <3>1, <3>2
    <2>6. m' \in Memories
      BY DEF Inv, Forest
    <2>7. mm'[q] # NULL => mm'[q].pgdir \in Pages
      <3>1. mm'[q] # NULL => mm'[q] \in AddressSpaces
        BY DEF Inv, Control
      <3> QED
        BY <3>1 DEF AddressSpaces
    <2>8. CASE mm'[q] # NULL /\ Pte(m', mm'[q].pgdir, v) # NULL /\ Pte(m', mm'[q].pgdir, v).pg = g
      BY <2>6, <2>7, <2>8, LeavesFacts
    <2> QED
      BY <2>5, <2>8
  <1> QED
    BY <1>1, <1>2

(* exit_mmap, exit_range, dup_mmap and load_icode: a page that a process had
   mapped is still mapped or free again, so that no step of the kernel loses
   a page of a process. *)
THEOREM LeavesFreedCorrect == Spec => LeavesFreed
  <1>1. ASSUME Inv, Inv', Next, ~down', NEW x \in Spaces, NEW g \in Leaves(x)
        PROVE  g \in m'.free \/ \E x2 \in Spaces' : g \in Leaves(x2)'
    <2>1. PICK q \in Procs : x = mm[q] /\ mm[q] # NULL
      BY <1>1 DEF Spaces
    <2>2. g \in LeavesIn(m, mm[q].pgdir)
      BY <1>1, <2>1 DEF Leaves, Pd0s, Below, LeavesIn, BelowIn
    <2>3. g \in m'.free \/ \E o \in Procs : mm'[o] # NULL /\ g \in LeavesIn(m', mm'[o].pgdir)
      BY <1>1, <2>1, <2>2, LeavesStep
    <2>4. ASSUME NEW o \in Procs, mm'[o] # NULL, g \in LeavesIn(m', mm'[o].pgdir)
          PROVE  \E x2 \in Spaces' : g \in Leaves(x2)'
      <3>1. PICK x2 : x2 = mm'[o]
        OBVIOUS
      <3>2. x2 \in Spaces'
        BY <2>4, <3>1 DEF Spaces
      <3>3. g \in Leaves(x2)'
        BY <2>4, <3>1 DEF Leaves, Pd0s, Below, LeavesIn, BelowIn
      <3> QED
        BY <3>2, <3>3
    <2> QED
      BY <2>3, <2>4
  <1>2. Inv /\ Inv' /\ [Next]_vars =>
           [~down' => \A x \in Spaces : \A g \in Leaves(x) :
                         g \in m'.free \/ \E x2 \in Spaces' : g \in Leaves(x2)']_vars
    BY <1>1
  <1> QED
    BY <1>2, InvCorrect, PTL DEF Spec, LeavesFreed

---------------------------------------------------------------------------
(* Every process has a memory of its own.                                  *)

(* What a process in the state st with the memory x sees when the physical
   memory is s. *)
SeenAt(s, x, v) ==
    IF Pte(s, x.pgdir, v) = NULL THEN NULL
    ELSE [val |-> s.data[Pte(s, x.pgdir, v).pg], w |-> Pte(s, x.pgdir, v).w]
SeenIn(s, st, x) == IF st # "run" THEN [v \in VPages |-> NULL] ELSE [v \in VPages |-> SeenAt(s, x, v)]

LEMMA SeenFacts ==
    /\ \A p \in Procs : Seen(p) = SeenIn(m, state[p], mm[p])
    /\ [p \in Procs |-> Seen(p)] = [p \in Procs |-> SeenIn(m, state[p], mm[p])]
    /\ [p \in Procs |-> Seen(p)]' = [p \in Procs |-> SeenIn(m', state'[p], mm'[p])]
  BY DEF Seen, SeenIn, SeenAt

(* The others see what they saw. *)
LEMMA SeenKept ==
    ASSUME Inv, ~down, NEW p \in Procs, Kept(p), NEW q \in Procs \ {p}
    PROVE  SeenIn(m', state'[q], mm'[q]) = SeenIn(m, state[q], mm[q]) /\ state'[q] = state[q]
  <1>1. mm'[q] = mm[q] /\ state'[q] = state[q]
    BY DEF Kept, Others
  <1>2. CASE state[q] # "run"
    BY <1>1, <1>2 DEF SeenIn
  <1>3. CASE state[q] = "run"
    <2>1. mm[q] # NULL
      BY <1>3 DEF Inv, Control
    <2>2. ASSUME NEW v \in VPages PROVE SeenAt(m', mm[q], v) = SeenAt(m, mm[q], v)
      <3>1. SameAt(m, m', mm[q].pgdir, v)
        BY <2>1 DEF Kept
      <3> QED
        BY <3>1 DEF SameAt, SeenAt
    <2> QED
      BY <1>1, <1>3, <2>2 DEF SeenIn
  <1> QED
    BY <1>1, <1>2, <1>3

LEMMA BecomesFacts ==
    ASSUME Inv, ~down, NEW p \in Procs, Kept(p), NEW new, new = SeenIn(m', state'[p], mm'[p])
    PROVE  Abstract!Becomes(p, new)
  <1>1. PICK a : a = [q \in Procs |-> SeenIn(m, state[q], mm[q])]
    OBVIOUS
  <1>2. PICK b : b = [q \in Procs |-> SeenIn(m', state'[q], mm'[q])]
    OBVIOUS
  <1>3. \A q \in Procs : b[q] = IF q = p THEN new ELSE a[q]
    BY <1>1, <1>2, SeenKept
  <1>4. b = [a EXCEPT ![p] = new]
    BY <1>1, <1>2, <1>3
  <1> QED
    BY <1>1, <1>2, <1>4, SeenFacts DEF Abstract!Becomes

(* Which processes exist. *)
LEMMA LiveFacts ==
    ASSUME Inv, ~down, NEW p \in Procs, Kept(p)
    PROVE  /\ (state'[p] # "none" <=> state[p] # "none") =>
                 UNCHANGED {q \in Procs : state[q] # "none"}
           /\ state'[p] = "none" =>
                 {q \in Procs : state[q] # "none"}' = {q \in Procs : state[q] # "none"} \ {p}
           /\ state'[p] # "none" =>
                 {q \in Procs : state[q] # "none"}' = {q \in Procs : state[q] # "none"} \cup {p}
  <1>1. \A q \in Procs \ {p} : state'[q] = state[q]
    BY DEF Kept, Others
  <1> QED
    BY <1>1

(* A process that does not run sees nothing: exec, or the program is loaded. *)
LEMMA AbsExec ==
    ASSUME Inv, ~down, NEW p \in Procs, Kept(p), state[p] # "none", state'[p] \notin {"none", "run"}
    PROVE  Abstract!Exec(p)
  <1>1. SeenIn(m', state'[p], mm'[p]) = Abstract!Nothing
    BY DEF SeenIn, Abstract!Nothing
  <1>2. Abstract!Becomes(p, Abstract!Nothing)
    BY <1>1, BecomesFacts
  <1>3. UNCHANGED {q \in Procs : state[q] # "none"}
    BY LiveFacts
  <1> QED
    BY <1>2, <1>3 DEF Abstract!Exec

LEMMA AbsExit ==
    ASSUME Inv, ~down, NEW p \in Procs, Kept(p), state[p] # "none", state'[p] = "none"
    PROVE  Abstract!Exit(p)
  <1>1. SeenIn(m', state'[p], mm'[p]) = Abstract!Nothing
    BY DEF SeenIn, Abstract!Nothing
  <1>2. Abstract!Becomes(p, Abstract!Nothing)
    BY <1>1, BecomesFacts
  <1>3. {q \in Procs : state[q] # "none"}' = {q \in Procs : state[q] # "none"} \ {p}
    BY LiveFacts
  <1> QED
    BY <1>2, <1>3 DEF Abstract!Exit

(* The program runs: it sees something, whatever it is. *)
LEMMA AbsLoad ==
    ASSUME Inv, ~down, NEW p \in Procs, Kept(p), state[p] \notin {"none", "run"}, state'[p] = "run",
           m' \in Memories, mm'[p] \in AddressSpaces
    PROVE  Abstract!Load(p)
  <1>1. PICK new : new = SeenIn(m', state'[p], mm'[p])
    OBVIOUS
  <1>2. Abstract!Becomes(p, new)
    BY <1>1, BecomesFacts
  <1>3. UNCHANGED {q \in Procs : state[q] # "none"}
    BY LiveFacts
  <1>4. [q \in Procs |-> Seen(q)]'[p] = new
    BY <1>1, SeenFacts
  <1>5. [q \in Procs |-> Seen(q)][p] = Abstract!Nothing
    BY DEF Seen, Abstract!Nothing
  <1>6. new \in Abstract!Spaces
    <2>1. ASSUME NEW v \in VPages PROVE SeenAt(m', mm'[p], v) \in [val : Values, w : BOOLEAN] \cup {NULL}
      <3>1. mm'[p].pgdir \in Pages
        BY DEF AddressSpaces
      <3>2. PICK e : e = Pte(m', mm'[p].pgdir, v)
        OBVIOUS
      <3>3. e \in Entries \cup {NULL}
        BY <3>1, <3>2, WalkFacts
      <3>4. e # NULL => e.pg \in Pages /\ e.w \in BOOLEAN
        BY <3>3 DEF Entries
      <3>5. \A g \in Pages : m'.data[g] \in Values
        BY DEF Memories
      <3> QED
        BY <3>2, <3>4, <3>5 DEF SeenAt
    <2> QED
      BY <1>1, <2>1 DEF SeenIn, Abstract!Spaces
  <1> QED
    BY <1>2, <1>3, <1>4, <1>5, <1>6 DEF Abstract!Load

LEMMA AbsStore ==
    ASSUME Inv, ~down, NEW p \in Procs, Kept(p), Stored(p), state[p] = "run", UNCHANGED <<mm, state>>
    PROVE  Abstract!Store(p)
  <1>1. PICK new : new = SeenIn(m', state'[p], mm'[p])
    OBVIOUS
  <1>2. Abstract!Becomes(p, new)
    BY <1>1, BecomesFacts
  <1>3. UNCHANGED {q \in Procs : state[q] # "none"}
    BY LiveFacts
  <1>4. [q \in Procs |-> Seen(q)]'[p] = new
    BY <1>1, SeenFacts
  <1>5. PICK old : old = SeenIn(m, state[p], mm[p])
    OBVIOUS
  <1>6. [q \in Procs |-> Seen(q)][p] = old
    BY <1>5, SeenFacts
  <1>7. ASSUME NEW v \in VPages
        PROVE  \/ new[v] = old[v]
               \/ old[v] # NULL /\ old[v].w /\ \E x \in Values : new[v] = [val |-> x, w |-> TRUE]
    <2>1. new[v] = SeenAt(m', mm[p], v) /\ old[v] = SeenAt(m, mm[p], v)
      BY <1>1, <1>5 DEF SeenIn
    <2>2. PICK e : e = Pte(m, mm[p].pgdir, v)
      OBVIOUS
    <2>3. /\ Pte(m', mm[p].pgdir, v) = e
          /\ e # NULL => m'.data[e.pg] = m.data[e.pg] \/ (e.w /\ m'.data[e.pg] \in Values)
      BY <2>2 DEF Stored
    <2>4. CASE e = NULL \/ m'.data[e.pg] = m.data[e.pg]
      BY <2>1, <2>2, <2>3, <2>4 DEF SeenAt
    <2>5. CASE e # NULL /\ e.w /\ m'.data[e.pg] \in Values
      <3>1. mm[p] # NULL
        BY DEF Inv, Control
      <3>2. m \in Memories /\ mm[p].pgdir \in Pages
        BY <3>1, ProcFacts
      <3>3. e \in Entries
        BY <2>2, <2>5, <3>2, WalkFacts
      <3>4. e.w = TRUE /\ e.pg \in Pages
        BY <2>5, <3>3 DEF Entries
      <3>5. old[v] = [val |-> m.data[e.pg], w |-> TRUE] /\ new[v] = [val |-> m'.data[e.pg], w |-> TRUE]
        BY <2>1, <2>2, <2>3, <2>5, <3>4 DEF SeenAt
      <3>6. m.data[e.pg] \in Values
        BY <3>2, <3>4 DEF Memories
      <3>7. old[v] # NULL
        <4>1. old[v] \in [val : Values, w : BOOLEAN]
          BY <3>5, <3>6
        <4> QED
          BY <4>1, VmAssumption
      <3>8. old[v].w
        BY <3>5
      <3>9. \E x \in Values : new[v] = [val |-> x, w |-> TRUE]
        BY <2>5, <3>5
      <3> QED
        BY <3>7, <3>8, <3>9
    <2> QED
      BY <2>3, <2>4, <2>5
  <1>8. p \in {q \in Procs : state[q] # "none"}
    OBVIOUS
  <1> QED
    BY <1>2, <1>3, <1>4, <1>6, <1>7, <1>8 DEF Abstract!Store

LEMMA AbsFork ==
    ASSUME Inv, ~down, NEW p \in Procs, NEW q \in Procs, Kept(q), state[p] = "run", state[q] = "none", Forked(p, q)
    PROVE  Abstract!Fork(p, q)
  <1>1. PICK new : new = SeenIn(m', state'[q], mm'[q])
    OBVIOUS
  <1>2. Abstract!Becomes(q, new)
    BY <1>1, BecomesFacts
  <1>3. state'[q] = "run"
    BY DEF Inv, Control, Forked
  <1>4. {o \in Procs : state[o] # "none"}' = {o \in Procs : state[o] # "none"} \cup {q}
    BY <1>3, LiveFacts
  <1>5. PICK old : old = SeenIn(m, state[p], mm[p])
    OBVIOUS
  <1>6. [o \in Procs |-> Seen(o)][p] = old
    BY <1>5, SeenFacts
  <1>7. new = old
    <2>1. ASSUME NEW v \in VPages PROVE SeenAt(m', mm'[q], v) = SeenAt(m, mm[p], v)
      <3>1. CopyOf(m, mm[p].pgdir, m', mm'[q].pgdir, v)
        BY DEF Forked
      <3> QED
        BY <3>1 DEF CopyOf, SeenAt
    <2> QED
      BY <1>1, <1>3, <1>5, <2>1 DEF SeenIn
  <1> QED
    BY <1>2, <1>4, <1>6, <1>7 DEF Abstract!Fork

(* Nobody sees a difference. *)
LEMMA AbsStutter ==
    ASSUME Inv, ~down, NEW p \in Procs, Kept(p), state[p] = "none", state'[p] = "none"
    PROVE  UNCHANGED Abstract!avars
  <1>1. \A q \in Procs : SeenIn(m', state'[q], mm'[q]) = SeenIn(m, state[q], mm[q])
    BY SeenKept DEF SeenIn
  <1>2. UNCHANGED {q \in Procs : state[q] # "none"}
    BY LiveFacts
  <1>3. UNCHANGED [q \in Procs |-> Seen(q)]
    BY <1>1, SeenFacts
  <1> QED
    BY <1>2, <1>3 DEF Abstract!avars

LEMMA AbsNext ==
    ASSUME Inv, Next
    PROVE  Abstract!Next \/ UNCHANGED Abstract!avars
  <1>0. CASE UNCHANGED vars
    BY <1>0 DEF vars, Abstract!avars, Seen
  <1>1. ASSUME NEW p \in Procs, NEW q \in Procs, do_fork(p, q) PROVE Abstract!Next \/ UNCHANGED Abstract!avars
    <2>1. /\ Kept(q) /\ (UNCHANGED state \/ (Forked(p, q) /\ mm'[q] # NULL))
          /\ ~down /\ state[p] = "run" /\ state[q] = "none"
      BY <1>1, DoForkStep
    <2>2. CASE UNCHANGED state
      BY <2>1, <2>2, AbsStutter
    <2>3. CASE Forked(p, q)
      BY <2>1, <2>3, AbsFork DEF Abstract!Next
    <2> QED
      BY <2>1, <2>2, <2>3
  <1>2. ASSUME ~down, NEW p \in Procs, Kept(p), state[p] # "none", state'[p] # "run" PROVE Abstract!Next
    <2>1. Abstract!Exit(p) \/ Abstract!Exec(p)
      BY <1>2, AbsExit, AbsExec
    <2> QED
      BY <2>1 DEF Abstract!Next
  <1>3. ASSUME NEW p \in Procs,
               \/ do_exit(p) \/ do_execve(p) \/ load_icode_no_pgdir(p) \/ load_fails(p)
               \/ load_map(p) \/ load_page(p) \/ \E prog \in Programs : load_icode(p, prog)
        PROVE  Abstract!Next
    <2>1. Kept(p)
      BY <1>3, DoExitStep, DoExecveStep, NoPgdirStep, LoadFailsStep, LoadMapStep, LoadPageStep, LoadIcodeStep
    <2>2. ~down /\ state[p] # "none"
      BY <1>3 DEF do_exit, do_execve, load_icode_no_pgdir, load_fails, load_map, load_page, load_icode, Runs, Loading
    <2>3. state \in [Procs -> {"none", "run", "load", "exec"}]
      BY <2>2 DEF Inv, Control
    <2>4. state'[p] # "run"
      <3>1. ASSUME NEW s, Ends(p, s) PROVE state'[p] # "run"
        BY <2>3, <3>1 DEF Ends
      <3>2. CASE do_exit(p) \/ load_icode_no_pgdir(p) \/ load_fails(p)
        BY <3>1, <3>2 DEF do_exit, load_icode_no_pgdir, load_fails
      <3>3. CASE do_execve(p) \/ \E prog \in Programs : load_icode(p, prog)
        BY <2>3, <3>3 DEF do_execve, load_icode
      <3>4. CASE load_map(p)
        BY <3>4 DEF load_map, Loading
      <3>5. CASE load_page(p)
        <4>1. state[p] = "load" /\ (state' = state \/ \E s : Ends(p, s))
          BY <3>5 DEF load_page, Loading
        <4> QED
          BY <3>1, <4>1
      <3> QED
        BY <1>3, <3>2, <3>3, <3>4, <3>5
    <2> QED
      BY <1>2, <2>1, <2>2, <2>4
  <1>4. ASSUME NEW p \in Procs, load_stack(p) PROVE Abstract!Next
    <2>1. Kept(p) /\ m' \in Memories /\ mm'[p] \in AddressSpaces
      BY <1>4, LoadStackStep
    <2>2. ~down /\ state[p] = "load" /\ state' = [state EXCEPT ![p] = "run"]
      BY <1>4 DEF load_stack
    <2>3. state'[p] = "run"
      BY <2>2 DEF Inv, Control
    <2>4. Abstract!Load(p)
      BY <2>1, <2>2, <2>3, AbsLoad
    <2> QED
      BY <2>4 DEF Abstract!Next
  <1>5. ASSUME NEW p \in Procs,
               \/ \E v \in VPages, val \in Values : store(p, v, val)
               \/ \E s \in VPages, len \in 1 .. MaxAccess : copy_to_user(p, s, s + len)
        PROVE  Abstract!Next
    <2>1. ~down /\ state[p] = "run" /\ UNCHANGED <<mm, state>>
      BY <1>5 DEF store, copy_to_user, Runs
    <2>2. Kept(p) /\ Stored(p)
      <3>1. ASSUME NEW s \in VPages, NEW len \in 1 .. MaxAccess, copy_to_user(p, s, s + len)
            PROVE  Kept(p) /\ Stored(p)
        <4>1. len \in Nat
          BY <3>1
        <4> QED
          BY <3>1, <4>1, CopyToUserStep
      <3> QED
        BY <1>5, <3>1, StoreStep
    <2>3. Abstract!Store(p)
      BY <2>1, <2>2, AbsStore
    <2> QED
      BY <2>3 DEF Abstract!Next
  <1> QED
    BY <1>0, <1>1, <1>3, <1>4, <1>5 DEF Next, Halted

(* The kernel gives every process a memory of its own: Vm implements
   AddrSpaces. *)
THEOREM MemorySpecCorrect == Spec => MemorySpec
  <1>1. Init => Abstract!Init
    <2> SUFFICES ASSUME Init PROVE Abstract!Init
      OBVIOUS
    <2>1. \A p \in Procs : state[p] # "run"
      BY DEF Init
    <2>2. [p \in Procs |-> Seen(p)] = [p \in Procs |-> Abstract!Nothing]
      BY <2>1 DEF Seen, Abstract!Nothing
    <2> QED
      BY <2>2 DEF Abstract!Init
  <1>2. Inv /\ [Next]_vars => [Abstract!Next]_(Abstract!avars)
    <2> SUFFICES ASSUME Inv, [Next]_vars PROVE Abstract!Next \/ UNCHANGED Abstract!avars
      OBVIOUS
    <2>1. CASE Next
      BY <2>1, AbsNext
    <2>2. CASE UNCHANGED vars
      BY <2>2 DEF vars, Abstract!avars, Seen
    <2> QED
      BY <2>1, <2>2
  <1> QED
    BY <1>1, <1>2, InvCorrect, PTL DEF Spec, MemorySpec, Abstract!Spec

=============================================================================
