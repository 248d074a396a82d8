--------------------------- MODULE FirstFitProofs ---------------------------
(***************************************************************************)
(* The free list of the page allocators, for any number of pages: as long  *)
(* as no block is added at the end by default_pmm.c, every call leaves a   *)
(* list of separate blocks in the order of their addresses, and the        *)
(* allocators implement PageAlloc.                                         *)
(***************************************************************************)
EXTENDS FirstFit, FiniteSetTheorems, WellFoundedInduction, TLAPS

(* The links lead through the pages of B in ascending order, and back. *)
Linked(nx, pv, B) ==
    \A e \in B \cup {free_list} :
       /\ nx[e] \in B \cup {free_list} /\ pv[e] \in B \cup {free_list}
       /\ pv[nx[e]] = e /\ nx[pv[e]] = e
       /\ nx[e] # free_list => e < nx[e]
       /\ \A b \in B : e < b => nx[e] # free_list /\ nx[e] <= b

(* Blocks begin at the pages of B; size[b] is their number of pages. *)
Apart(size, B) ==
    /\ \A b \in B : size[b] > 0 /\ b + size[b] <= NPages
    /\ \A b, c \in B : b < c => b + size[b] <= c
Gaps(size, B) == \A b, c \in B : b < c => b + size[b] < c
Space(size, B) == UNION {Extent(b, size[b]) : b \in B}

---------------------------------------------------------------------------
(* Numbers.                                                                *)

(* Every non-empty set of naturals has a least element. *)
LEMMA LeastNat ==
    ASSUME NEW T \in SUBSET Nat, T # {}
    PROVE  \E x \in T : \A y \in T : x <= y
  <1>1. PICK x \in T : \A y \in T : ~(<<y, x>> \in OpToRel(<, Nat))
    BY NatLessThanWellFounded, WFMin
  <1>2. ASSUME NEW y \in T PROVE ~(y < x)
    BY <1>1, <1>2 DEF OpToRel
  <1> QED
    BY <1>2

(* Every bounded one has a greatest. *)
LEMMA GreatestNat ==
    ASSUME NEW n \in Nat, NEW T \in SUBSET (0 .. n), T # {}
    PROVE  \E x \in T : \A y \in T : y <= x
  <1> DEFINE U == {n - x : x \in T}
  <1>1. U \in SUBSET Nat /\ U # {}
    <2>1. PICK x \in T : TRUE
      OBVIOUS
    <2>2. n - x \in U
      BY <2>1
    <2>3. ASSUME NEW u \in U PROVE u \in Nat
      <3>1. PICK y \in T : u = n - y
        OBVIOUS
      <3>2. y \in 0 .. n
        OBVIOUS
      <3> QED
        BY <3>1, <3>2
    <2> QED
      BY <2>2, <2>3
  <1>2. PICK u \in U : \A y \in U : u <= y
    BY <1>1, LeastNat
  <1>3. PICK x \in T : u = n - x
    BY <1>2
  <1>4. ASSUME NEW y \in T PROVE y <= x
    <2>1. u <= n - y
      BY <1>2
    <2> QED
      BY <1>3, <2>1
  <1> QED
    BY <1>4

(* g is what n applications of h to a yield. *)
Iterates(g, h, a, S, n) == g \in [0 .. n -> S] /\ g[0] = a /\ \A i \in 1 .. n : g[i] = h[g[i - 1]]

(* A function can be applied n times. *)
LEMMA IterateExists ==
    ASSUME NEW n \in Nat, NEW S, NEW a \in S, NEW h \in [S -> S]
    PROVE  \E g : Iterates(g, h, a, S, n)
  <1> DEFINE Ok(m) == \E g \in [0 .. m -> S] : g[0] = a /\ \A i \in 1 .. m : g[i] = h[g[i - 1]]
             Bad == {m \in 0 .. n : ~Ok(m)}
  <1>1. SUFFICES ASSUME Bad # {} PROVE FALSE
    <2>1. ASSUME Bad = {} PROVE \E g : Iterates(g, h, a, S, n)
      <3>1. n \in 0 .. n
        OBVIOUS
      <3>2. Ok(n)
        BY <2>1, <3>1, Zenon
      <3> QED
        BY <3>2, Zenon DEF Iterates
    <2> QED
      BY <2>1
  <1>2. Bad \in SUBSET Nat
    OBVIOUS
  <1>3. PICK m \in Bad : \A y \in Bad : m <= y
    BY <1>1, <1>2, LeastNat
  <1>4. m # 0
    <2> DEFINE g == [j \in 0 .. 0 |-> a]
    <2>1. g \in [0 .. 0 -> S] /\ g[0] = a /\ \A i \in 1 .. 0 : g[i] = h[g[i - 1]]
      OBVIOUS
    <2>2. Ok(0)
      BY <2>1, Zenon
    <2> QED
      BY <2>2, <1>3
  <1>5. m \in 1 .. n /\ m - 1 \in 0 .. n /\ Ok(m - 1)
    <2>1. m \in 0 .. n /\ ~(m <= m - 1)
      BY <1>3
    <2>2. m - 1 \notin Bad
      BY <1>3, <2>1, Zenon
    <2> QED
      BY <1>4, <2>1, <2>2
  <1>6. PICK g \in [0 .. m - 1 -> S] : g[0] = a /\ \A i \in 1 .. m - 1 : g[i] = h[g[i - 1]]
    BY <1>5, Zenon
  <1> DEFINE k == [j \in 0 .. m |-> IF j = m THEN h[g[m - 1]] ELSE g[j]]
  <1>7. g[m - 1] \in S /\ k \in [0 .. m -> S] /\ k[0] = a
    BY <1>5, <1>6
  <1>8. ASSUME NEW i \in 1 .. m PROVE k[i] = h[k[i - 1]]
    <2>1. CASE i = m
      BY <1>5, <2>1
    <2>2. CASE i # m
      <3>1. i \in 1 .. m - 1 /\ i \in 0 .. m /\ i - 1 \in 0 .. m /\ i - 1 # m
        BY <1>5, <2>2
      <3> QED
        BY <1>6, <2>2, <3>1
    <2> QED
      BY <2>1, <2>2
  <1> HIDE DEF k
  <1>9. Ok(m)
    BY <1>7, <1>8, Zenon
  <1> QED
    BY <1>9, <1>3, Zenon

(* A function over 1 .. n is a sequence of length n. *)
LEMMA SeqOfFunction ==
    ASSUME NEW n \in Nat, NEW S, NEW c \in [1 .. n -> S]
    PROVE  c \in Seq(S) /\ Len(c) = n
  OBVIOUS

---------------------------------------------------------------------------
(* The operations on the links.                                            *)

LEMMA LinkTypes ==
    /\ NPages \in Nat \ {0} /\ free_list = -1 /\ free_list \in Links /\ Pages \subseteq Links
    /\ \A p \in Pages : p \in Nat /\ p # free_list /\ free_list < p
    /\ \A e \in Links : e \in Int /\ (e # free_list => e \in Pages)
    /\ Links \subseteq Int
  BY FirstFitAssumption DEF Links, Pages, free_list

(* A page between two neighbours. *)
LEMMA InsertLinked ==
    ASSUME NEW nx \in [Links -> Links], NEW pv \in [Links -> Links], NEW B \in SUBSET Pages,
           Linked(nx, pv, B), NEW x \in Pages, x \notin B, NEW a \in B \cup {free_list}, a < x,
           NEW c, c = nx[a], c = free_list \/ x < c,
           NEW mx, mx = [[nx EXCEPT ![a] = x] EXCEPT ![x] = c],
           NEW mv, mv = [[pv EXCEPT ![c] = x] EXCEPT ![x] = a]
    PROVE  mx \in [Links -> Links] /\ mv \in [Links -> Links] /\ Linked(mx, mv, B \cup {x})
  <1>1. /\ a \in Links /\ c \in Links /\ x \in Links /\ a # x /\ c # x /\ x # free_list
        /\ c \in B \cup {free_list} /\ a \in Int /\ c \in Int /\ x \in Int
    BY LinkTypes DEF Linked
  <1>2. mx \in [Links -> Links] /\ mv \in [Links -> Links]
    BY <1>1
  <1>3. /\ \A e \in Links : mx[e] = IF e = x THEN c ELSE IF e = a THEN x ELSE nx[e]
        /\ \A e \in Links : mv[e] = IF e = x THEN a ELSE IF e = c THEN x ELSE pv[e]
    BY <1>1
  <1>4. ASSUME NEW e \in B \cup {free_list}
        PROVE  /\ e \in Links /\ e \in Int /\ e # x
               /\ nx[e] \in B \cup {free_list} /\ pv[e] \in B \cup {free_list}
               /\ pv[nx[e]] = e /\ nx[pv[e]] = e
               /\ nx[e] # free_list => e < nx[e]
               /\ \A b \in B : e < b => nx[e] # free_list /\ nx[e] <= b
    BY LinkTypes, <1>1 DEF Linked
  <1>5. pv[c] = a
    BY <1>4
  <1>6. ASSUME NEW e \in B \cup {x} \cup {free_list}
        PROVE  /\ mx[e] \in B \cup {x} \cup {free_list} /\ mv[e] \in B \cup {x} \cup {free_list}
               /\ mv[mx[e]] = e /\ mx[mv[e]] = e
    <2>1. CASE e = x
      BY <1>1, <1>3, <2>1
    <2>2. CASE e # x
      <3>1. /\ e \in B \cup {free_list} /\ e \in Links /\ nx[e] \in B \cup {free_list} /\ pv[e] \in B \cup {free_list}
            /\ nx[e] \in Links /\ pv[e] \in Links /\ nx[e] # x /\ pv[e] # x
            /\ pv[nx[e]] = e /\ nx[pv[e]] = e
        BY <1>4, <2>2
      <3>2. e # a => nx[e] # c
        BY <3>1, <1>5
      <3>3. e # c => pv[e] # a
        BY <3>1
      <3>4. mx[e] = IF e = a THEN x ELSE nx[e]
        BY <1>3, <2>2, <3>1, Zenon
      <3>5. mv[e] = IF e = c THEN x ELSE pv[e]
        BY <1>3, <2>2, <3>1, Zenon
      <3>6. mv[x] = a /\ mx[x] = c
        BY <1>1, <1>3, Zenon
      <3>7. mv[mx[e]] = e
        <4>1. CASE e = a
          BY <3>4, <3>6, <4>1, Zenon
        <4>2. CASE e # a
          <5>1. mx[e] = nx[e]
            BY <3>4, <4>2, Zenon
          <5>2. mv[nx[e]] = pv[nx[e]]
            BY <1>3, <3>1, <3>2, <4>2, Zenon
          <5> QED
            BY <3>1, <5>1, <5>2, Zenon
        <4> QED
          BY <4>1, <4>2, Zenon
      <3>8. mx[mv[e]] = e
        <4>1. CASE e = c
          BY <3>5, <3>6, <4>1, Zenon
        <4>2. CASE e # c
          <5>1. mv[e] = pv[e]
            BY <3>5, <4>2, Zenon
          <5>2. mx[pv[e]] = nx[pv[e]]
            BY <1>3, <3>1, <3>3, <4>2, Zenon
          <5> QED
            BY <3>1, <5>1, <5>2, Zenon
        <4> QED
          BY <4>1, <4>2, Zenon
      <3> QED
        BY <3>1, <3>4, <3>5, <3>7, <3>8
    <2> QED
      BY <2>1, <2>2
  <1>7. ASSUME NEW e \in B \cup {x} \cup {free_list}
        PROVE  /\ mx[e] # free_list => e < mx[e]
               /\ \A b \in B \cup {x} : e < b => mx[e] # free_list /\ mx[e] <= b
    <2>0. /\ \A b \in B : b \in Int /\ b # free_list /\ free_list < b
          /\ free_list \in Int
      BY LinkTypes
    <2>1. CASE e = x
      <3>1. mx[e] = c
        BY <1>1, <1>3, <2>1
      <3>2. ASSUME NEW b \in B, x < b PROVE c # free_list /\ c <= b
        <4>1. a < b
          BY <1>1, <2>0, <3>2
        <4> QED
          BY <1>4, <4>1
      <3> QED
        BY <1>1, <2>1, <3>1, <3>2
    <2>2. CASE e = a
      <3>1. mx[e] = x
        BY <1>1, <1>3, <2>2
      <3>2. ASSUME NEW b \in B, a < b PROVE x <= b
        <4>1. c # free_list /\ c <= b
          BY <1>4, <3>2
        <4> QED
          BY <1>1, <2>0, <4>1
      <3> QED
        BY <1>1, <2>2, <3>1, <3>2
    <2>3. CASE e # a /\ e # x
      <3>1. e \in B \cup {free_list} /\ mx[e] = nx[e] /\ e \in Int /\ nx[e] \in Int
        BY <1>1, <1>3, <1>4, <2>3
      <3>2. ASSUME e < x PROVE nx[e] # free_list /\ nx[e] <= x
        <4>1. CASE e < a
          <5>1. a \in B
            BY <2>0, <3>1, <4>1, LinkTypes
          <5>2. nx[e] # free_list /\ nx[e] <= a
            BY <1>4, <3>1, <4>1, <5>1
          <5> QED
            BY <5>2, <3>1, <1>1
        <4>2. CASE a < e
          <5>1. e \in B
            BY <2>0, <3>1, <4>2, <1>1, LinkTypes
          <5>2. c # free_list /\ c <= e
            BY <1>4, <4>2, <5>1
          <5> QED
            BY <5>2, <3>1, <1>1, <3>2
        <4> QED
          BY <1>1, <2>3, <3>1, <4>1, <4>2
      <3> QED
        BY <1>4, <3>1, <3>2
    <2> QED
      BY <2>1, <2>2, <2>3
  <1> QED
    BY <1>2, <1>6, <1>7 DEF Linked

(* A page that leaves the list. *)
LEMMA DeleteLinked ==
    ASSUME NEW nx \in [Links -> Links], NEW pv \in [Links -> Links], NEW B \in SUBSET Pages,
           Linked(nx, pv, B), NEW x \in B,
           NEW mx, mx = [nx EXCEPT ![pv[x]] = nx[x]],
           NEW mv, mv = [pv EXCEPT ![nx[x]] = pv[x]]
    PROVE  mx \in [Links -> Links] /\ mv \in [Links -> Links] /\ Linked(mx, mv, B \ {x})
  <1>1. PICK a : a = pv[x]
    OBVIOUS
  <1>2. PICK c : c = nx[x]
    OBVIOUS
  <1>3. ASSUME NEW e \in B \cup {free_list}
        PROVE  /\ e \in Links /\ e \in Int
               /\ nx[e] \in B \cup {free_list} /\ pv[e] \in B \cup {free_list}
               /\ pv[nx[e]] = e /\ nx[pv[e]] = e
               /\ nx[e] # free_list => e < nx[e]
               /\ \A b \in B : e < b => nx[e] # free_list /\ nx[e] <= b
    BY LinkTypes DEF Linked
  <1>4. /\ a \in B \cup {free_list} /\ c \in B \cup {free_list} /\ a \in Links /\ c \in Links /\ x \in Links
        /\ a \in Int /\ c \in Int /\ x \in Int /\ x # free_list /\ nx[a] = x /\ pv[c] = x /\ a < x
        /\ c # free_list => x < c
    BY <1>1, <1>2, <1>3, LinkTypes
  <1>5. a # x /\ c # x
    BY <1>4
  <1>6. mx \in [Links -> Links] /\ mv \in [Links -> Links]
    BY <1>1, <1>2, <1>4
  <1>7. /\ \A e \in Links : mx[e] = IF e = a THEN c ELSE nx[e]
        /\ \A e \in Links : mv[e] = IF e = c THEN a ELSE pv[e]
    BY <1>1, <1>2, <1>4
  <1>8. ASSUME NEW e \in (B \ {x}) \cup {free_list}
        PROVE  /\ mx[e] \in (B \ {x}) \cup {free_list} /\ mv[e] \in (B \ {x}) \cup {free_list}
               /\ mv[mx[e]] = e /\ mx[mv[e]] = e
    <2>1. /\ e \in Links /\ e # x /\ nx[e] \in Links /\ pv[e] \in Links /\ pv[nx[e]] = e /\ nx[pv[e]] = e
          /\ nx[e] \in B \cup {free_list} /\ pv[e] \in B \cup {free_list}
      BY <1>3, <1>4
    <2>2. e # a => nx[e] # x /\ nx[e] # c
      BY <1>1, <1>2, <1>4, <2>1
    <2>3. e # c => pv[e] # x /\ pv[e] # a
      BY <1>1, <1>2, <1>4, <2>1
    <2> QED
      BY <1>4, <1>5, <1>7, <2>1, <2>2, <2>3
  <1>9. ASSUME NEW e \in (B \ {x}) \cup {free_list}
        PROVE  /\ mx[e] # free_list => e < mx[e]
               /\ \A b \in B \ {x} : e < b => mx[e] # free_list /\ mx[e] <= b
    <2>1. CASE e # a
      BY <1>3, <1>7, <2>1
    <2>2. CASE e = a
      <3>1. mx[e] = c
        BY <1>4, <1>7, <2>2
      <3>2. ASSUME NEW b \in B \ {x}, a < b PROVE c # free_list /\ c <= b
        <4>1. x <= b /\ b \in Int
          BY <1>3, <1>4, <3>2, LinkTypes
        <4>2. x < b
          BY <1>4, <4>1
        <4> QED
          BY <1>2, <1>3, <4>2
      <3> QED
        BY <1>4, <2>2, <3>1, <3>2
    <2> QED
      BY <2>1, <2>2
  <1> QED
    BY <1>6, <1>8, <1>9 DEF Linked

---------------------------------------------------------------------------
(* What the loops over the list see.                                       *)

FreeAreas ==
    [next : [Links -> Links], prev : [Links -> Links], property : [Pages -> 0 .. NPages],
     PG_property : SUBSET Pages, nr_free : Int]

(* The links of f lead through the pages of B. *)
ListOf(f, B) == f.next \in [Links -> Links] /\ f.prev \in [Links -> Links]
                /\ B \in SUBSET Pages /\ Linked(f.next, f.prev, B)

(* The links, one by one from the head. *)
LEMMA NthFacts ==
    ASSUME NEW f, f.next \in [Links -> Links]
    PROVE  /\ Nth(f) \in [0 .. NPages + 1 -> Links] /\ Nth(f)[0] = free_list
           /\ \A i \in 1 .. NPages + 1 : Nth(f)[i] = f.next[Nth(f)[i - 1]]
  <1> DEFINE N == NPages + 1
             Eq(g) == g = [i \in 0 .. N |-> IF i = 0 THEN free_list ELSE f.next[g[i - 1]]]
             nth == CHOOSE g : Eq(g)
  <1>1. N \in Nat
    BY LinkTypes
  <1>2. PICK g \in [0 .. N -> Links] : g[0] = free_list /\ \A i \in 1 .. N : g[i] = f.next[g[i - 1]]
    <2>1. PICK h : h = f.next
      OBVIOUS
    <2>2. h \in [Links -> Links] /\ free_list \in Links
      BY <2>1, LinkTypes
    <2> HIDE DEF N
    <2>3. PICK g : Iterates(g, h, free_list, Links, N)
      BY <1>1, <2>2, IterateExists
    <2> QED
      BY <2>1, <2>3 DEF Iterates
  <1>3. Eq(g)
    <2>1. ASSUME NEW i \in 0 .. N PROVE g[i] = IF i = 0 THEN free_list ELSE f.next[g[i - 1]]
      BY <1>1, <1>2
    <2> QED
      BY <2>1, <1>2
  <1>4. Eq(nth)
    BY <1>3
  <1>5. Nth(f) = nth
    BY DEF Nth
  <1> HIDE DEF nth
  <1>6. nth[0] = free_list /\ \A i \in 1 .. N : nth[i] = f.next[nth[i - 1]]
    BY <1>1, <1>4
  <1>7. \A i \in 0 .. N : nth[i] \in Links
    <2> DEFINE Bad == {i \in 0 .. N : nth[i] \notin Links}
    <2>1. SUFFICES ASSUME Bad # {} PROVE FALSE
      OBVIOUS
    <2>2. PICK m \in Bad : \A y \in Bad : m <= y
      <3>1. Bad \in SUBSET Nat
        OBVIOUS
      <3> QED
        BY <2>1, <3>1, LeastNat
    <2>3. m # 0 /\ m \in 1 .. N /\ m - 1 \in 0 .. N /\ m - 1 \notin Bad
      BY <1>1, <1>6, <2>2, LinkTypes
    <2> QED
      BY <1>6, <2>2, <2>3
  <1>8. nth \in [0 .. N -> Links]
    BY <1>4, <1>7
  <1> QED
    BY <1>5, <1>6, <1>8

(* In a list they come back to the head, and pass every page of B in ascending
   order on the way. *)
LEMMA WalkFacts ==
    ASSUME NEW f, NEW B, ListOf(f, B)
    PROVE  \E m \in 1 .. NPages + 1 :
              /\ Nth(f)[m] = free_list
              /\ \A i \in 1 .. m - 1 : Nth(f)[i] \in B
              /\ \A i, j \in 0 .. m - 1 : i < j => Nth(f)[i] < Nth(f)[j]
              /\ \A b \in B : \E i \in 1 .. m - 1 : Nth(f)[i] = b
  <1>1. PICK nth : nth = Nth(f)
    OBVIOUS
  <1>2. PICK N : N = NPages + 1
    OBVIOUS
  <1>3. /\ nth \in [0 .. N -> Links] /\ nth[0] = free_list
        /\ \A i \in 1 .. N : nth[i] = f.next[nth[i - 1]]
    BY <1>1, <1>2, NthFacts DEF ListOf
  <1>4. N \in Nat /\ N = NPages + 1 /\ NPages \in Nat
    BY <1>2, LinkTypes
  <1>5. \A i \in 0 .. N : nth[i] \in B \cup {free_list}
    <2> DEFINE Bad == {i \in 0 .. N : nth[i] \notin B \cup {free_list}}
    <2>1. SUFFICES ASSUME Bad # {} PROVE FALSE
      OBVIOUS
    <2>2. PICK m \in Bad : \A y \in Bad : m <= y
      <3>1. Bad \in SUBSET Nat
        OBVIOUS
      <3> QED
        BY <2>1, <3>1, LeastNat
    <2>3. m # 0 /\ m \in 1 .. N /\ m - 1 \in 0 .. N /\ m - 1 \notin Bad
      BY <1>3, <1>4, <2>2
    <2> QED
      BY <1>3, <2>2, <2>3 DEF ListOf, Linked
  <1>6. ASSUME NEW i \in 0 .. N - 1
        PROVE  /\ i \in 0 .. N /\ i + 1 \in 0 .. N /\ nth[i] \in Int /\ nth[i + 1] \in Int
               /\ nth[i + 1] = f.next[nth[i]]
               /\ nth[i + 1] # free_list => nth[i + 1] \in B /\ nth[i] < nth[i + 1]
               /\ \A b \in B : nth[i] < b => nth[i + 1] # free_list /\ nth[i + 1] <= b
    <2>1. i \in 0 .. N /\ i + 1 \in 1 .. N /\ i + 1 \in 0 .. N /\ (i + 1) - 1 = i
      BY <1>4
    <2>2. nth[i + 1] = f.next[nth[i]]
      BY <1>3, <2>1
    <2>3. nth[i] \in B \cup {free_list} /\ nth[i + 1] \in B \cup {free_list}
      BY <1>5, <2>1
    <2>4. nth[i] \in Int /\ nth[i + 1] \in Int
      BY <1>3, <2>1, LinkTypes
    <2> QED
      BY <2>1, <2>2, <2>3, <2>4 DEF ListOf, Linked
  <1>7. \E i \in 1 .. N : nth[i] = free_list
    <2>1. SUFFICES ASSUME \A i \in 1 .. N : nth[i] # free_list PROVE FALSE
      OBVIOUS
    <2> DEFINE Bad == {i \in 1 .. N : ~(nth[i] >= i - 1)}
    <2>2. Bad = {}
      <3>1. SUFFICES ASSUME Bad # {} PROVE FALSE
        OBVIOUS
      <3>2. PICK m \in Bad : \A y \in Bad : m <= y
        <4>1. Bad \in SUBSET Nat
          OBVIOUS
        <4> QED
          BY <3>1, <4>1, LeastNat
      <3>3. CASE m = 1
        <4>1. 1 \in 1 .. N /\ nth[1] # free_list /\ nth[1] \in Links
          BY <1>3, <1>4, <2>1
        <4> QED
          <5>1. nth[1] \in Nat
            BY <4>1, LinkTypes
          <5> QED
            BY <3>2, <3>3, <4>1, <5>1
      <3>4. CASE m # 1
        <4>1. m - 1 \in 1 .. N /\ m - 1 \in 0 .. N - 1 /\ m \in 1 .. N /\ (m - 1) + 1 = m
          BY <1>4, <3>2, <3>4
        <4>2. m - 1 \notin Bad
          BY <3>2, <4>1
        <4>3. nth[m - 1] < nth[m] /\ nth[m - 1] \in Int /\ nth[m] \in Int
          BY <1>6, <2>1, <4>1
        <4> QED
          BY <3>2, <4>1, <4>2, <4>3
      <3> QED
        BY <3>3, <3>4
    <2>3. N \in 1 .. N /\ N \in 0 .. N
      BY <1>4
    <2>4. nth[N] # free_list /\ nth[N] \in Links /\ N \notin Bad
      BY <1>3, <2>1, <2>2, <2>3
    <2>5. nth[N] \in Pages /\ nth[N] >= N - 1
      BY <2>3, <2>4, LinkTypes
    <2> QED
      BY <1>4, <2>5 DEF Pages
  <1>8. PICK m \in 1 .. N : nth[m] = free_list /\ \A i \in 1 .. m - 1 : nth[i] # free_list
    <2> DEFINE T == {i \in 1 .. N : nth[i] = free_list}
    <2>1. T \in SUBSET Nat /\ T # {}
      BY <1>7
    <2>2. PICK m \in T : \A y \in T : m <= y
      BY <2>1, LeastNat
    <2>3. \A i \in 1 .. m - 1 : i \in 1 .. N /\ ~(m <= i)
      BY <1>4, <2>2
    <2> QED
      BY <2>2, <2>3
  <1>9. ASSUME NEW i \in 1 .. m - 1 PROVE nth[i] \in B
    BY <1>4, <1>5, <1>8
  <1>10. ASSUME NEW i \in 0 .. m - 1, NEW j \in 0 .. m - 1, i < j PROVE nth[i] < nth[j]
    <2> DEFINE Bad == {x \in 0 .. m - 1 : i < x /\ ~(nth[i] < nth[x])}
    <2>1. SUFFICES ASSUME Bad # {} PROVE FALSE
      BY <1>10
    <2>2. PICK x \in Bad : \A y \in Bad : x <= y
      <3>1. Bad \in SUBSET Nat
        BY <1>4
      <3> QED
        BY <2>1, <3>1, LeastNat
    <2>3. /\ x - 1 \in 0 .. N - 1 /\ x - 1 \in 0 .. m - 1 /\ x \in 1 .. m - 1 /\ (x - 1) + 1 = x /\ i \in 0 .. N - 1
          /\ x - 1 \notin Bad /\ i < x
      BY <1>4, <1>8, <2>2
    <2>4. nth[x - 1] < nth[x] /\ nth[x - 1] \in Int /\ nth[x] \in Int /\ nth[i] \in Int
      BY <1>6, <1>8, <2>3
    <2>5. nth[i] < nth[x - 1] \/ i = x - 1
      BY <2>3
    <2> QED
      BY <2>2, <2>3, <2>4, <2>5
  <1>11. ASSUME NEW b \in B PROVE \E i \in 1 .. m - 1 : nth[i] = b
    <2>1. SUFFICES ASSUME \A i \in 1 .. m - 1 : nth[i] # b PROVE FALSE
      OBVIOUS
    <2> DEFINE T == {i \in 0 .. m - 1 : nth[i] < b}
    <2>2. b \in Int /\ free_list < b /\ m - 1 \in Nat
      BY <1>4, <1>8, LinkTypes DEF ListOf
    <2>3. PICK i \in T : \A y \in T : y <= i
      <3>1. 0 \in T
        BY <1>3, <2>2
      <3> QED
        BY <2>2, <3>1, GreatestNat
    <2>4. i \in 0 .. N - 1 /\ i \in 0 .. m - 1 /\ nth[i] < b
      BY <1>4, <1>8, <2>3
    <2>5. nth[i + 1] # free_list /\ nth[i + 1] <= b /\ nth[i + 1] \in Int
      BY <1>6, <2>4
    <2>6. i + 1 # m
      BY <1>8, <2>5
    <2>7. i + 1 \in 1 .. m - 1 /\ i + 1 \in 0 .. m - 1 /\ ~(i + 1 <= i)
      BY <1>4, <1>8, <2>4, <2>6
    <2>8. nth[i + 1] # b /\ i + 1 \notin T
      BY <2>1, <2>3, <2>7
    <2> QED
      BY <2>2, <2>5, <2>7, <2>8
  <1> QED
    BY <1>1, <1>2, <1>8, <1>9, <1>10, <1>11

(* Chain is the pages of B in ascending order. *)
LEMMA ChainFacts ==
    ASSUME NEW f, NEW B, ListOf(f, B), NEW l, l = Chain(f)
    PROVE  /\ Ends(f) /\ l \in Seq(Pages) /\ Len(l) \in Nat
           /\ \A i \in 1 .. Len(l) : l[i] \in B
           /\ \A i, j \in 1 .. Len(l) : i < j => l[i] < l[j]
           /\ \A b \in B : \E i \in 1 .. Len(l) : l[i] = b
           /\ InChain(f) = B
  <1>1. PICK nth : nth = Nth(f)
    OBVIOUS
  <1>2. PICK m \in 1 .. NPages + 1 :
              /\ nth[m] = free_list
              /\ \A i \in 1 .. m - 1 : nth[i] \in B
              /\ \A i, j \in 0 .. m - 1 : i < j => nth[i] < nth[j]
              /\ \A b \in B : \E i \in 1 .. m - 1 : nth[i] = b
    BY <1>1, WalkFacts
  <1>3. m \in Nat /\ m >= 1 /\ NPages \in Nat /\ B \subseteq Pages
    BY <1>2, LinkTypes DEF ListOf
  <1>4. Ends(f)
    BY <1>1, <1>2 DEF Ends
  <1> DEFINE First(i) == nth[i] = free_list /\ \A j \in 1 .. i - 1 : nth[j] # free_list
  <1>5. \A i \in 1 .. NPages + 1 : First(i) <=> i = m
    <2>1. \A j \in 1 .. m - 1 : nth[j] # free_list
      BY <1>2, <1>3, LinkTypes
    <2>2. First(m)
      BY <1>2, <2>1
    <2>3. ASSUME NEW i \in 1 .. NPages + 1, First(i) PROVE i = m
      <3>1. ~(i \in 1 .. m - 1) /\ ~(m \in 1 .. i - 1)
        BY <1>2, <2>1, <2>3
      <3> QED
        BY <1>3, <3>1
    <2> QED
      BY <2>2, <2>3
  <1>6. (CHOOSE i \in 1 .. NPages + 1 : First(i)) = m
    BY <1>2, <1>5
  <1>7. l = [i \in 1 .. m - 1 |-> nth[i]]
    BY <1>1, <1>4, <1>6 DEF Chain
  <1>8. m - 1 \in Nat /\ l \in [1 .. m - 1 -> Pages]
    BY <1>2, <1>3, <1>7
  <1>9. l \in Seq(Pages) /\ Len(l) = m - 1
    BY <1>8, SeqOfFunction
  <1>10. \A i \in 1 .. m - 1 : l[i] = nth[i] /\ i \in 0 .. m - 1
    BY <1>3, <1>7
  <1>11. /\ \A i \in 1 .. Len(l) : l[i] \in B
         /\ \A i, j \in 1 .. Len(l) : i < j => l[i] < l[j]
    BY <1>2, <1>9, <1>10
  <1>12. \A b \in B : \E i \in 1 .. Len(l) : l[i] = b
    BY <1>2, <1>9, <1>10
  <1>13. InChain(f) = B
    <2>1. InChain(f) = {l[i] : i \in 1 .. Len(l)}
      BY DEF InChain
    <2> QED
      BY <2>1, <1>11, <1>12
  <1> QED
    BY <1>4, <1>8, <1>9, <1>11, <1>12, <1>13

(* Nothing of a list is forgotten. *)
LEMMA LiveFacts ==
    ASSUME NEW f, NEW B, ListOf(f, B)
    PROVE  B \cup {free_list} \subseteq Live(f)
  <1> DEFINE Grow(X) == X \cup {f.next[e] : e \in X} \cup {f.prev[e] : e \in X}
             Eq(g) == g = [i \in 0 .. NPages |-> IF i = 0 THEN {free_list} ELSE Grow(g[i - 1])]
             near == CHOOSE g : Eq(g)
             h == [X \in SUBSET Links |-> Grow(X)]
  <1>1. NPages \in Nat /\ {free_list} \in SUBSET Links /\ f.next \in [Links -> Links] /\ f.prev \in [Links -> Links]
    BY LinkTypes DEF ListOf
  <1>2. h \in [SUBSET Links -> SUBSET Links]
    BY <1>1
  <1>3. PICK g : Iterates(g, h, {free_list}, SUBSET Links, NPages)
    <2> HIDE DEF h
    <2> QED
      BY <1>1, <1>2, IterateExists
  <1>4. /\ g \in [0 .. NPages -> SUBSET Links] /\ g[0] = {free_list}
        /\ \A i \in 1 .. NPages : g[i] = h[g[i - 1]]
    BY <1>3 DEF Iterates
  <1>5. Eq(g)
    <2>1. ASSUME NEW i \in 0 .. NPages PROVE g[i] = IF i = 0 THEN {free_list} ELSE Grow(g[i - 1])
      <3>1. CASE i = 0
        BY <1>4, <3>1
      <3>2. CASE i # 0
        <4>1. i \in 1 .. NPages /\ i - 1 \in 0 .. NPages
          BY <1>1, <3>2
        <4>2. g[i - 1] \in SUBSET Links /\ g[i] = h[g[i - 1]]
          BY <1>4, <4>1
        <4> QED
          BY <4>2, <3>2
      <3> QED
        BY <3>1, <3>2
    <2> HIDE DEF Grow
    <2> QED
      BY <2>1, <1>4
  <1>6. Eq(near)
    BY <1>5
  <1>7. Live(f) = near[NPages]
    BY DEF Live
  <1> HIDE DEF near
  <1>8. near[0] = {free_list} /\ \A i \in 1 .. NPages : near[i] = Grow(near[i - 1])
    <2> DEFINE e(i) == IF i = 0 THEN {free_list} ELSE Grow(near[i - 1])
    <2> HIDE DEF Grow
    <2>1. near = [i \in 0 .. NPages |-> e(i)]
      BY <1>6
    <2> HIDE DEF e
    <2>2. \A i \in 0 .. NPages : near[i] = e(i)
      BY <2>1, Zenon
    <2>3. 0 \in 0 .. NPages /\ \A i \in 1 .. NPages : i \in 0 .. NPages /\ i # 0
      BY <1>1
    <2> QED
      BY <2>2, <2>3, Zenon DEF e
  <1>9. PICK nth : nth = Nth(f)
    OBVIOUS
  <1>10. /\ nth[0] = free_list
         /\ \A i \in 1 .. NPages + 1 : nth[i] = f.next[nth[i - 1]]
    BY <1>1, <1>9, NthFacts
  <1>11. \A i \in 0 .. NPages : \A j \in 0 .. i : nth[j] \in near[i]
    <2> DEFINE Bad == {i \in 0 .. NPages : ~\A j \in 0 .. i : nth[j] \in near[i]}
    <2>1. SUFFICES ASSUME Bad # {} PROVE FALSE
      OBVIOUS
    <2>2. PICK m \in Bad : \A y \in Bad : m <= y
      <3>1. Bad \in SUBSET Nat
        OBVIOUS
      <3> QED
        BY <2>1, <3>1, LeastNat
    <2>3. m # 0
      BY <1>8, <1>10, <2>2
    <2>4. m \in 1 .. NPages /\ m \in 1 .. NPages + 1 /\ m - 1 \in 0 .. NPages /\ ~(m <= m - 1)
      BY <1>1, <2>2, <2>3
    <2>5. \A j \in 0 .. m - 1 : nth[j] \in near[m - 1]
      BY <2>2, <2>4
    <2>6. near[m] = Grow(near[m - 1]) /\ nth[m] = f.next[nth[m - 1]] /\ m - 1 \in 0 .. m - 1
      BY <1>8, <1>10, <2>4
    <2>7. nth[m] \in near[m] /\ near[m - 1] \subseteq near[m]
      <3>1. nth[m - 1] \in near[m - 1]
        BY <2>5, <2>6
      <3>2. f.next[nth[m - 1]] \in Grow(near[m - 1]) /\ near[m - 1] \subseteq Grow(near[m - 1])
        BY <3>1
      <3> HIDE DEF Grow
      <3> QED
        BY <2>6, <3>2, Zenon
    <2>8. ASSUME NEW j \in 0 .. m PROVE nth[j] \in near[m]
      <3>1. j = m \/ j \in 0 .. m - 1
        BY <2>4
      <3> QED
        BY <2>5, <2>7, <3>1
    <2> QED
      BY <2>2, <2>8
  <1>12. PICK m \in 1 .. NPages + 1 : \A b \in B : \E i \in 1 .. m - 1 : nth[i] = b
    BY <1>9, WalkFacts
  <1>13. ASSUME NEW b \in B PROVE b \in near[NPages]
    <2>1. PICK i \in 1 .. m - 1 : nth[i] = b
      BY <1>12
    <2>2. i \in 0 .. NPages /\ NPages \in 0 .. NPages
      BY <1>1, <1>12
    <2> QED
      BY <1>11, <2>1, <2>2
  <1>14. free_list \in near[NPages]
    <2>1. 0 \in 0 .. NPages /\ NPages \in 0 .. NPages
      BY <1>1
    <2> QED
      BY <1>10, <1>11, <2>1
  <1> QED
    BY <1>7, <1>13, <1>14

(* Forget leaves the list and its blocks alone. *)
LEMMA ForgetFacts ==
    ASSUME NEW f \in FreeAreas, ListOf(f, f.PG_property), NEW g, g = Forget(f)
    PROVE  /\ g \in FreeAreas /\ g.PG_property = f.PG_property /\ g.nr_free = f.nr_free
           /\ ListOf(g, g.PG_property) /\ \A b \in g.PG_property : g.property[b] = f.property[b]
  <1>1. PICK live : live = Live(f)
    OBVIOUS
  <1>2. PICK B : B = f.PG_property
    OBVIOUS
  <1>3. /\ f.next \in [Links -> Links] /\ f.prev \in [Links -> Links]
        /\ f.property \in [Pages -> 0 .. NPages] /\ B \in SUBSET Pages
    BY <1>2 DEF FreeAreas
  <1>4. B \cup {free_list} \subseteq live
    BY <1>1, <1>2, LiveFacts
  <1>5. /\ g = [next |-> g.next, prev |-> g.prev, property |-> g.property, PG_property |-> g.PG_property,
                nr_free |-> g.nr_free]
        /\ g.next = [e \in Links |-> IF e \in live THEN f.next[e] ELSE e]
        /\ g.prev = [e \in Links |-> IF e \in live THEN f.prev[e] ELSE e]
        /\ g.property = [p \in Pages |-> IF p \in live THEN f.property[p] ELSE 0]
        /\ g.PG_property = B /\ g.nr_free = f.nr_free /\ f.nr_free \in Int
    BY <1>1, <1>2 DEF Forget, FreeAreas
  <1>6. /\ g.next \in [Links -> Links] /\ g.prev \in [Links -> Links]
        /\ g.property \in [Pages -> 0 .. NPages]
    BY <1>3, <1>5, LinkTypes
  <1>7. g \in FreeAreas
    BY <1>3, <1>5, <1>6 DEF FreeAreas
  <1>8. B \cup {free_list} \subseteq Links
    BY <1>3, LinkTypes
  <1>9. \A e \in B \cup {free_list} : g.next[e] = f.next[e] /\ g.prev[e] = f.prev[e]
    BY <1>4, <1>5, <1>8
  <1>10. Linked(f.next, f.prev, B)
    BY <1>2 DEF ListOf
  <1>11. Linked(g.next, g.prev, B)
    BY <1>9, <1>10 DEF Linked
  <1>12. ListOf(g, B)
    BY <1>3, <1>6, <1>11 DEF ListOf
  <1>13. \A b \in B : g.property[b] = f.property[b]
    BY <1>3, <1>4, <1>5
  <1> QED
    BY <1>2, <1>5, <1>7, <1>12, <1>13

---------------------------------------------------------------------------
(* The operations on the free area.                                        *)

(* What linking and unlinking leave alone. *)
SameBlocks(g, f) == g.property = f.property /\ g.PG_property = f.PG_property /\ g.nr_free = f.nr_free

LEMMA AreaFields ==
    ASSUME NEW f \in FreeAreas
    PROVE  /\ f.next \in [Links -> Links] /\ f.prev \in [Links -> Links]
           /\ f.property \in [Pages -> 0 .. NPages] /\ f.PG_property \in SUBSET Pages /\ f.nr_free \in Int
  BY DEF FreeAreas

LEMMA AreaOf ==
    ASSUME NEW nx \in [Links -> Links], NEW pv \in [Links -> Links], NEW size \in [Pages -> 0 .. NPages],
           NEW B \in SUBSET Pages, NEW n \in Int
    PROVE  [next |-> nx, prev |-> pv, property |-> size, PG_property |-> B, nr_free |-> n] \in FreeAreas
  BY DEF FreeAreas

LEMMA AddFacts ==
    ASSUME NEW f \in FreeAreas, NEW B, ListOf(f, B), NEW x \in Pages, x \notin B,
           NEW a \in B \cup {free_list}, a < x, NEW c, c = f.next[a], c = free_list \/ x < c,
           NEW g, g = __list_add(f, x, a, c)
    PROVE  g \in FreeAreas /\ ListOf(g, B \cup {x}) /\ SameBlocks(g, f)
  <1> DEFINE mx == [[f.next EXCEPT ![a] = x] EXCEPT ![x] = c]
             mv == [[f.prev EXCEPT ![c] = x] EXCEPT ![x] = a]
  <1>1. B \in SUBSET Pages /\ Linked(f.next, f.prev, B)
    BY DEF ListOf
  <1>2. mx \in [Links -> Links] /\ mv \in [Links -> Links] /\ Linked(mx, mv, B \cup {x})
    BY <1>1, AreaFields, InsertLinked
  <1>3. g = [next |-> mx, prev |-> mv, property |-> f.property, PG_property |-> f.PG_property,
             nr_free |-> f.nr_free]
    BY DEF __list_add, FreeAreas
  <1> HIDE DEF mx, mv
  <1>4. g \in FreeAreas
    <2>1. f.property \in [Pages -> 0 .. NPages] /\ f.PG_property \in SUBSET Pages /\ f.nr_free \in Int
      BY AreaFields
    <2> QED
      BY <1>2, <1>3, <2>1, AreaOf, SMTT(30)
  <1>5. g.next = mx /\ g.prev = mv /\ SameBlocks(g, f)
    BY <1>3 DEF SameBlocks
  <1>6. B \cup {x} \in SUBSET Pages
    BY <1>1
  <1> QED
    BY <1>2, <1>4, <1>5, <1>6 DEF ListOf

LEMMA DelFacts ==
    ASSUME NEW f \in FreeAreas, NEW B, ListOf(f, B), NEW x \in B, NEW g, g = list_del(f, x)
    PROVE  g \in FreeAreas /\ ListOf(g, B \ {x}) /\ SameBlocks(g, f) /\ g.next[f.prev[x]] = f.next[x]
  <1> DEFINE mx == [f.next EXCEPT ![f.prev[x]] = f.next[x]]
             mv == [f.prev EXCEPT ![f.next[x]] = f.prev[x]]
  <1>1. B \in SUBSET Pages /\ Linked(f.next, f.prev, B)
    BY DEF ListOf
  <1>2. mx \in [Links -> Links] /\ mv \in [Links -> Links] /\ Linked(mx, mv, B \ {x})
    BY <1>1, AreaFields, DeleteLinked
  <1>3. g = [next |-> mx, prev |-> mv, property |-> f.property, PG_property |-> f.PG_property,
             nr_free |-> f.nr_free]
    BY DEF list_del, FreeAreas
  <1>4. x \in Links /\ f.prev[x] \in Links
    BY <1>1, AreaFields, LinkTypes
  <1>5. mx[f.prev[x]] = f.next[x]
    BY <1>4, AreaFields
  <1> HIDE DEF mx, mv
  <1>6. g \in FreeAreas
    <2>1. f.property \in [Pages -> 0 .. NPages] /\ f.PG_property \in SUBSET Pages /\ f.nr_free \in Int
      BY AreaFields
    <2> QED
      BY <1>2, <1>3, <2>1, AreaOf, SMTT(30)
  <1>7. g.next = mx /\ g.prev = mv /\ SameBlocks(g, f)
    BY <1>3 DEF SameBlocks
  <1>8. B \ {x} \in SUBSET Pages
    BY <1>1
  <1> QED
    BY <1>2, <1>5, <1>6, <1>7, <1>8 DEF ListOf

(* The neighbours of a page of the list. *)
LEMMA Neighbours ==
    ASSUME NEW f, NEW B, ListOf(f, B), NEW x \in B
    PROVE  /\ f.prev[x] \in B \cup {free_list} /\ f.next[x] \in B \cup {free_list}
           /\ f.next[f.prev[x]] = x /\ f.prev[x] < x
           /\ f.next[x] # free_list => x < f.next[x]
           /\ \A b \in B : /\ x < b => f.next[x] # free_list /\ f.next[x] <= b
                           /\ b < x => f.prev[x] # free_list /\ b <= f.prev[x]
  <1>1. PICK a : a = f.prev[x]
    OBVIOUS
  <1>2. PICK c : c = f.next[x]
    OBVIOUS
  <1>3. /\ B \in SUBSET Pages /\ x \in B \cup {free_list}
        /\ \A e \in B \cup {free_list} :
             /\ f.next[e] \in B \cup {free_list} /\ f.prev[e] \in B \cup {free_list}
             /\ f.next[f.prev[e]] = e
             /\ f.next[e] # free_list => e < f.next[e]
             /\ \A b \in B : e < b => f.next[e] # free_list /\ f.next[e] <= b
    BY DEF ListOf, Linked
  <1>4. /\ a \in B \cup {free_list} /\ c \in B \cup {free_list} /\ f.next[a] = x
        /\ x \in Int /\ a \in Int /\ c \in Int /\ x # free_list /\ a < x
        /\ c # free_list => x < c
    BY <1>1, <1>2, <1>3, LinkTypes
  <1>5. ASSUME NEW b \in B, b < x PROVE a # free_list /\ b <= a
    <2>1. b \in Int /\ free_list < b
      BY <1>3, LinkTypes
    <2>2. ~(a < b)
      BY <1>3, <1>4, <1>5, <2>1
    <2> QED
      BY <1>4, <2>1, <2>2
  <1> QED
    BY <1>1, <1>2, <1>3, <1>4, <1>5

(* The loop of default_free_pages, when a block has a higher address or the
   list is empty. *)
LEMMA LinkFacts ==
    ASSUME NEW f \in FreeAreas, NEW B, ListOf(f, B), NEW x \in Pages, x \notin B,
           B = {} \/ \E c \in B : x < c, NEW g, g = Link(f, x)
    PROVE  g \in FreeAreas /\ ListOf(g, B \cup {x}) /\ SameBlocks(g, f)
  <1>1. PICK l : l = Chain(f)
    OBVIOUS
  <1>2. /\ l \in Seq(Pages) /\ Len(l) \in Nat
        /\ \A i \in 1 .. Len(l) : l[i] \in B
        /\ \A i, j \in 1 .. Len(l) : i < j => l[i] < l[j]
        /\ \A b \in B : \E i \in 1 .. Len(l) : l[i] = b
    BY <1>1, ChainFacts
  <1>3. B \in SUBSET Pages /\ x \in Int /\ free_list < x /\ \A b \in B : b \in Int
    BY LinkTypes DEF ListOf
  <1> DEFINE behind == {i \in 1 .. Len(l) : x < l[i]}
             first == CHOOSE i \in behind : \A j \in behind : i <= j
  <1>4. CASE B = {}
    <2>1. l = << >>
      <3>1. Len(l) = 0
        BY <1>2, <1>4
      <3> QED
        BY <1>2, <3>1
    <2>2. g = __list_add(f, x, free_list, f.next[free_list])
      BY <1>1, <2>1 DEF Link, list_add
    <2>3. f.next[free_list] = free_list
      BY <1>4 DEF ListOf, Linked
    <2> QED
      BY <1>3, <2>2, <2>3, AddFacts
  <1>5. CASE B # {}
    <2>1. PICK c0 \in B : x < c0
      BY <1>5
    <2>2. behind # {} /\ l # << >>
      <3>1. PICK i \in 1 .. Len(l) : l[i] = c0
        BY <1>2
      <3>2. i \in behind /\ Len(l) # 0
        BY <2>1, <3>1, <1>2
      <3> QED
        BY <3>2
    <2>3. PICK i \in behind : \A j \in behind : i <= j
      <3>1. behind \in SUBSET Nat
        OBVIOUS
      <3> QED
        BY <2>2, <3>1, LeastNat
    <2>4. first \in behind /\ \A j \in behind : first <= j
      BY <2>3
    <2>5. PICK c : c = l[first]
      OBVIOUS
    <2>6. c \in B /\ x < c
      BY <1>2, <2>4, <2>5
    <2>7. PICK a : a = f.prev[c]
      OBVIOUS
    <2>8. g = __list_add(f, x, a, c)
      BY <1>1, <2>2, <2>5, <2>7 DEF Link, list_add_before
    <2>9. a \in B \cup {free_list} /\ f.next[a] = c /\ a < c
      BY <2>6, <2>7, Neighbours
    <2>10. a < x
      <3>1. CASE a = free_list
        BY <1>3, <3>1
      <3>2. CASE a \in B /\ ~(a < x)
        <4>1. PICK j \in 1 .. Len(l) : l[j] = a
          BY <1>2, <3>2
        <4>2. a \in Int /\ x # a /\ x < a
          BY <1>3, <3>2
        <4>3. j \in behind
          BY <4>1, <4>2
        <4>4. first <= j /\ first \in 1 .. Len(l) /\ j \in 1 .. Len(l) /\ j # first
          <5>1. first <= j /\ first \in 1 .. Len(l)
            BY <2>4, <4>3
          <5>2. c # a
            BY <1>3, <2>6, <2>9
          <5> HIDE DEF first
          <5> QED
            BY <2>5, <4>1, <5>1, <5>2
        <4>5. first < j
          BY <4>4
        <4>6. c < a
          BY <1>2, <4>1, <4>4, <4>5, <2>5
        <4> QED
          BY <1>3, <2>6, <2>9, <4>2, <4>6
      <3> QED
        BY <2>9, <3>1, <3>2
    <2> HIDE DEF behind, first
    <2> QED
      BY <2>6, <2>8, <2>9, <2>10, AddFacts
  <1> QED
    BY <1>4, <1>5

(* The loop of best_fit_free_pages. *)
LEMMA LinkBehindFacts ==
    ASSUME NEW f \in FreeAreas, NEW B, ListOf(f, B), NEW x \in Pages, x \notin B,
           NEW g, g = LinkBehind(f, x)
    PROVE  g \in FreeAreas /\ ListOf(g, B \cup {x}) /\ SameBlocks(g, f)
  <1>1. InChain(f) = B
    BY ChainFacts
  <1>2. B \in SUBSET Pages /\ x \in Int /\ free_list = -1 /\ NPages \in Nat /\ free_list < x
    BY LinkTypes DEF ListOf
  <1> DEFINE before == {free_list} \cup {p \in B : p < x}
             T == {p + 1 : p \in before}
             last == CHOOSE p \in before : \A q \in before : q <= p
  <1>3. \A p \in before : p \in Int /\ -1 <= p /\ p < NPages
    BY <1>2 DEF Pages
  <1>4. PICK p \in before : \A q \in before : q <= p
    <2>1. T \in SUBSET (0 .. NPages)
      <3>1. ASSUME NEW t \in T PROVE t \in 0 .. NPages
        <4>1. PICK p \in before : t = p + 1
          OBVIOUS
        <4>2. p \in Int /\ -1 <= p /\ p < NPages
          BY <1>3
        <4> QED
          BY <4>1, <4>2, <1>2
      <3> QED
        BY <3>1
    <2>2. T # {}
      <3>1. free_list \in before
        OBVIOUS
      <3>2. free_list + 1 \in T
        BY <3>1
      <3> QED
        BY <3>2
    <2> HIDE DEF T
    <2>3. PICK t \in T : \A y \in T : y <= t
      BY <1>2, <2>1, <2>2, GreatestNat
    <2>4. PICK p \in before : t = p + 1
      BY <2>3 DEF T
    <2>5. ASSUME NEW q \in before PROVE q <= p
      <3>1. q + 1 \in T
        BY DEF T
      <3>2. q + 1 <= p + 1
        BY <2>3, <2>4, <3>1
      <3> QED
        BY <1>3, <3>2
    <2> QED
      BY <2>5
  <1>5. last \in before /\ \A q \in before : q <= last
    BY <1>4
  <1>6. PICK a : a = last
    OBVIOUS
  <1>7. PICK c : c = f.next[a]
    OBVIOUS
  <1>8. g = __list_add(f, x, a, c)
    BY <1>1, <1>6, <1>7 DEF LinkBehind, list_add
  <1>9. /\ a \in B \cup {free_list} /\ a < x /\ a \in Int
        /\ \A q \in B : q < x => q <= a
    BY <1>2, <1>3, <1>5, <1>6
  <1> HIDE DEF before, last
  <1>10. c \in B \cup {free_list} /\ (c # free_list => a < c)
    BY <1>7, <1>9 DEF ListOf, Linked
  <1>11. c = free_list \/ x < c
    <2>1. SUFFICES ASSUME c \in B, ~(x < c) PROVE FALSE
      BY <1>10
    <2>2. c \in Int /\ c < x /\ c # free_list
      BY <1>2, <2>1, LinkTypes
    <2> QED
      BY <1>9, <1>10, <2>1, <2>2
  <1> QED
    BY <1>7, <1>8, <1>9, <1>11, AddFacts

---------------------------------------------------------------------------
(* Blocks and the pages they cover.                                        *)

Sizes == [Pages -> 0 .. NPages]

LEMMA SizeTypes ==
    ASSUME NEW size \in Sizes, NEW B \in SUBSET Pages
    PROVE  \A b \in B : b \in Nat /\ b \in Pages /\ b < NPages /\ size[b] \in Nat
  BY FirstFitAssumption DEF Sizes, Pages

LEMMA InSpace ==
    ASSUME NEW size \in Sizes, NEW B \in SUBSET Pages
    PROVE  \A x : x \in Space(size, B) <=> x \in Int /\ \E b \in B : b <= x /\ x < b + size[b]
  <1>1. ASSUME NEW b \in B, NEW x
        PROVE  x \in Extent(b, size[b]) <=> x \in Int /\ b <= x /\ x < b + size[b]
    BY SizeTypes DEF Extent
  <1> QED
    BY <1>1 DEF Space

LEMMA InExtent ==
    ASSUME NEW b \in Int, NEW n \in Int
    PROVE  \A x : x \in Extent(b, n) <=> x \in Int /\ b <= x /\ x < b + n
  BY DEF Extent

LEMMA SpaceFinite ==
    ASSUME NEW size \in Sizes, NEW B \in SUBSET Pages, Apart(size, B)
    PROVE  /\ Space(size, B) \in SUBSET Pages /\ IsFiniteSet(Space(size, B))
           /\ Cardinality(Space(size, B)) \in 0 .. NPages /\ B \subseteq Space(size, B)
  <1>1. ASSUME NEW x \in Space(size, B) PROVE x \in Pages
    <2>1. x \in Int /\ \E b \in B : b <= x /\ x < b + size[b]
      BY InSpace
    <2>2. PICK b \in B : b <= x /\ x < b + size[b]
      BY <2>1
    <2>3. b + size[b] <= NPages /\ b \in Nat /\ size[b] \in Nat
      BY SizeTypes DEF Apart
    <2> QED
      BY <2>1, <2>2, <2>3, LinkTypes DEF Pages
  <1>2. ASSUME NEW b \in B PROVE b \in Space(size, B)
    <2>1. b \in Int /\ b <= b /\ b < b + size[b]
      BY SizeTypes DEF Apart
    <2> QED
      BY <2>1, InSpace
  <1>3. IsFiniteSet(Pages) /\ Cardinality(Pages) = NPages
    BY LinkTypes, FS_Interval DEF Pages
  <1>4. Space(size, B) \in SUBSET Pages
    BY <1>1
  <1>5. /\ IsFiniteSet(Space(size, B)) /\ Cardinality(Space(size, B)) <= NPages
        /\ Cardinality(Space(size, B)) \in Nat
    BY <1>3, <1>4, FS_Subset, FS_CardinalityType
  <1> QED
    BY <1>2, <1>4, <1>5, LinkTypes

(* The table of sizes after an assignment. *)
Put(size, x, v) == [size EXCEPT ![x] = v]

(* What the three changes of a set of blocks yield. *)
Grown(m, size, B, base, n) ==
    /\ m \in Sizes /\ base \notin B /\ B \cap Extent(base, n) = {}
    /\ Apart(m, B \cup {base})
    /\ Space(m, B \cup {base}) = Space(size, B) \cup Extent(base, n)
    /\ \A b \in B : m[b] = size[b]
Joined(m, size, B, p, q) ==
    /\ m \in Sizes /\ p < q /\ m[p] = size[p] + size[q] /\ \A b \in B \ {p} : m[b] = size[b]
    /\ Apart(m, B \ {q}) /\ Space(m, B \ {q}) = Space(size, B)
Cut(m, size, B, p, n, r) ==
    /\ r \in Pages /\ r \notin B /\ m \in Sizes
    /\ Apart(m, (B \ {p}) \cup {r}) /\ Gaps(m, (B \ {p}) \cup {r})
    /\ Space(m, (B \ {p}) \cup {r}) = Space(size, B) \ Extent(p, n)

(* A new block on pages that no block covers. *)
LEMMA GrowBlocks ==
    ASSUME NEW size \in Sizes, NEW B \in SUBSET Pages, Apart(size, B),
           NEW base \in Pages, NEW n \in Nat \ {0}, base + n <= NPages,
           Extent(base, n) \cap Space(size, B) = {},
           NEW m, m = Put(size, base, n)
    PROVE  Grown(m, size, B, base, n)
  <1>1. base \in Nat /\ n \in 0 .. NPages
    BY LinkTypes
  <1>2. B \subseteq Space(size, B)
    BY SpaceFinite
  <1>3. base \in Extent(base, n)
    BY <1>1, InExtent
  <1>4. base \notin B /\ B \cap Extent(base, n) = {}
    BY <1>2, <1>3
  <1>5. m \in Sizes /\ m[base] = n /\ \A b \in B : m[b] = size[b]
    BY <1>1, <1>4 DEF Sizes, Put
  <1>6. \A b \in B : b \in Nat /\ size[b] \in Nat /\ size[b] > 0 /\ b + size[b] <= NPages
    BY SizeTypes DEF Apart
  <1>7. ASSUME NEW b \in B, b < base PROVE b + size[b] <= base
    <2>1. SUFFICES ASSUME base < b + size[b] PROVE FALSE
      BY <1>1, <1>6
    <2>2. base \in Space(size, B)
      BY <1>1, <1>7, <2>1, <1>6, InSpace
    <2> QED
      BY <1>3, <2>2
  <1>8. ASSUME NEW c \in B, base < c PROVE base + n <= c
    <2>1. SUFFICES ASSUME c < base + n PROVE FALSE
      BY <1>1, <1>6
    <2>2. c \in Extent(base, n)
      BY <1>1, <1>8, <2>1, <1>6, InExtent
    <2> QED
      BY <1>4, <2>2
  <1>9. Apart(m, B \cup {base})
    <2>1. ASSUME NEW b \in B \cup {base} PROVE m[b] > 0 /\ b + m[b] <= NPages
      BY <1>1, <1>5, <1>6
    <2>2. ASSUME NEW b \in B \cup {base}, NEW c \in B \cup {base}, b < c PROVE b + m[b] <= c
      <3>1. CASE b = base /\ c = base
        BY <3>1, <2>2, <1>1
      <3>2. CASE b = base /\ c # base
        BY <3>2, <2>2, <1>5, <1>8
      <3>3. CASE b # base /\ c = base
        BY <3>3, <2>2, <1>5, <1>7
      <3>4. CASE b # base /\ c # base
        BY <3>4, <2>2, <1>5 DEF Apart
      <3> QED
        BY <3>1, <3>2, <3>3, <3>4
    <2> QED
      BY <2>1, <2>2 DEF Apart
  <1>10. Space(m, B \cup {base}) = Space(size, B) \cup Extent(base, n)
    <2>0. PICK C : C = B \cup {base}
      OBVIOUS
    <2>1. C \in SUBSET Pages
      BY <2>0
    <2>2. ASSUME NEW x
          PROVE  x \in Space(m, C) <=> x \in Space(size, B) \/ x \in Extent(base, n)
      <3>1. x \in Space(m, C) <=> x \in Int /\ \E b \in C : b <= x /\ x < b + m[b]
        <4>1. PICK k : k = m
          OBVIOUS
        <4>2. k \in Sizes
          BY <1>5, <4>1
        <4>3. x \in Space(k, C) <=> x \in Int /\ \E b \in C : b <= x /\ x < b + k[b]
          BY <2>1, <4>2, InSpace
        <4> QED
          BY <4>1, <4>3, Zenon
      <3>2. x \in Space(size, B) <=> x \in Int /\ \E b \in B : b <= x /\ x < b + size[b]
        BY InSpace
      <3>3. x \in Extent(base, n) <=> x \in Int /\ base <= x /\ x < base + n
        BY <1>1, InExtent
      <3> QED
        BY <1>5, <2>0, <3>1, <3>2, <3>3
    <2> QED
      BY <2>0, <2>2
  <1> QED
    BY <1>4, <1>5, <1>9, <1>10 DEF Grown

(* Two blocks that touch become one. *)
LEMMA JoinBlocks ==
    ASSUME NEW size \in Sizes, NEW B \in SUBSET Pages, Apart(size, B),
           NEW p \in B, NEW q \in B, p + size[p] = q,
           NEW m, m = Put(size, p, size[p] + size[q])
    PROVE  Joined(m, size, B, p, q)
  <1>1. /\ \A b \in B : b \in Nat /\ b \in Pages /\ size[b] \in Nat /\ size[b] > 0 /\ b + size[b] <= NPages
        /\ \A b, c \in B : b < c => b + size[b] <= c
    BY SizeTypes DEF Apart
  <1>2. p < q /\ p \in Nat /\ q \in Nat /\ size[p] \in Nat /\ size[q] \in Nat /\ q + size[q] <= NPages
    BY <1>1
  <1>3. size[p] + size[q] \in 0 .. NPages
    BY <1>2, LinkTypes
  <1>4. m \in Sizes /\ m[p] = size[p] + size[q] /\ \A b \in B \ {p} : m[b] = size[b]
    BY <1>1, <1>3 DEF Sizes, Put
  <1>5. Apart(m, B \ {q})
    <2>1. ASSUME NEW b \in B \ {q} PROVE m[b] > 0 /\ b + m[b] <= NPages
      BY <1>1, <1>2, <1>4
    <2>2. ASSUME NEW b \in B \ {q}, NEW c \in B \ {q}, b < c PROVE b + m[b] <= c
      <3>1. CASE b # p
        BY <1>1, <1>4, <2>2, <3>1
      <3>2. CASE b = p
        <4>1. c \in Nat /\ p + size[p] <= c /\ c # q
          BY <1>1, <2>2, <3>2
        <4>2. q < c
          BY <1>2, <4>1
        <4>3. q + size[q] <= c
          BY <1>1, <4>2
        <4> QED
          BY <1>2, <1>4, <3>2, <4>1, <4>3
      <3> QED
        BY <3>1, <3>2
    <2> QED
      BY <2>1, <2>2 DEF Apart
  <1>6. ASSUME NEW x
        PROVE  x \in Space(m, B \ {q}) <=> x \in Space(size, B)
    <2>1. B \ {q} \in SUBSET Pages
      OBVIOUS
    <2>2. x \in Space(m, B \ {q}) <=> x \in Int /\ \E b \in B \ {q} : b <= x /\ x < b + m[b]
      BY <1>4, <2>1, InSpace
    <2>3. x \in Space(size, B) <=> x \in Int /\ \E b \in B : b <= x /\ x < b + size[b]
      BY InSpace
    <2>4. ASSUME x \in Int, NEW b \in B \ {q}, b <= x, x < b + m[b]
          PROVE  \E d \in B : d <= x /\ x < d + size[d]
      <3>1. CASE b # p
        BY <1>4, <2>4, <3>1
      <3>2. CASE b = p
        <4>1. CASE x < q
          BY <2>4, <3>2, <4>1
        <4>2. CASE ~(x < q)
          <5>1. q <= x /\ x < q + size[q]
            BY <1>2, <1>4, <2>4, <3>2, <4>2
          <5> QED
            BY <5>1
        <4> QED
          BY <4>1, <4>2
      <3> QED
        BY <3>1, <3>2
    <2>5. ASSUME x \in Int, NEW b \in B, b <= x, x < b + size[b]
          PROVE  \E d \in B \ {q} : d <= x /\ x < d + m[d]
      <3>1. CASE b # p /\ b # q
        BY <1>4, <2>5, <3>1
      <3>2. CASE b = p \/ b = q
        <4>1. p <= x /\ x < p + m[p] /\ p \in B \ {q}
          BY <1>2, <1>4, <2>5, <3>2
        <4> QED
          BY <4>1
      <3> QED
        BY <3>1, <3>2
    <2> QED
      BY <2>2, <2>3, <2>4, <2>5
  <1> QED
    BY <1>2, <1>4, <1>5, <1>6 DEF Joined

(* A block gives all its pages. *)
LEMMA DropBlock ==
    ASSUME NEW size \in Sizes, NEW B \in SUBSET Pages, Apart(size, B), Gaps(size, B), NEW p \in B
    PROVE  /\ Apart(size, B \ {p}) /\ Gaps(size, B \ {p})
           /\ Space(size, B \ {p}) = Space(size, B) \ Extent(p, size[p])
  <1>1. /\ \A b \in B : b \in Nat /\ b \in Pages /\ size[b] \in Nat /\ size[b] > 0 /\ b + size[b] <= NPages
        /\ \A b, c \in B : b < c => b + size[b] <= c
    BY SizeTypes DEF Apart
  <1>2. Apart(size, B \ {p}) /\ Gaps(size, B \ {p})
    BY DEF Apart, Gaps
  <1>3. ASSUME NEW x
        PROVE  x \in Space(size, B \ {p}) <=> x \in Space(size, B) /\ x \notin Extent(p, size[p])
    <2>1. B \ {p} \in SUBSET Pages
      OBVIOUS
    <2>2. x \in Space(size, B \ {p}) <=> x \in Int /\ \E b \in B \ {p} : b <= x /\ x < b + size[b]
      BY <2>1, InSpace
    <2>3. x \in Space(size, B) <=> x \in Int /\ \E b \in B : b <= x /\ x < b + size[b]
      BY InSpace
    <2>4. x \in Extent(p, size[p]) <=> x \in Int /\ p <= x /\ x < p + size[p]
      BY <1>1, InExtent
    <2>5. ASSUME x \in Int, NEW b \in B \ {p}, b <= x, x < b + size[b]
          PROVE  ~(p <= x /\ x < p + size[p])
      <3>1. b < p \/ p < b
        BY <1>1
      <3>2. b < p => b + size[b] <= p
        BY <1>1
      <3>3. p < b => p + size[p] <= b
        BY <1>1
      <3> QED
        BY <1>1, <2>5, <3>1, <3>2, <3>3
    <2> QED
      BY <2>2, <2>3, <2>4, <2>5
  <1> QED
    BY <1>2, <1>3

(* A block gives its first pages. *)
LEMMA CutBlock ==
    ASSUME NEW size \in Sizes, NEW B \in SUBSET Pages, Apart(size, B), Gaps(size, B), NEW p \in B,
           NEW n \in Nat \ {0}, n < size[p], NEW r, r = p + n,
           NEW m, m = Put(size, r, size[p] - n)
    PROVE  Cut(m, size, B, p, n, r)
  <1>1. /\ \A b \in B : b \in Nat /\ b \in Pages /\ size[b] \in Nat /\ size[b] > 0 /\ b + size[b] <= NPages
        /\ \A b, c \in B : b < c => b + size[b] < c
    BY SizeTypes DEF Apart, Gaps
  <1>2. /\ p \in Nat /\ size[p] \in Nat /\ p < r /\ r < p + size[p] /\ r \in Nat /\ r \in Pages
        /\ size[p] - n \in 0 .. NPages /\ size[p] - n > 0 /\ r + (size[p] - n) = p + size[p]
    BY <1>1, LinkTypes DEF Pages
  <1>3. r \notin B
    BY <1>1, <1>2
  <1>4. m \in Sizes /\ m[r] = size[p] - n /\ \A b \in B : m[b] = size[b]
    BY <1>1, <1>2, <1>3 DEF Sizes, Put
  <1> DEFINE C == (B \ {p}) \cup {r}
  <1>5. ASSUME NEW b \in C PROVE m[b] > 0 /\ b + m[b] <= NPages
    BY <1>1, <1>2, <1>4
  <1>6. ASSUME NEW b \in C, NEW c \in C, b < c PROVE b + m[b] < c
    <2>1. CASE b = r /\ c = r
      BY <1>2, <1>6, <2>1
    <2>2. CASE b = r /\ c # r
      <3>1. c \in B /\ p < c /\ c \in Nat
        BY <1>1, <1>2, <1>6, <2>2
      <3>2. p + size[p] < c
        BY <1>1, <3>1
      <3> QED
        BY <1>2, <1>4, <2>2, <3>2
    <2>3. CASE b # r /\ c = r
      <3>1. b \in B /\ b # p /\ b < r /\ b \in Nat /\ size[b] \in Nat
        BY <1>1, <1>6, <2>3
      <3>2. b < p
        <4>1. ~(p < b)
          BY <1>1, <1>2, <3>1
        <4> QED
          BY <1>2, <3>1, <4>1
      <3>3. b + size[b] < p
        BY <1>1, <3>1, <3>2
      <3> QED
        BY <1>2, <1>4, <2>3, <3>1, <3>3
    <2>4. CASE b # r /\ c # r
      BY <1>1, <1>4, <1>6, <2>4
    <2> QED
      BY <2>1, <2>2, <2>3, <2>4
  <1>7. \A b \in C : b \in Nat /\ m[b] \in Nat
    BY <1>1, <1>2, <1>4
  <1>8. Apart(m, C) /\ Gaps(m, C)
    <2>1. \A b, c \in C : b < c => b + m[b] <= c
      BY <1>6, <1>7
    <2> HIDE DEF C
    <2> QED
      BY <1>5, <1>6, <2>1 DEF Apart, Gaps
  <1>9. ASSUME NEW x
        PROVE  x \in Space(m, C) <=> x \in Space(size, B) /\ x \notin Extent(p, n)
    <2>1. C \in SUBSET Pages
      BY <1>2
    <2>2. x \in Space(m, C) <=> x \in Int /\ \E b \in C : b <= x /\ x < b + m[b]
      BY <1>4, <2>1, InSpace
    <2>3. x \in Space(size, B) <=> x \in Int /\ \E b \in B : b <= x /\ x < b + size[b]
      BY InSpace
    <2>4. x \in Extent(p, n) <=> x \in Int /\ p <= x /\ x < r
      BY <1>1, InExtent
    <2>5. ASSUME x \in Int, NEW b \in C, b <= x, x < b + m[b]
          PROVE  ~(p <= x /\ x < r) /\ \E d \in B : d <= x /\ x < d + size[d]
      <3>1. CASE b = r
        <4>1. p <= x /\ x < p + size[p] /\ ~(x < r)
          BY <1>2, <1>4, <2>5, <3>1
        <4> QED
          BY <4>1
      <3>2. CASE b # r
        <4>1. b \in B /\ b # p /\ b \in Nat /\ size[b] \in Nat /\ x < b + size[b]
          BY <1>1, <1>4, <2>5, <3>2
        <4>2. b < p \/ p < b
          BY <1>2, <4>1
        <4>3. b < p => b + size[b] < p
          BY <1>1, <4>1
        <4>4. p < b => p + size[p] < b
          BY <1>1, <4>1
        <4>5. ~(p <= x /\ x < r)
          BY <1>2, <2>5, <4>1, <4>2, <4>3, <4>4
        <4> QED
          BY <2>5, <4>1, <4>5
      <3> QED
        BY <3>1, <3>2
    <2>6. ASSUME x \in Int, NEW b \in B, b <= x, x < b + size[b], ~(p <= x /\ x < r)
          PROVE  \E d \in C : d <= x /\ x < d + m[d]
      <3>1. CASE b # p
        BY <1>4, <2>6, <3>1
      <3>2. CASE b = p
        <4>1. r <= x /\ x < r + m[r] /\ r \in C
          BY <1>2, <1>4, <2>6, <3>2
        <4> QED
          BY <4>1
      <3> QED
        BY <3>1, <3>2
    <2> HIDE DEF C
    <2> QED
      BY <2>2, <2>3, <2>4, <2>5, <2>6
  <1>10. Space(m, C) = Space(size, B) \ Extent(p, n)
    BY <1>9
  <1> QED
    BY <1>2, <1>3, <1>4, <1>8, <1>10 DEF Cut

---------------------------------------------------------------------------
(* Freeing and allocating.                                                 *)

(* A list of blocks that do not overlap. *)
Area(f) == f \in FreeAreas /\ ListOf(f, f.PG_property) /\ Apart(f.property, f.PG_property)
SpaceOf(f) == Space(f.property, f.PG_property)

LEMMA AreaFacts ==
    ASSUME NEW f, Area(f)
    PROVE  /\ f \in FreeAreas /\ ListOf(f, f.PG_property) /\ Apart(f.property, f.PG_property)
           /\ f.property \in Sizes /\ f.PG_property \in SUBSET Pages /\ f.nr_free \in Int
           /\ f = [next |-> f.next, prev |-> f.prev, property |-> f.property, PG_property |-> f.PG_property,
                   nr_free |-> f.nr_free]
  BY DEF Area, FreeAreas, Sizes

(* Assignments to the fields of a free area. *)
Assign(f, s, P, n) == [f EXCEPT !.property = s, !.PG_property = P, !.nr_free = n]
AssignTwo(f, s, P) == [f EXCEPT !.property = s, !.PG_property = P]

LEMMA AssignFacts ==
    ASSUME NEW f \in FreeAreas, NEW s \in Sizes, NEW P \in SUBSET Pages, NEW n \in Int,
           NEW h, h = Assign(f, s, P, n)
    PROVE  /\ h \in FreeAreas /\ h.next = f.next /\ h.prev = f.prev /\ h.property = s
           /\ h.PG_property = P /\ h.nr_free = n
  BY DEF FreeAreas, Sizes, Assign

LEMMA AssignTwoFacts ==
    ASSUME NEW f \in FreeAreas, NEW s \in Sizes, NEW P \in SUBSET Pages,
           NEW h, h = AssignTwo(f, s, P)
    PROVE  /\ h \in FreeAreas /\ h.next = f.next /\ h.prev = f.prev /\ h.property = s
           /\ h.PG_property = P /\ h.nr_free = f.nr_free
  BY DEF FreeAreas, Sizes, AssignTwo

LEMMA AddBlockFacts ==
    ASSUME NEW f, Area(f), NEW B, B = f.PG_property, NEW base \in Pages, NEW n \in Nat \ {0},
           base + n <= NPages, Extent(base, n) \cap SpaceOf(f) = {},
           pmm_manager = "default" => B = {} \/ \E c \in B : base < c,
           NEW g, g = AddBlock(f, base, n)
    PROVE  /\ Area(g) /\ g.PG_property = B \cup {base} /\ base \notin B /\ g.nr_free = f.nr_free + n
           /\ SpaceOf(g) = SpaceOf(f) \cup Extent(base, n)
           /\ \A b \in B : g.property[b] = f.property[b]
  <1>1. PICK m : m = [f.property EXCEPT ![base] = n]
    OBVIOUS
  <1>2. /\ m \in Sizes /\ base \notin B /\ B \cap Extent(base, n) = {}
        /\ Apart(m, B \cup {base})
        /\ Space(m, B \cup {base}) = SpaceOf(f) \cup Extent(base, n)
        /\ \A b \in B : m[b] = f.property[b]
    <2>1. PICK size : size = f.property
      OBVIOUS
    <2>2. size \in Sizes /\ B \in SUBSET Pages /\ Apart(size, B) /\ SpaceOf(f) = Space(size, B)
      BY <2>1, AreaFacts DEF SpaceOf
    <2>3. m = Put(size, base, n)
      BY <1>1, <2>1 DEF Put
    <2>4. Extent(base, n) \cap Space(size, B) = {}
      BY <2>2
    <2>5. Grown(m, size, B, base, n)
      BY <2>2, <2>3, <2>4, GrowBlocks
    <2> QED
      BY <2>1, <2>2, <2>5 DEF Grown
  <1> DEFINE P == (f.PG_property \ Extent(base, n)) \cup {base}
             h == Assign(f, m, P, f.nr_free + n)
  <1>3. P = B \cup {base} /\ P \in SUBSET Pages
    BY <1>2, AreaFacts
  <1>5. g = IF pmm_manager = "default" THEN Link(h, base) ELSE LinkBehind(h, base)
    BY <1>1 DEF AddBlock, Assign
  <1> HIDE DEF h, P
  <1>6. /\ h.next = f.next /\ h.prev = f.prev /\ h.property = m /\ h.PG_property = B \cup {base}
        /\ h.nr_free = f.nr_free + n /\ h \in FreeAreas
    <2>1. f \in FreeAreas /\ f.nr_free + n \in Int /\ h = Assign(f, m, P, f.nr_free + n)
      BY AreaFacts DEF h
    <2> QED
      BY <1>2, <1>3, <2>1, AssignFacts
  <1>7. ListOf(h, B)
    BY <1>6, AreaFacts DEF ListOf
  <1>8. g \in FreeAreas /\ ListOf(g, B \cup {base}) /\ SameBlocks(g, h)
    <2>1. CASE pmm_manager = "default"
      <3>1. g = Link(h, base) /\ (B = {} \/ \E c \in B : base < c)
        BY <1>5, <2>1
      <3> QED
        BY <1>2, <1>6, <1>7, <3>1, LinkFacts
    <2>2. CASE pmm_manager # "default"
      <3>1. g = LinkBehind(h, base)
        BY <1>5, <2>2
      <3> QED
        BY <1>2, <1>6, <1>7, <3>1, LinkBehindFacts
    <2> QED
      BY <2>1, <2>2
  <1>9. g.property = m /\ g.PG_property = B \cup {base} /\ g.nr_free = f.nr_free + n
    BY <1>6, <1>8 DEF SameBlocks
  <1> QED
    BY <1>2, <1>8, <1>9 DEF Area, SpaceOf

LEMMA SwallowFacts ==
    ASSUME NEW f, Area(f), NEW B, B = f.PG_property, NEW p \in B, NEW q \in B, p + f.property[p] = q,
           NEW g, g = Swallow(f, p, q)
    PROVE  /\ Area(g) /\ g.PG_property = B \ {q} /\ g.nr_free = f.nr_free /\ SpaceOf(g) = SpaceOf(f)
           /\ p < q /\ g.property[p] = f.property[p] + f.property[q]
           /\ \A b \in B \ {p} : g.property[b] = f.property[b]
  <1>1. PICK m : m = [f.property EXCEPT ![p] = f.property[p] + f.property[q]]
    OBVIOUS
  <1>2. /\ m \in Sizes /\ p < q /\ m[p] = f.property[p] + f.property[q]
        /\ \A b \in B \ {p} : m[b] = f.property[b]
        /\ Apart(m, B \ {q}) /\ Space(m, B \ {q}) = SpaceOf(f)
    <2>1. PICK size : size = f.property
      OBVIOUS
    <2>2. size \in Sizes /\ B \in SUBSET Pages /\ Apart(size, B) /\ SpaceOf(f) = Space(size, B)
      BY <2>1, AreaFacts DEF SpaceOf
    <2>3. m = Put(size, p, size[p] + size[q]) /\ p + size[p] = q
      BY <1>1, <2>1 DEF Put
    <2>4. Joined(m, size, B, p, q)
      BY <2>2, <2>3, JoinBlocks
    <2> QED
      BY <2>1, <2>2, <2>4 DEF Joined
  <1> DEFINE P == f.PG_property \ {q}
             h == AssignTwo(f, m, P)
  <1>3. P = B \ {q} /\ P \in SUBSET Pages
    BY AreaFacts
  <1>4. g = list_del(h, q)
    BY <1>1 DEF Swallow, AssignTwo
  <1> HIDE DEF h, P
  <1>5. /\ h.next = f.next /\ h.prev = f.prev /\ h.property = m /\ h.PG_property = B \ {q}
        /\ h.nr_free = f.nr_free /\ h \in FreeAreas
    <2>1. f \in FreeAreas /\ h = AssignTwo(f, m, P)
      BY AreaFacts DEF h
    <2> QED
      BY <1>2, <1>3, <2>1, AssignTwoFacts
  <1>6. ListOf(h, B)
    BY <1>5, AreaFacts DEF ListOf
  <1>7. g \in FreeAreas /\ ListOf(g, B \ {q}) /\ SameBlocks(g, h)
    BY <1>4, <1>5, <1>6, DelFacts, SMTT(30)
  <1>8. g.property = m /\ g.PG_property = B \ {q} /\ g.nr_free = f.nr_free
    BY <1>5, <1>7 DEF SameBlocks
  <1> QED
    BY <1>2, <1>7, <1>8 DEF Area, SpaceOf

(* Only block y may touch the block behind it. *)
GapsBehind(size, B, y) == \A b, c \in B : b < c /\ b # y => b + size[b] < c

LEMMA MergeFront ==
    ASSUME NEW f, Area(f), NEW B, B = f.PG_property, NEW base \in B, Gaps(f.property, B \ {base}),
           NEW front, front = Touch(f, f.prev[base], base),
           NEW g, g = IF front THEN Swallow(f, f.prev[base], base) ELSE f,
           NEW y, y = IF front THEN f.prev[base] ELSE base
    PROVE  /\ Area(g) /\ y \in g.PG_property /\ GapsBehind(g.property, g.PG_property, y)
           /\ SpaceOf(g) = SpaceOf(f) /\ g.nr_free = f.nr_free
  <1>1. PICK a : a = f.prev[base]
    OBVIOUS
  <1>2. PICK size : size = f.property
    OBVIOUS
  <1>3. /\ ListOf(f, B) /\ B \in SUBSET Pages /\ size \in Sizes /\ Apart(size, B) /\ Gaps(size, B \ {base})
    BY <1>2, AreaFacts
  <1>4. /\ a \in B \cup {free_list} /\ a < base
        /\ \A b \in B : b < base => a # free_list /\ b <= a
    BY <1>1, <1>3, Neighbours
  <1>5. \A b \in B : b \in Nat /\ b # free_list /\ size[b] \in Nat
    BY <1>3, SizeTypes, LinkTypes
  <1>6. CASE front
    <2>1. a # free_list /\ a + size[a] = base /\ g = Swallow(f, a, base) /\ y = a
      BY <1>1, <1>2, <1>6 DEF Touch
    <2>2. a \in B
      BY <1>4, <2>1
    <2>3. /\ Area(g) /\ g.PG_property = B \ {base} /\ g.nr_free = f.nr_free /\ SpaceOf(g) = SpaceOf(f)
          /\ \A b \in B \ {a} : g.property[b] = size[b]
      <3>1. a + f.property[a] = base
        BY <1>2, <2>1
      <3>2. PICK h : h = Swallow(f, a, base)
        OBVIOUS
      <3>3. /\ Area(h) /\ h.PG_property = B \ {base} /\ h.nr_free = f.nr_free /\ SpaceOf(h) = SpaceOf(f)
            /\ \A b \in B \ {a} : h.property[b] = f.property[b]
        BY <2>2, <3>1, <3>2, SwallowFacts
      <3>4. g = h
        BY <2>1, <3>2
      <3> QED
        BY <1>2, <3>3, <3>4
    <2>4. GapsBehind(g.property, B \ {base}, a)
      BY <1>3, <2>3 DEF GapsBehind, Gaps
    <2>5. a # base
      BY <1>4, <1>5, <2>2
    <2> QED
      BY <2>1, <2>2, <2>3, <2>4, <2>5
  <1>7. CASE ~front
    <2>1. g = f /\ y = base /\ (a = free_list \/ a + size[a] # base)
      BY <1>1, <1>2, <1>5, <1>7 DEF Touch
    <2>2. ASSUME NEW b \in B, NEW c \in B, b < c, b # base PROVE b + size[b] < c
      <3>1. CASE c # base
        BY <1>3, <2>2, <3>1 DEF Gaps
      <3>2. CASE c = base
        <4>1. a # free_list /\ a \in B /\ b <= a
          BY <1>4, <2>2, <3>2
        <4>2. a + size[a] <= base /\ a \in Nat /\ b \in Nat /\ base \in Nat /\ size[a] \in Nat /\ size[b] \in Nat
          BY <1>3, <1>4, <1>5, <4>1 DEF Apart
        <4>3. CASE b = a
          BY <2>1, <3>2, <4>1, <4>2, <4>3
        <4>4. CASE b # a
          <5>1. b + size[b] <= a
            BY <1>3, <4>1, <4>2, <4>4 DEF Apart
          <5> QED
            BY <1>4, <3>2, <4>2, <5>1
        <4> QED
          BY <4>3, <4>4
      <3> QED
        BY <3>1, <3>2
    <2>3. GapsBehind(size, B, base)
      BY <2>2 DEF GapsBehind
    <2> QED
      BY <1>2, <2>1, <2>3
  <1> QED
    BY <1>6, <1>7

LEMMA MergeBehind ==
    ASSUME NEW f, Area(f), NEW B, B = f.PG_property, NEW y \in B, GapsBehind(f.property, B, y),
           NEW g, g = IF Touch(f, y, f.next[y]) THEN Swallow(f, y, f.next[y]) ELSE f
    PROVE  /\ Area(g) /\ Gaps(g.property, g.PG_property)
           /\ SpaceOf(g) = SpaceOf(f) /\ g.nr_free = f.nr_free
  <1>1. PICK c : c = f.next[y]
    OBVIOUS
  <1>2. PICK size : size = f.property
    OBVIOUS
  <1>3. /\ ListOf(f, B) /\ B \in SUBSET Pages /\ size \in Sizes /\ Apart(size, B) /\ GapsBehind(size, B, y)
    BY <1>2, AreaFacts
  <1>4. /\ c \in B \cup {free_list}
        /\ \A b \in B : y < b => c # free_list /\ c <= b
        /\ c # free_list => y < c
    BY <1>1, <1>3, Neighbours
  <1>5. \A b \in B : b \in Nat /\ b # free_list /\ size[b] \in Nat
    BY <1>3, SizeTypes, LinkTypes
  <1>6. CASE Touch(f, y, c)
    <2>1. c \in B /\ y + size[y] = c /\ g = Swallow(f, y, c) /\ y < c
      BY <1>1, <1>2, <1>4, <1>6 DEF Touch
    <2>2. /\ Area(g) /\ g.PG_property = B \ {c} /\ g.nr_free = f.nr_free /\ SpaceOf(g) = SpaceOf(f)
          /\ g.property[y] = size[y] + size[c]
          /\ \A b \in B \ {y} : g.property[b] = size[b]
      BY <1>2, <2>1, SwallowFacts
    <2>3. ASSUME NEW b \in B \ {c}, NEW d \in B \ {c}, b < d PROVE b + g.property[b] < d
      <3>1. CASE b # y
        BY <1>3, <2>2, <2>3, <3>1 DEF GapsBehind
      <3>2. CASE b = y
        <4>1. c <= d /\ c \in Nat /\ d \in Nat /\ c # d /\ c # y
          BY <1>4, <1>5, <2>1, <2>3, <3>2
        <4>2. c + size[c] < d
          BY <1>3, <2>1, <4>1 DEF GapsBehind
        <4>3. y \in Nat /\ size[y] \in Nat /\ size[c] \in Nat
          BY <1>5, <2>1
        <4> QED
          BY <2>1, <2>2, <3>2, <4>1, <4>2, <4>3
      <3> QED
        BY <3>1, <3>2
    <2> QED
      BY <2>2, <2>3 DEF Gaps
  <1>7. CASE ~Touch(f, y, c)
    <2>1. g = f /\ (c = free_list \/ y + size[y] # c)
      BY <1>1, <1>2, <1>5, <1>7 DEF Touch
    <2>2. ASSUME NEW b \in B, NEW d \in B, b < d PROVE b + size[b] < d
      <3>1. CASE b # y
        BY <1>3, <2>2, <3>1 DEF GapsBehind
      <3>2. CASE b = y
        <4>1. c # free_list /\ c \in B /\ c <= d /\ y < c
          BY <1>4, <2>2, <3>2
        <4>2. y + size[y] <= c /\ y \in Nat /\ size[y] \in Nat /\ c \in Nat /\ d \in Nat
          BY <1>3, <1>5, <4>1 DEF Apart
        <4> QED
          BY <2>1, <3>2, <4>1, <4>2
      <3> QED
        BY <3>1, <3>2
    <2> QED
      BY <1>2, <2>1, <2>2 DEF Gaps
  <1> QED
    BY <1>1, <1>6, <1>7

(* What free_pages has merged: no two blocks touch, and no page is lost. *)
LEMMA MergeFacts ==
    ASSUME NEW f, Area(f), NEW base \in f.PG_property, Gaps(f.property, f.PG_property \ {base}),
           NEW g, g = Merge(f, base)
    PROVE  /\ Area(g) /\ Gaps(g.property, g.PG_property)
           /\ SpaceOf(g) = SpaceOf(f) /\ g.nr_free = f.nr_free
  <1>1. PICK front : front = Touch(f, f.prev[base], base)
    OBVIOUS
  <1>2. PICK h : h = IF front THEN Swallow(f, f.prev[base], base) ELSE f
    OBVIOUS
  <1>3. PICK y : y = IF front THEN f.prev[base] ELSE base
    OBVIOUS
  <1>4. g = IF Touch(h, y, h.next[y]) THEN Swallow(h, y, h.next[y]) ELSE h
    BY <1>1, <1>2, <1>3 DEF Merge
  <1>5. /\ Area(h) /\ y \in h.PG_property /\ GapsBehind(h.property, h.PG_property, y)
        /\ SpaceOf(h) = SpaceOf(f) /\ h.nr_free = f.nr_free
    BY <1>1, <1>2, <1>3, MergeFront
  <1> QED
    BY <1>4, <1>5, MergeBehind

AssignCount(f, P, n) == [f EXCEPT !.nr_free = n, !.PG_property = P]

LEMMA AssignCountFacts ==
    ASSUME NEW f \in FreeAreas, NEW P \in SUBSET Pages, NEW n \in Int, NEW h, h = AssignCount(f, P, n)
    PROVE  /\ h \in FreeAreas /\ h.next = f.next /\ h.prev = f.prev /\ h.property = f.property
           /\ h.PG_property = P /\ h.nr_free = n
  BY DEF FreeAreas, AssignCount

(* A list of blocks with gaps between them; it covers the pages S. *)
Separate(f, S) == Area(f) /\ Gaps(f.property, f.PG_property) /\ SpaceOf(f) = S

(* The steps of TakeBlock, when the block is used up and when a rest is left. *)
AllTaken(f, p, n, g, r) == g = list_del(f, p) /\ r = AssignCount(g, g.PG_property \ {p}, g.nr_free - n)
SomeTaken(f, p, n, g, h, k, r) ==
    /\ g = list_del(f, p)
    /\ h = AssignTwo(g, Put(g.property, p + n, g.property[p] - n), g.PG_property \cup {p + n})
    /\ k = list_add(h, f.prev[p], p + n)
    /\ r = AssignCount(k, k.PG_property \ {p}, k.nr_free - n)

LEMMA TakeAll ==
    ASSUME NEW f, NEW S, Separate(f, S), NEW p \in f.PG_property, NEW n \in Nat \ {0},
           n = f.property[p], NEW g, NEW r, AllTaken(f, p, n, g, r)
    PROVE  Separate(r, S \ Extent(p, n)) /\ r.nr_free = f.nr_free - n
  <1>1. PICK B : B = f.PG_property
    OBVIOUS
  <1>2. PICK size : size = f.property
    OBVIOUS
  <1>3. /\ f \in FreeAreas /\ ListOf(f, B) /\ Apart(size, B) /\ Gaps(size, B) /\ size \in Sizes
        /\ B \in SUBSET Pages /\ f.nr_free \in Int /\ Space(size, B) = S
    BY <1>1, <1>2, AreaFacts DEF Separate, SpaceOf
  <1>4. g \in FreeAreas /\ ListOf(g, B \ {p}) /\ g.property = size /\ g.PG_property = B /\ g.nr_free = f.nr_free
    <2>1. g = list_del(f, p) /\ p \in B
      BY <1>1 DEF AllTaken
    <2>2. g \in FreeAreas /\ ListOf(g, B \ {p}) /\ SameBlocks(g, f)
      BY <1>3, <2>1, DelFacts
    <2> QED
      BY <1>1, <1>2, <2>2 DEF SameBlocks
  <1>5. B \ {p} \in SUBSET Pages /\ f.nr_free - n \in Int
    BY <1>3
  <1>6. /\ r \in FreeAreas /\ r.next = g.next /\ r.prev = g.prev /\ r.property = size
        /\ r.PG_property = B \ {p} /\ r.nr_free = f.nr_free - n
    <2>1. PICK P : P = B \ {p}
      OBVIOUS
    <2>2. PICK j : j = f.nr_free - n
      OBVIOUS
    <2>3. r = AssignCount(g, P, j)
      BY <1>4, <2>1, <2>2 DEF AllTaken
    <2>4. /\ r \in FreeAreas /\ r.next = g.next /\ r.prev = g.prev /\ r.property = g.property
          /\ r.PG_property = P /\ r.nr_free = j
      BY <1>4, <1>5, <2>1, <2>2, <2>3, AssignCountFacts
    <2> QED
      BY <1>4, <2>1, <2>2, <2>4
  <1>7. ListOf(r, B \ {p})
    BY <1>4, <1>6 DEF ListOf
  <1>8. /\ Apart(size, B \ {p}) /\ Gaps(size, B \ {p})
        /\ Space(size, B \ {p}) = S \ Extent(p, size[p])
    BY <1>1, <1>3, DropBlock
  <1> QED
    BY <1>2, <1>6, <1>7, <1>8 DEF Separate, Area, SpaceOf

LEMMA TakeSome ==
    ASSUME NEW f, NEW S, Separate(f, S), NEW p \in f.PG_property, NEW n \in Nat \ {0},
           n < f.property[p], NEW g, NEW h, NEW k, NEW r, SomeTaken(f, p, n, g, h, k, r)
    PROVE  Separate(r, S \ Extent(p, n)) /\ r.nr_free = f.nr_free - n
  <1>1. PICK B : B = f.PG_property
    OBVIOUS
  <1>2. PICK size : size = f.property
    OBVIOUS
  <1>3. PICK x : x = p + n
    OBVIOUS
  <1>4. PICK m : m = Put(size, x, size[p] - n)
    OBVIOUS
  <1>5. /\ f \in FreeAreas /\ ListOf(f, B) /\ Apart(size, B) /\ Gaps(size, B) /\ size \in Sizes
        /\ B \in SUBSET Pages /\ f.nr_free \in Int /\ Space(size, B) = S /\ p \in B
    BY <1>1, <1>2, AreaFacts DEF Separate, SpaceOf
  <1>6. Cut(m, size, B, p, n, x)
    BY <1>2, <1>3, <1>4, <1>5, CutBlock
  <1>7. /\ x \in Pages /\ x \notin B /\ m \in Sizes
        /\ Apart(m, (B \ {p}) \cup {x}) /\ Gaps(m, (B \ {p}) \cup {x})
        /\ Space(m, (B \ {p}) \cup {x}) = S \ Extent(p, n)
    BY <1>5, <1>6 DEF Cut
  <1>8. PICK a : a = f.prev[p]
    OBVIOUS
  <1>9. PICK c : c = f.next[p]
    OBVIOUS
  <1>10. /\ g \in FreeAreas /\ ListOf(g, B \ {p}) /\ g.property = size /\ g.PG_property = B
         /\ g.nr_free = f.nr_free /\ g.next[a] = c
    <2>1. g = list_del(f, p)
      BY DEF SomeTaken
    <2>2. g \in FreeAreas /\ ListOf(g, B \ {p}) /\ SameBlocks(g, f) /\ g.next[f.prev[p]] = f.next[p]
      BY <1>5, <2>1, DelFacts
    <2> QED
      BY <1>1, <1>2, <1>8, <1>9, <2>2 DEF SameBlocks
  <1>11. h = AssignTwo(g, m, B \cup {x}) /\ B \cup {x} \in SUBSET Pages
    BY <1>3, <1>4, <1>5, <1>7, <1>10 DEF SomeTaken
  <1>12. /\ h \in FreeAreas /\ h.next = g.next /\ h.prev = g.prev /\ h.property = m
         /\ h.PG_property = B \cup {x} /\ h.nr_free = f.nr_free
    <2>1. PICK P : P = B \cup {x}
      OBVIOUS
    <2>2. /\ h \in FreeAreas /\ h.next = g.next /\ h.prev = g.prev /\ h.property = m
          /\ h.PG_property = P /\ h.nr_free = g.nr_free
      BY <1>7, <1>10, <1>11, <2>1, AssignTwoFacts
    <2> QED
      BY <1>10, <2>1, <2>2
  <1>13. ListOf(h, B \ {p})
    BY <1>10, <1>12 DEF ListOf
  <1>14. /\ a \in B \cup {free_list} /\ c \in B \cup {free_list} /\ a < p /\ (c # free_list => p < c)
    BY <1>5, <1>8, <1>9, Neighbours
  <1>15. /\ p \in Nat /\ x \in Nat /\ p < x /\ x < p + size[p] /\ size[p] \in Nat
         /\ \A b \in B : b \in Nat
    BY <1>2, <1>3, <1>5, SizeTypes
  <1>16. a \in Int /\ a # p /\ a < x
    BY <1>5, <1>14, <1>15, LinkTypes
  <1>17. c = free_list \/ x < c
    <2>1. SUFFICES ASSUME c # free_list PROVE x < c
      OBVIOUS
    <2>2. c \in B /\ p < c
      BY <1>14, <2>1
    <2>3. p + size[p] < c
      BY <1>5, <2>2, SMTT(30) DEF Gaps
    <2> QED
      BY <1>15, <2>2, <2>3
  <1>18. k = __list_add(h, x, a, c) /\ c = h.next[a]
    BY <1>3, <1>8, <1>10, <1>12 DEF list_add, SomeTaken
  <1>19. PICK D : D = B \ {p}
    OBVIOUS
  <1>20. ListOf(h, D) /\ x \notin D /\ a \in D \cup {free_list}
    BY <1>7, <1>13, <1>14, <1>16, <1>19
  <1>21. k \in FreeAreas /\ ListOf(k, D \cup {x}) /\ SameBlocks(k, h)
    BY <1>7, <1>12, <1>16, <1>17, <1>18, <1>20, AddFacts
  <1>22. k.property = m /\ k.PG_property = B \cup {x} /\ k.nr_free = f.nr_free
    BY <1>12, <1>21 DEF SameBlocks
  <1>23. k.PG_property \ {p} = D \cup {x} /\ D \cup {x} \in SUBSET Pages /\ f.nr_free - n \in Int
    BY <1>5, <1>7, <1>15, <1>19, <1>22
  <1>24. r = AssignCount(k, D \cup {x}, f.nr_free - n)
    BY <1>22, <1>23 DEF SomeTaken
  <1>25. /\ r \in FreeAreas /\ r.next = k.next /\ r.prev = k.prev /\ r.property = m
         /\ r.PG_property = D \cup {x} /\ r.nr_free = f.nr_free - n
    <2>1. PICK P : P = D \cup {x}
      OBVIOUS
    <2>2. PICK j : j = f.nr_free - n
      OBVIOUS
    <2>3. r = AssignCount(k, P, j) /\ P \in SUBSET Pages /\ j \in Int
      BY <1>23, <1>24, <2>1, <2>2
    <2>4. /\ r \in FreeAreas /\ r.next = k.next /\ r.prev = k.prev /\ r.property = k.property
          /\ r.PG_property = P /\ r.nr_free = j
      BY <1>21, <2>3, AssignCountFacts
    <2> QED
      BY <1>22, <2>1, <2>2, <2>4
  <1>26. ListOf(r, D \cup {x})
    BY <1>21, <1>25 DEF ListOf
  <1> QED
    BY <1>7, <1>19, <1>25, <1>26 DEF Separate, Area, SpaceOf

LEMMA TakeFacts ==
    ASSUME NEW S, Separate(fa, S), NEW p \in fa.PG_property, NEW n \in Nat \ {0},
           n <= fa.property[p], NEW r, r = TakeBlock(p, n)
    PROVE  Separate(r, S \ Extent(p, n)) /\ r.nr_free = fa.nr_free - n
  <1>1. PICK f : f = fa
    OBVIOUS
  <1>2. Separate(f, S) /\ p \in f.PG_property /\ f.property[p] \in Nat
    <2>1. Area(fa)
      BY DEF Separate
    <2>2. fa.property \in Sizes /\ fa.PG_property \in SUBSET Pages
      BY <2>1, AreaFacts
    <2>3. fa.property[p] \in Nat
      BY <2>2, SizeTypes
    <2> QED
      BY <1>1, <2>3
  <1>3. PICK g : g = list_del(f, p)
    OBVIOUS
  <1>4. CASE f.property[p] = n
    <2>1. AllTaken(f, p, n, g, r)
      BY <1>1, <1>3, <1>4 DEF TakeBlock, AssignCount, AllTaken
    <2> QED
      BY <1>1, <1>2, <1>3, <1>4, <2>1, TakeAll
  <1>5. CASE f.property[p] # n
    <2>1. PICK h : h = AssignTwo(g, Put(g.property, p + n, g.property[p] - n), g.PG_property \cup {p + n})
      OBVIOUS
    <2>2. PICK k : k = list_add(h, f.prev[p], p + n)
      OBVIOUS
    <2>3. SomeTaken(f, p, n, g, h, k, r)
      <3>1. r = AssignCount(k, k.PG_property \ {p}, k.nr_free - n)
        BY <1>1, <1>3, <1>5, <2>1, <2>2 DEF TakeBlock, AssignCount, AssignTwo, Put
      <3> QED
        BY <1>3, <2>1, <2>2, <3>1 DEF SomeTaken
    <2>4. n < f.property[p]
      BY <1>1, <1>2, <1>5
    <2> QED
      BY <1>1, <1>2, <2>3, <2>4, TakeSome
  <1> QED
    BY <1>4, <1>5

(* What Forget returns is the same list. *)
LEMMA ForgetSeparate ==
    ASSUME NEW f, NEW S, Separate(f, S), NEW g, g = Forget(f)
    PROVE  Separate(g, S) /\ g.nr_free = f.nr_free
  <1>1. f \in FreeAreas /\ ListOf(f, f.PG_property) /\ Apart(f.property, f.PG_property)
    BY AreaFacts DEF Separate
  <1>2. /\ g \in FreeAreas /\ g.PG_property = f.PG_property /\ g.nr_free = f.nr_free
        /\ ListOf(g, g.PG_property) /\ \A b \in g.PG_property : g.property[b] = f.property[b]
    BY <1>1, ForgetFacts
  <1>3. Apart(g.property, g.PG_property) /\ Gaps(g.property, g.PG_property)
    BY <1>1, <1>2 DEF Apart, Gaps, Separate
  <1>4. SpaceOf(g) = SpaceOf(f)
    <2>1. {Extent(b, g.property[b]) : b \in g.PG_property} = {Extent(b, f.property[b]) : b \in f.PG_property}
      BY <1>2
    <2> QED
      BY <2>1 DEF SpaceOf, Space
  <1> QED
    BY <1>2, <1>3, <1>4 DEF Separate, Area

---------------------------------------------------------------------------
(* The invariant.                                                          *)

(* The managers and memories for which the free list stays one. *)
Supported == SpareTop \/ pmm_manager = "best_fit"

(* The free pages are those of separate blocks, and nobody owns them; with
   default_pmm.c the last page is one of them, so that no block is ever added
   at the end. *)
Held ==
    /\ owned \cap SpaceOf(fa) = {}
    /\ reserved => owned = {} /\ fa.PG_property = {}
    /\ ~reserved /\ pmm_manager = "default" => NPages - 1 \in SpaceOf(fa)

Types ==
    /\ pmm_manager \in {"default", "best_fit"} /\ reserved \in BOOLEAN /\ owned \subseteq Pages
    /\ ret \in Pages \cup {NULL} /\ panic = FALSE

(* The inductive invariant. *)
Inv ==
    /\ Types /\ Supported
    /\ Separate(fa, SpaceOf(fa)) /\ fa.nr_free = Cardinality(SpaceOf(fa))
    /\ Held

LEMMA InvFacts ==
    ASSUME Inv
    PROVE  /\ Area(fa) /\ ListOf(fa, fa.PG_property) /\ fa.property \in Sizes /\ fa.PG_property \in SUBSET Pages
           /\ Apart(fa.property, fa.PG_property) /\ Gaps(fa.property, fa.PG_property)
           /\ SpaceOf(fa) \in SUBSET Pages /\ IsFiniteSet(SpaceOf(fa)) /\ fa.nr_free \in 0 .. NPages
           /\ fa.PG_property \subseteq SpaceOf(fa)
  <1>1. Area(fa) /\ Gaps(fa.property, fa.PG_property) /\ fa.nr_free = Cardinality(SpaceOf(fa))
    BY DEF Inv, Separate
  <1>2. /\ ListOf(fa, fa.PG_property) /\ fa.property \in Sizes /\ fa.PG_property \in SUBSET Pages
        /\ Apart(fa.property, fa.PG_property)
    BY <1>1, AreaFacts
  <1> QED
    BY <1>1, <1>2, SpaceFinite DEF SpaceOf

(* FreePages is the space of the blocks. *)
LEMMA AreaPages ==
    ASSUME NEW f, Area(f)
    PROVE  FreePages(f) = SpaceOf(f) /\ InChain(f) = f.PG_property
  <1>1. InChain(f) = f.PG_property
    BY AreaFacts, ChainFacts
  <1> QED
    BY <1>1 DEF FreePages, SpaceOf, Space

LEMMA FreePagesFacts ==
    /\ Inv => FreePages(fa) = SpaceOf(fa) /\ InChain(fa) = fa.PG_property
    /\ Inv' => FreePages(fa)' = SpaceOf(fa)'
  <1>1. ASSUME Inv PROVE FreePages(fa) = SpaceOf(fa) /\ InChain(fa) = fa.PG_property
    BY <1>1, InvFacts, AreaPages
  <1>2. ASSUME Inv' PROVE FreePages(fa)' = SpaceOf(fa)'
    <2>1. Area(fa')
      BY <1>2 DEF Inv, Separate
    <2>2. FreePages(fa') = SpaceOf(fa')
      BY <2>1, AreaPages
    <2> QED
      BY <2>2
  <1> QED
    BY <1>1, <1>2

LEMMA InitInv ==
    ASSUME Init, Supported
    PROVE  Inv
  <1>1. PICK f : f = fa
    OBVIOUS
  <1>2. f = [next |-> [e \in Links |-> e], prev |-> [e \in Links |-> e],
             property |-> [p \in Pages |-> 0], PG_property |-> {}, nr_free |-> 0]
    BY <1>1 DEF Init
  <1>3. f \in FreeAreas /\ f.PG_property = {} /\ f.nr_free = 0
    BY <1>2, LinkTypes DEF FreeAreas
  <1>4. ListOf(f, {})
    BY <1>2, LinkTypes DEF ListOf, Linked
  <1>5. Apart(f.property, {}) /\ Gaps(f.property, {}) /\ Space(f.property, {}) = {}
    BY DEF Apart, Gaps, Space
  <1>6. Separate(f, {}) /\ SpaceOf(f) = {}
    BY <1>3, <1>4, <1>5 DEF Separate, Area, SpaceOf
  <1>7. Cardinality({}) = 0
    BY FS_EmptySet
  <1>8. Types
    BY DEF Init, Types
  <1>9. Held
    BY <1>1, <1>3, <1>6 DEF Init, Held
  <1> QED
    BY <1>1, <1>3, <1>6, <1>7, <1>8, <1>9 DEF Inv

(* More pages than are counted are not free. *)
LEMMA CountFacts ==
    ASSUME NEW S, IsFiniteSet(S), NEW base \in Int, NEW n \in Nat \ {0}
    PROVE  /\ IsFiniteSet(Extent(base, n)) /\ Cardinality(Extent(base, n)) = n
           /\ Extent(base, n) \subseteq S => Cardinality(S \ Extent(base, n)) = Cardinality(S) - n
           /\ Extent(base, n) \subseteq S => n <= Cardinality(S)
           /\ Extent(base, n) \cap S = {} => Cardinality(S \cup Extent(base, n)) = Cardinality(S) + n
  <1>1. PICK E : E = Extent(base, n)
    OBVIOUS
  <1>2. IsFiniteSet(E) /\ Cardinality(E) = n
    <2>1. base + n - 1 \in Int /\ ~(base > base + n - 1) /\ (base + n - 1) - base + 1 = n
      OBVIOUS
    <2> QED
      BY <1>1, <2>1, FS_Interval DEF Extent
  <1>3. ASSUME E \subseteq S PROVE Cardinality(S \ E) = Cardinality(S) - n /\ n <= Cardinality(S)
    <2>1. S \cap E = E
      BY <1>3
    <2>2. Cardinality(S \ E) = Cardinality(S) - Cardinality(S \cap E)
      BY FS_Difference
    <2>3. Cardinality(E) <= Cardinality(S)
      BY <1>3, FS_Subset
    <2> QED
      BY <1>2, <2>1, <2>2, <2>3
  <1>4. ASSUME E \cap S = {} PROVE Cardinality(S \cup E) = Cardinality(S) + n
    <2>1. S \cap E = {}
      BY <1>4
    <2>2. Cardinality(S \cup E) = Cardinality(S) + Cardinality(E) - Cardinality(S \cap E)
      BY <1>2, FS_Union
    <2>3. Cardinality(S) \in Nat /\ Cardinality(S \cap E) = 0
      BY <2>1, FS_CardinalityType, FS_EmptySet
    <2> QED
      BY <1>2, <2>2, <2>3
  <1> QED
    BY <1>1, <1>2, <1>3, <1>4

(* What alloc_pages takes from a block. *)
Taken(p, n) == p \in fa.PG_property /\ n <= fa.property[p]

LEMMA AllocateInv ==
    ASSUME Inv, ~reserved, NEW n \in Nat \ {0}, NEW p, Taken(p, n), Allocate(p, n),
           pmm_manager = "default" => p + n < NPages
    PROVE  /\ Inv' /\ SpaceOf(fa)' = SpaceOf(fa) \ Extent(p, n) /\ Extent(p, n) \subseteq SpaceOf(fa)
  <1>1. PICK S : S = SpaceOf(fa)
    OBVIOUS
  <1>2. PICK f : f = fa
    OBVIOUS
  <1>3. PICK r : r = TakeBlock(p, n)
    OBVIOUS
  <1>4. Separate(f, S) /\ f.nr_free = Cardinality(S) /\ IsFiniteSet(S) /\ S \in SUBSET Pages
    BY <1>1, <1>2, InvFacts DEF Inv
  <1>5. Separate(r, S \ Extent(p, n)) /\ r.nr_free = f.nr_free - n
    BY <1>2, <1>3, <1>4, TakeFacts DEF Taken
  <1>6. fa' = Forget(r)
    BY <1>3 DEF Allocate
  <1>7. Separate(fa', S \ Extent(p, n)) /\ fa'.nr_free = f.nr_free - n
    <2>1. PICK g : g = Forget(r)
      OBVIOUS
    <2>2. Separate(g, S \ Extent(p, n)) /\ g.nr_free = r.nr_free
      BY <1>5, <2>1, ForgetSeparate
    <2> QED
      BY <1>5, <1>6, <2>1, <2>2
  <1>8. SpaceOf(fa') = S \ Extent(p, n)
    BY <1>7 DEF Separate
  <1>9. /\ f.PG_property \in SUBSET Pages /\ f.property \in Sizes /\ p \in f.PG_property /\ n <= f.property[p]
        /\ S = Space(f.property, f.PG_property) /\ p \in Nat /\ p \in Pages /\ f.property[p] \in Nat
    <2>1. /\ f.PG_property \in SUBSET Pages /\ f.property \in Sizes /\ p \in f.PG_property /\ n <= f.property[p]
          /\ S = Space(f.property, f.PG_property)
      BY <1>1, <1>2, InvFacts DEF Taken, SpaceOf
    <2> QED
      BY <2>1, SizeTypes
  <1>10. Extent(p, n) \subseteq S
    <2>1. ASSUME NEW x \in Extent(p, n) PROVE x \in S
      <3>1. x \in Int /\ p <= x /\ x < p + n
        BY <1>9, InExtent
      <3>2. x < p + f.property[p]
        BY <1>9, <3>1
      <3> QED
        BY <1>9, <3>1, <3>2, InSpace
    <2> QED
      BY <2>1
  <1>11. Cardinality(S \ Extent(p, n)) = Cardinality(S) - n
    BY <1>4, <1>9, <1>10, CountFacts
  <1>12. Types' /\ Supported'
    <2>1. Extent(p, n) \subseteq Pages
      BY <1>4, <1>10
    <2> QED
      BY <1>9, <2>1 DEF Inv, Types, Supported, Allocate
  <1>13. Held'
    <2>1. /\ owned' = owned \cup Extent(p, n) /\ reserved' = reserved /\ pmm_manager' = pmm_manager
          /\ owned \cap S = {}
      BY <1>1 DEF Allocate, Inv, Held
    <2>2. owned' \cap (S \ Extent(p, n)) = {}
      BY <2>1
    <2>3. ASSUME pmm_manager = "default" PROVE NPages - 1 \in S \ Extent(p, n)
      <3>1. NPages - 1 \in S /\ p + n < NPages
        BY <1>1, <2>3 DEF Inv, Held
      <3>2. NPages - 1 \notin Extent(p, n)
        BY <1>9, <3>1, InExtent, LinkTypes
      <3> QED
        BY <3>1, <3>2
    <2> QED
      BY <1>8, <2>1, <2>2, <2>3 DEF Held
  <1>14. Inv'
    BY <1>4, <1>7, <1>8, <1>11, <1>12, <1>13 DEF Inv
  <1> QED
    BY <1>1, <1>8, <1>10, <1>14

(* The block that each allocator finds. *)
LEMMA FirstFittingFacts ==
    ASSUME Inv, NEW n \in Nat \ {0}, Suitable(n) # {}, NEW p, p = FirstFitting(n)
    PROVE  Taken(p, n) /\ \A b \in fa.PG_property : fa.property[b] >= n => p <= b
  <1>1. PICK l : l = Chain(fa)
    OBVIOUS
  <1>2. PICK size : size = fa.property
    OBVIOUS
  <1>3. PICK B : B = fa.PG_property
    OBVIOUS
  <1>4. ListOf(fa, B) /\ size \in Sizes /\ B \in SUBSET Pages
    BY <1>2, <1>3, InvFacts
  <1>5. /\ Len(l) \in Nat /\ \A i \in 1 .. Len(l) : l[i] \in B
        /\ \A i, j \in 1 .. Len(l) : i < j => l[i] < l[j]
        /\ \A b \in B : \E i \in 1 .. Len(l) : l[i] = b
    BY <1>1, <1>4, ChainFacts
  <1>6. PICK T : T = {i \in 1 .. Len(l) : size[l[i]] >= n}
    OBVIOUS
  <1>7. Suitable(n) = T
    BY <1>1, <1>2, <1>6 DEF Suitable
  <1>8. PICK i : i = CHOOSE x \in T : \A j \in T : x <= j
    OBVIOUS
  <1>9. p = l[i]
    BY <1>1, <1>7, <1>8 DEF FirstFitting
  <1>10. i \in T /\ \A j \in T : i <= j
    <2>1. T \in SUBSET Nat /\ T # {}
      BY <1>6, <1>7
    <2>2. \E x \in T : \A j \in T : x <= j
      BY <2>1, LeastNat
    <2> QED
      BY <1>8, <2>2
  <1>11. i \in 1 .. Len(l) /\ p \in B /\ size[p] >= n
    BY <1>5, <1>6, <1>9, <1>10
  <1>12. \A b \in B : b \in Nat /\ size[b] \in Nat
    BY <1>4, SizeTypes
  <1>13. ASSUME NEW b \in B, size[b] >= n PROVE p <= b
    <2>1. PICK j \in 1 .. Len(l) : l[j] = b
      BY <1>5
    <2>2. j \in T
      BY <1>6, <1>13, <2>1
    <2>3. i <= j
      BY <1>10, <2>2
    <2>4. i = j \/ l[i] < l[j]
      BY <1>5, <1>11, <2>1, <2>3
    <2> QED
      BY <1>9, <1>11, <1>12, <2>1, <2>4
  <1>14. n <= size[p]
    BY <1>11, <1>12
  <1> QED
    BY <1>2, <1>3, <1>11, <1>13, <1>14 DEF Taken

LEMMA BestFittingFacts ==
    ASSUME Inv, NEW n \in Nat \ {0}, Suitable(n) # {}, NEW p, p = BestFitting(n)
    PROVE  /\ Taken(p, n)
           /\ \A b \in fa.PG_property : fa.property[b] >= n =>
                 \/ fa.property[p] < fa.property[b]
                 \/ fa.property[p] = fa.property[b] /\ p <= b
  <1>1. PICK l : l = Chain(fa)
    OBVIOUS
  <1>2. PICK size : size = fa.property
    OBVIOUS
  <1>3. PICK B : B = fa.PG_property
    OBVIOUS
  <1>4. ListOf(fa, B) /\ size \in Sizes /\ B \in SUBSET Pages
    BY <1>2, <1>3, InvFacts
  <1>5. /\ Len(l) \in Nat /\ \A i \in 1 .. Len(l) : l[i] \in B
        /\ \A i, j \in 1 .. Len(l) : i < j => l[i] < l[j]
        /\ \A b \in B : \E i \in 1 .. Len(l) : l[i] = b
    BY <1>1, <1>4, ChainFacts
  <1>6. PICK T : T = {i \in 1 .. Len(l) : size[l[i]] >= n}
    OBVIOUS
  <1>7. Suitable(n) = T
    BY <1>1, <1>2, <1>6 DEF Suitable
  <1> DEFINE Best(i) == \A j \in T : size[l[i]] < size[l[j]] \/ (size[l[i]] = size[l[j]] /\ i <= j)
  <1>8. PICK i : i = CHOOSE x \in T : Best(x)
    OBVIOUS
  <1>9. p = l[i]
    BY <1>1, <1>2, <1>7, <1>8 DEF BestFitting
  <1>10. \A j \in T : j \in Nat /\ j \in 1 .. Len(l) /\ l[j] \in B /\ size[l[j]] \in Nat /\ size[l[j]] >= n
    BY <1>4, <1>5, <1>6, SizeTypes
  <1>11. \E x \in T : Best(x)
    <2>1. PICK Z : Z = {size[l[j]] : j \in T}
      OBVIOUS
    <2>2. Z \in SUBSET Nat /\ Z # {}
      <3>1. PICK j \in T : TRUE
        BY <1>7
      <3>2. size[l[j]] \in Z
        BY <2>1, <3>1
      <3>3. \A z \in Z : z \in Nat
        BY <1>10, <2>1
      <3> QED
        BY <3>2, <3>3
    <2>3. PICK z \in Z : \A y \in Z : z <= y
      BY <2>2, LeastNat
    <2>4. PICK U : U = {j \in T : size[l[j]] = z}
      OBVIOUS
    <2>5. U \in SUBSET Nat /\ U # {}
      <3>1. PICK j \in T : size[l[j]] = z
        BY <2>1, <2>3
      <3>2. j \in U
        BY <2>4, <3>1
      <3>3. \A u \in U : u \in Nat
        BY <1>10, <2>4
      <3> QED
        BY <3>2, <3>3
    <2>6. PICK x \in U : \A y \in U : x <= y
      BY <2>5, LeastNat
    <2>7. x \in T /\ size[l[x]] = z
      BY <2>4, <2>6
    <2>8. ASSUME NEW j \in T PROVE size[l[x]] < size[l[j]] \/ (size[l[x]] = size[l[j]] /\ x <= j)
      <3>1. size[l[j]] \in Z /\ z <= size[l[j]] /\ z \in Nat /\ size[l[j]] \in Nat
        BY <1>10, <2>1, <2>2, <2>3
      <3>2. size[l[j]] = z => x <= j
        BY <2>4, <2>6
      <3> QED
        BY <2>7, <3>1, <3>2
    <2> QED
      BY <2>7, <2>8
  <1>12. i \in T /\ Best(i)
    BY <1>8, <1>11
  <1>13. i \in 1 .. Len(l) /\ p \in B /\ size[p] \in Nat /\ n <= size[p]
    BY <1>9, <1>10, <1>12
  <1>14. ASSUME NEW b \in B, size[b] >= n PROVE size[p] < size[b] \/ (size[p] = size[b] /\ p <= b)
    <2>1. PICK j \in 1 .. Len(l) : l[j] = b
      BY <1>5
    <2>2. j \in T
      BY <1>6, <1>14, <2>1
    <2>3. size[p] < size[b] \/ (size[p] = size[b] /\ i <= j)
      BY <1>9, <1>12, <2>1, <2>2
    <2>4. i <= j => i = j \/ l[i] < l[j]
      BY <1>5, <1>13, <2>1
    <2>5. p \in Nat /\ b \in Nat
      BY <1>4, <1>13, SizeTypes
    <2> QED
      BY <1>9, <2>1, <2>3, <2>4, <2>5
  <1> QED
    BY <1>2, <1>3, <1>13, <1>14 DEF Taken

(* A run of free pages lies in one block. *)
LEMMA RunInBlock ==
    ASSUME Inv, NEW x \in Int, NEW n \in Nat \ {0}, Extent(x, n) \subseteq SpaceOf(fa)
    PROVE  \E c \in fa.PG_property : c <= x /\ x + n <= c + fa.property[c]
  <1>1. PICK size : size = fa.property
    OBVIOUS
  <1>2. PICK B : B = fa.PG_property
    OBVIOUS
  <1>3. /\ size \in Sizes /\ B \in SUBSET Pages /\ Apart(size, B) /\ Gaps(size, B)
        /\ Extent(x, n) \subseteq Space(size, B)
    BY <1>1, <1>2, InvFacts DEF SpaceOf
  <1>4. \A b \in B : b \in Nat /\ size[b] \in Nat /\ size[b] > 0
    BY <1>3, SizeTypes DEF Apart
  <1>5. x \in Space(size, B)
    <2>1. x \in Extent(x, n)
      BY InExtent
    <2> QED
      BY <1>3, <2>1
  <1>6. PICK c \in B : c <= x /\ x < c + size[c]
    BY <1>3, <1>5, InSpace
  <1>7. x + n <= c + size[c]
    <2>1. PICK y : y = c + size[c]
      OBVIOUS
    <2>2. y \in Int /\ x < y /\ c < y
      BY <1>4, <1>6, <2>1
    <2>3. SUFFICES ASSUME y < x + n PROVE FALSE
      BY <2>1, <2>2
    <2>4. y \in Extent(x, n)
      BY <2>2, <2>3, InExtent
    <2>5. PICK d \in B : d <= y /\ y < d + size[d]
      BY <1>3, <2>4, InSpace
    <2>6. d < c \/ d = c \/ c < d
      BY <1>4
    <2>7. d < c => d + size[d] < c
      BY <1>3 DEF Gaps
    <2>8. c < d => c + size[c] < d
      BY <1>3 DEF Gaps
    <2> QED
      BY <1>4, <2>1, <2>2, <2>5, <2>6, <2>7, <2>8
  <1> QED
    BY <1>1, <1>2, <1>6, <1>7

(* A block is a whole run. *)
LEMMA BlockIsRun ==
    ASSUME Inv, NEW c \in fa.PG_property
    PROVE  /\ \A x \in Int : c <= x /\ x < c + fa.property[c] => x \in SpaceOf(fa)
           /\ c - 1 \notin SpaceOf(fa) /\ c + fa.property[c] \notin SpaceOf(fa)
  <1>1. PICK size : size = fa.property
    OBVIOUS
  <1>2. PICK B : B = fa.PG_property
    OBVIOUS
  <1>3. /\ size \in Sizes /\ B \in SUBSET Pages /\ Apart(size, B) /\ Gaps(size, B)
        /\ SpaceOf(fa) = Space(size, B) /\ c \in B
    BY <1>1, <1>2, InvFacts DEF SpaceOf
  <1>4. \A b \in B : b \in Nat /\ size[b] \in Nat /\ size[b] > 0
    BY <1>3, SizeTypes DEF Apart
  <1>5. ASSUME NEW x \in Int, c <= x, x < c + size[c] PROVE x \in Space(size, B)
    BY <1>3, <1>5, InSpace
  <1>6. ASSUME NEW x \in Int, x = c - 1 \/ x = c + size[c] PROVE x \notin Space(size, B)
    <2>1. SUFFICES ASSUME x \in Space(size, B) PROVE FALSE
      OBVIOUS
    <2>2. PICK d \in B : d <= x /\ x < d + size[d]
      BY <1>3, <2>1, InSpace
    <2>3. d < c \/ d = c \/ c < d
      BY <1>3, <1>4
    <2>4. d < c => d + size[d] < c
      BY <1>3 DEF Gaps
    <2>5. c < d => c + size[c] < d
      BY <1>3 DEF Gaps
    <2>6. c \in Nat /\ d \in Nat /\ size[c] \in Nat /\ size[d] \in Nat /\ size[c] > 0
      BY <1>3, <1>4
    <2> QED
      BY <1>6, <2>2, <2>3, <2>4, <2>5, <2>6
  <1>7. c - 1 \in Int /\ c + size[c] \in Int
    BY <1>3, <1>4
  <1> QED
    BY <1>1, <1>3, <1>5, <1>6, <1>7

---------------------------------------------------------------------------
(* The steps.                                                              *)

LEMMA InitMemmapInv ==
    ASSUME Inv, init_memmap
    PROVE  Inv' /\ SpaceOf(fa) = {} /\ SpaceOf(fa)' = Pages
  <1>1. PICK f : f = fa
    OBVIOUS
  <1>2. PICK g : g = AddBlock(f, 0, NPages)
    OBVIOUS
  <1>3. Area(f) /\ f.PG_property = {} /\ f.nr_free = Cardinality(SpaceOf(f)) /\ owned = {}
    BY <1>1, InvFacts DEF Inv, Held, init_memmap
  <1>4. SpaceOf(f) = {}
    BY <1>3 DEF SpaceOf, Space
  <1>5. /\ 0 \in Pages /\ NPages \in Nat \ {0} /\ 0 + NPages <= NPages /\ Extent(0, NPages) = Pages
    BY LinkTypes DEF Pages, Extent
  <1>6. /\ Area(g) /\ g.PG_property = {} \cup {0} /\ g.nr_free = f.nr_free + NPages
        /\ SpaceOf(g) = SpaceOf(f) \cup Extent(0, NPages)
    <2>1. PICK B : B = f.PG_property
      OBVIOUS
    <2>2. Extent(0, NPages) \cap SpaceOf(f) = {} /\ B = {}
      BY <1>3, <1>4, <2>1
    <2>3. pmm_manager = "default" => B = {} \/ \E c \in B : 0 < c
      BY <2>2
    <2>4. /\ Area(g) /\ g.PG_property = B \cup {0} /\ g.nr_free = f.nr_free + NPages
          /\ SpaceOf(g) = SpaceOf(f) \cup Extent(0, NPages)
      BY <1>2, <1>3, <1>5, <2>1, <2>2, <2>3, AddBlockFacts
    <2> QED
      BY <2>2, <2>4
  <1>7. g.PG_property = {0} /\ SpaceOf(g) = Pages
    BY <1>4, <1>5, <1>6
  <1>8. Gaps(g.property, g.PG_property)
    BY <1>7 DEF Gaps
  <1>9. Separate(g, Pages) /\ g.nr_free = Cardinality(Pages)
    <2>1. Cardinality({}) = 0
      BY FS_EmptySet
    <2>2. Cardinality(Pages) = NPages
      BY <1>5, FS_Interval DEF Pages
    <2>3. f.nr_free = 0
      BY <1>3, <1>4, <2>1
    <2> QED
      BY <1>5, <1>6, <1>7, <1>8, <2>2, <2>3 DEF Separate
  <1>10. /\ fa' = g /\ reserved' = FALSE /\ ret' = NULL /\ pmm_manager' = pmm_manager /\ owned' = owned
         /\ panic' = panic
    BY <1>1, <1>2 DEF init_memmap
  <1>11. Types' /\ Supported'
    BY <1>10 DEF Inv, Types, Supported
  <1>12. Held'
    <2>1. NPages - 1 \in Pages
      BY LinkTypes DEF Pages
    <2> QED
      BY <1>3, <1>7, <1>10, <2>1 DEF Held
  <1> QED
    BY <1>1, <1>4, <1>7, <1>9, <1>10, <1>11, <1>12 DEF Inv

LEMMA FreeInv ==
    ASSUME Inv, NEW base \in Pages, NEW n \in Nat \ {0}, free_pages(base, n)
    PROVE  /\ Inv' /\ SpaceOf(fa)' = SpaceOf(fa) \cup Extent(base, n)
           /\ Extent(base, n) \subseteq Pages \ SpaceOf(fa)
  <1>1. PICK f : f = fa
    OBVIOUS
  <1>2. PICK S : S = SpaceOf(f)
    OBVIOUS
  <1>3. PICK B : B = f.PG_property
    OBVIOUS
  <1>4. PICK size : size = f.property
    OBVIOUS
  <1>5. /\ Area(f) /\ size \in Sizes /\ B \in SUBSET Pages /\ Apart(size, B) /\ Gaps(size, B)
        /\ S = Space(size, B) /\ S \in SUBSET Pages /\ IsFiniteSet(S) /\ B \subseteq S
        /\ f.nr_free = Cardinality(S) /\ owned \cap S = {} /\ owned \subseteq Pages
    BY <1>1, <1>2, <1>3, <1>4, InvFacts DEF SpaceOf, Inv, Held, Types
  <1>6. Extent(base, n) \subseteq owned /\ Extent(base, n) \cap S = {} /\ Extent(base, n) \subseteq Pages
    BY <1>5 DEF free_pages
  <1>7. base \in Nat /\ base \in Extent(base, n)
    BY InExtent, LinkTypes
  <1>8. base + n <= NPages
    <2>1. base + n - 1 \in Int /\ base <= base + n - 1 /\ base + n - 1 < base + n
      BY <1>7
    <2>2. base + n - 1 \in Extent(base, n)
      BY <1>7, <2>1, InExtent
    <2>3. base + n - 1 \in Pages
      BY <1>6, <2>2
    <2> QED
      BY <1>7, <2>3, LinkTypes DEF Pages
  <1>9. ~reserved
    BY <1>6, <1>7 DEF Inv, Held
  <1>10. ASSUME pmm_manager = "default" PROVE \E c \in B : base < c
    <2>1. NPages - 1 \in S
      BY <1>1, <1>2, <1>9, <1>10 DEF Inv, Held
    <2>2. PICK c \in B : c <= NPages - 1 /\ NPages - 1 < c + size[c]
      BY <1>5, <2>1, InSpace
    <2>3. c \in Nat /\ size[c] \in Nat
      BY <1>5, SizeTypes
    <2>4. ~(c <= base)
      <3>1. SUFFICES ASSUME c <= base PROVE FALSE
        OBVIOUS
      <3>2. base < c + size[c]
        BY <1>7, <1>8, <2>2, <2>3, LinkTypes
      <3>3. base \in S
        BY <1>5, <1>7, <3>1, <3>2, InSpace
      <3> QED
        BY <1>6, <1>7, <3>3
    <2> QED
      BY <1>7, <2>3, <2>4
  <1>11. PICK g : g = AddBlock(f, base, n)
    OBVIOUS
  <1>12. /\ Area(g) /\ g.PG_property = B \cup {base} /\ base \notin B /\ g.nr_free = f.nr_free + n
         /\ SpaceOf(g) = S \cup Extent(base, n)
         /\ \A b \in B : g.property[b] = size[b]
    <2>1. Extent(base, n) \cap SpaceOf(f) = {}
      BY <1>2, <1>6
    <2>2. pmm_manager = "default" => B = {} \/ \E c \in B : base < c
      BY <1>10
    <2>3. /\ Area(g) /\ g.PG_property = B \cup {base} /\ base \notin B /\ g.nr_free = f.nr_free + n
          /\ SpaceOf(g) = SpaceOf(f) \cup Extent(base, n)
          /\ \A b \in B : g.property[b] = f.property[b]
      BY <1>3, <1>5, <1>8, <1>11, <2>1, <2>2, AddBlockFacts
    <2> QED
      BY <1>2, <1>4, <2>3
  <1>13. base \in g.PG_property /\ Gaps(g.property, g.PG_property \ {base})
    <2>1. g.PG_property \ {base} = B
      BY <1>12
    <2>2. Gaps(g.property, B)
      BY <1>5, <1>12 DEF Gaps
    <2> QED
      BY <1>12, <2>1, <2>2
  <1>14. PICK m : m = Merge(g, base)
    OBVIOUS
  <1>15. /\ Area(m) /\ Gaps(m.property, m.PG_property)
         /\ SpaceOf(m) = S \cup Extent(base, n) /\ m.nr_free = f.nr_free + n
    BY <1>12, <1>13, <1>14, MergeFacts
  <1>16. Separate(m, S \cup Extent(base, n))
    BY <1>15 DEF Separate
  <1>17. fa' = Forget(m)
    BY <1>1, <1>11, <1>14 DEF free_pages
  <1>18. Separate(fa', S \cup Extent(base, n)) /\ fa'.nr_free = f.nr_free + n
    <2>1. PICK k : k = Forget(m)
      OBVIOUS
    <2>2. Separate(k, S \cup Extent(base, n)) /\ k.nr_free = m.nr_free
      BY <1>16, <2>1, ForgetSeparate
    <2> QED
      BY <1>15, <1>17, <2>1, <2>2
  <1>19. SpaceOf(fa') = S \cup Extent(base, n)
    BY <1>18 DEF Separate
  <1>20. Cardinality(S \cup Extent(base, n)) = Cardinality(S) + n
    BY <1>5, <1>6, <1>7, CountFacts
  <1>21. /\ owned' = owned \ Extent(base, n) /\ ret' = NULL /\ pmm_manager' = pmm_manager /\ reserved' = reserved
         /\ panic' = (panic \/ Extent(base, n) \cap fa.PG_property # {})
    BY DEF free_pages
  <1>22. Extent(base, n) \cap fa.PG_property = {}
    BY <1>1, <1>3, <1>5, <1>6
  <1>23. Types' /\ Supported'
    BY <1>21, <1>22 DEF Inv, Types, Supported
  <1>24. Held'
    <2>1. owned' \cap (S \cup Extent(base, n)) = {}
      BY <1>5, <1>21
    <2>2. pmm_manager = "default" => NPages - 1 \in S \cup Extent(base, n)
      BY <1>1, <1>2, <1>9 DEF Inv, Held
    <2> QED
      BY <1>9, <1>19, <1>21, <2>1, <2>2 DEF Held
  <1>25. Inv'
    BY <1>5, <1>18, <1>19, <1>20, <1>23, <1>24 DEF Inv
  <1> QED
    BY <1>1, <1>2, <1>6, <1>19, <1>25

LEMMA DefaultAllocInv ==
    ASSUME Inv, NEW n \in Nat \ {0}, default_alloc_pages(n), NEW p, p = FirstFitting(n)
    PROVE  /\ Inv' /\ SpaceOf(fa)' = SpaceOf(fa) \ Extent(p, n) /\ Extent(p, n) \subseteq SpaceOf(fa)
           /\ Taken(p, n) /\ \A b \in fa.PG_property : fa.property[b] >= n => p <= b
  <1>1. /\ pmm_manager = "default" /\ ~reserved /\ Suitable(n) # {} /\ Allocate(p, n)
        /\ SpareTop => p + n < NPages
    BY DEF default_alloc_pages
  <1>2. p + n < NPages
    BY <1>1 DEF Inv, Supported
  <1>3. Taken(p, n) /\ \A b \in fa.PG_property : fa.property[b] >= n => p <= b
    BY <1>1, FirstFittingFacts
  <1> QED
    BY <1>1, <1>2, <1>3, AllocateInv

LEMMA BestFitAllocInv ==
    ASSUME Inv, NEW n \in Nat \ {0}, best_fit_alloc_pages(n), NEW p, p = BestFitting(n)
    PROVE  /\ Inv' /\ SpaceOf(fa)' = SpaceOf(fa) \ Extent(p, n) /\ Extent(p, n) \subseteq SpaceOf(fa)
           /\ Taken(p, n)
           /\ \A b \in fa.PG_property : fa.property[b] >= n =>
                 \/ fa.property[p] < fa.property[b]
                 \/ fa.property[p] = fa.property[b] /\ p <= b
  <1>1. pmm_manager = "best_fit" /\ ~reserved /\ Suitable(n) # {} /\ Allocate(p, n)
    BY DEF best_fit_alloc_pages
  <1>2. /\ Taken(p, n)
        /\ \A b \in fa.PG_property : fa.property[b] >= n =>
              \/ fa.property[p] < fa.property[b]
              \/ fa.property[p] = fa.property[b] /\ p <= b
    BY <1>1, BestFittingFacts
  <1>3. pmm_manager = "default" => p + n < NPages
    BY <1>1
  <1> QED
    BY <1>1, <1>2, <1>3, AllocateInv

LEMMA SameInv ==
    ASSUME Inv, UNCHANGED <<pmm_manager, fa, reserved, owned, panic>>, ret' \in Pages \cup {NULL}
    PROVE  Inv' /\ SpaceOf(fa)' = SpaceOf(fa)
  BY DEF Inv, Types, Supported, Held

LEMMA NextInv == Inv /\ [Next]_vars => Inv'
  <1> SUFFICES ASSUME Inv, [Next]_vars PROVE Inv'
    OBVIOUS
  <1>1. CASE init_memmap
    BY <1>1, InitMemmapInv
  <1>2. ASSUME NEW n \in 1 .. MaxAlloc, default_alloc_pages(n) PROVE Inv'
    BY <1>2, DefaultAllocInv
  <1>3. ASSUME NEW n \in 1 .. MaxAlloc, best_fit_alloc_pages(n) PROVE Inv'
    BY <1>3, BestFitAllocInv
  <1>4. ASSUME NEW n \in 1 .. MaxAlloc, alloc_pages_fails(n) PROVE Inv'
    BY <1>4, SameInv DEF alloc_pages_fails
  <1>5. ASSUME NEW n \in 1 .. MaxAlloc, NEW base \in Pages, free_pages(base, n) PROVE Inv'
    BY <1>5, FreeInv
  <1>6. CASE UNCHANGED vars
    <2>1. UNCHANGED <<pmm_manager, fa, reserved, owned, panic>> /\ ret' \in Pages \cup {NULL}
      BY <1>6 DEF vars, Inv, Types
    <2> QED
      BY <2>1, SameInv
  <1> QED
    BY <1>1, <1>2, <1>3, <1>4, <1>5, <1>6 DEF Next

(* The invariant in the words of BlocksOK, which reads the list. *)
LEMMA InvBlocks ==
    ASSUME Inv
    PROVE  BlocksOK
  <1>1. PICK l : l = Chain(fa)
    OBVIOUS
  <1>2. PICK B : B = fa.PG_property
    OBVIOUS
  <1>3. PICK size : size = fa.property
    OBVIOUS
  <1>4. /\ ListOf(fa, B) /\ size \in Sizes /\ B \in SUBSET Pages /\ Apart(size, B) /\ Gaps(size, B)
        /\ fa.nr_free \in 0 .. NPages /\ fa \in FreeAreas
    BY <1>2, <1>3, InvFacts DEF Area
  <1>5. /\ Len(l) \in Nat /\ \A i \in 1 .. Len(l) : l[i] \in B
        /\ \A i, j \in 1 .. Len(l) : i < j => l[i] < l[j]
    BY <1>1, <1>4, ChainFacts
  <1>6. InChain(fa) = B /\ FreePages(fa) = SpaceOf(fa)
    BY <1>2, FreePagesFacts
  <1>7. TypeOK
    <2>1. fa \in [next : [Links -> Links], prev : [Links -> Links], property : [Pages -> 0 .. NPages],
                  PG_property : SUBSET Pages, nr_free : 0 .. NPages]
      BY <1>4 DEF FreeAreas
    <2> QED
      BY <2>1 DEF TypeOK, Inv, Types
  <1>8. \A e \in B \cup {free_list} : fa.prev[fa.next[e]] = e
    BY <1>4 DEF ListOf, Linked
  <1>9. \A i \in 1 .. Len(l) : size[l[i]] > 0
    BY <1>4, <1>5 DEF Apart
  <1>10. \A i, j \in 1 .. Len(l) : i < j => l[i] + size[l[i]] < l[j]
    BY <1>4, <1>5 DEF Gaps
  <1>11. fa.nr_free = Cardinality(FreePages(fa)) /\ ~panic
    BY <1>6 DEF Inv, Types
  <1> QED
    BY <1>1, <1>2, <1>3, <1>6, <1>7, <1>8, <1>9, <1>10, <1>11 DEF BlocksOK

(* best_fit_pmm.c, and default_pmm.c as long as the last page stays free, leave
   a list of separate blocks in the order of their addresses after every
   sequence of calls, with exact counts and PG_property bits, for any number
   of pages: no assert of free_pages fails. *)
THEOREM FreeListCorrect == Spec /\ Supported => []BlocksOK
  <1>1. Init /\ Supported => Inv
    BY InitInv
  <1>2. Inv => BlocksOK
    BY InvBlocks
  <1> QED
    BY <1>1, <1>2, NextInv, PTL DEF Spec

---------------------------------------------------------------------------
(* The abstract allocator.                                                 *)

(* The pages at which PageAlloc may serve a request lie in suitable blocks. *)
LEMMA PlaceFacts ==
    ASSUME Inv, NEW n \in Nat \ {0}, NEW b \in Abstract!Places(n)
    PROVE  \E c \in fa.PG_property :
              c <= b /\ n <= fa.property[c] /\ (pmm_manager = "best_fit" => b = c)
  <1>1. /\ b \in Int /\ Extent(b, n) \subseteq SpaceOf(fa)
        /\ pmm_manager = "best_fit" => b - 1 \notin SpaceOf(fa)
    <2>1. FreePages(fa) = SpaceOf(fa)
      BY FreePagesFacts
    <2>2. b \in Pages
      BY DEF Abstract!Places
    <2>3. b \in Int
      BY <2>2, LinkTypes
    <2>4. Extent(b, n) \subseteq SpaceOf(fa)
      BY <2>1 DEF Abstract!Places, Abstract!Fits, Abstract!Extent, Extent
    <2>5. pmm_manager = "best_fit" => b - 1 \notin SpaceOf(fa)
      BY <2>1 DEF Abstract!Places
    <2> QED
      BY <2>3, <2>4, <2>5
  <1>2. PICK c \in fa.PG_property : c <= b /\ b + n <= c + fa.property[c]
    BY <1>1, RunInBlock
  <1>3. c \in Nat /\ fa.property[c] \in Nat
    BY InvFacts, SizeTypes
  <1>4. n <= fa.property[c]
    BY <1>1, <1>2, <1>3
  <1>5. ASSUME pmm_manager = "best_fit" PROVE b = c
    <2>1. SUFFICES ASSUME c < b PROVE FALSE
      BY <1>1, <1>2, <1>3
    <2>2. b - 1 \in Int /\ c <= b - 1 /\ b - 1 < c + fa.property[c]
      BY <1>1, <1>2, <1>3, <2>1
    <2>3. b - 1 \in SpaceOf(fa)
      BY <2>2, BlockIsRun
    <2> QED
      BY <1>1, <1>5, <2>3
  <1> QED
    BY <1>2, <1>4, <1>5

(* A block that is large enough is such a place. *)
LEMMA BlockIsPlace ==
    ASSUME Inv, NEW n \in Nat \ {0}, NEW p, Taken(p, n)
    PROVE  p \in Abstract!Places(n) /\ p \in Pages /\ p \in Nat
  <1>1. FreePages(fa) = SpaceOf(fa)
    BY FreePagesFacts
  <1>2. p \in fa.PG_property /\ n <= fa.property[p] /\ p \in Nat /\ p \in Pages /\ fa.property[p] \in Nat
    BY InvFacts, SizeTypes DEF Taken
  <1>3. ASSUME NEW x \in p .. p + n - 1 PROVE x \in SpaceOf(fa)
    <2>1. x \in Int /\ p <= x /\ x < p + fa.property[p]
      BY <1>2
    <2> QED
      BY <1>2, <2>1, BlockIsRun
  <1>4. p - 1 \notin SpaceOf(fa)
    BY <1>2, BlockIsRun
  <1> QED
    BY <1>1, <1>2, <1>3, <1>4 DEF Abstract!Places, Abstract!Fits, Abstract!Extent

(* The run that begins with a block is the block. *)
LEMMA RunLength ==
    ASSUME Inv, NEW c \in fa.PG_property
    PROVE  Abstract!RunFrom(c) = fa.property[c]
  <1>1. PICK S : S = SpaceOf(fa)
    OBVIOUS
  <1>2. PICK z : z = fa.property[c]
    OBVIOUS
  <1>3. FreePages(fa) = S /\ S \subseteq Int
    BY <1>1, FreePagesFacts, InvFacts, LinkTypes
  <1>4. c \in Nat /\ z \in Nat /\ z > 0
    BY <1>2, InvFacts, SizeTypes DEF Apart
  <1>5. /\ \A x \in Int : c <= x /\ x < c + z => x \in S
        /\ c + z \notin S
    BY <1>1, <1>2, BlockIsRun
  <1> DEFINE Last(p) == p >= c /\ c .. p \subseteq S /\ p + 1 \notin S
  <1>6. PICK e : e = c + z - 1
    OBVIOUS
  <1>7. e \in S /\ Last(e)
    <2>1. e \in Int /\ c <= e /\ e < c + z /\ e + 1 = c + z
      BY <1>4, <1>6
    <2>2. ASSUME NEW x \in c .. e PROVE x \in S
      BY <1>4, <1>5, <2>1
    <2> QED
      BY <1>4, <1>5, <2>1, <2>2
  <1>8. ASSUME NEW p \in S, Last(p) PROVE p = e
    <2>1. p \in Int /\ c <= p /\ e \in Int
      BY <1>3, <1>4, <1>6, <1>8
    <2>2. ~(p < e)
      <3>1. SUFFICES ASSUME p < e PROVE FALSE
        OBVIOUS
      <3>2. p + 1 \in Int /\ c <= p + 1 /\ p + 1 < c + z
        BY <1>4, <1>6, <2>1, <3>1
      <3> QED
        BY <1>5, <1>8, <3>2
    <2>3. ~(e < p)
      <3>1. SUFFICES ASSUME e < p PROVE FALSE
        OBVIOUS
      <3>2. c + z \in c .. p
        BY <1>4, <1>6, <2>1, <3>1
      <3> QED
        BY <1>5, <1>8, <3>2
    <2> QED
      BY <2>1, <2>2, <2>3
  <1>9. (CHOOSE p \in S : Last(p)) = e
    BY <1>7, <1>8
  <1>10. Abstract!RunFrom(c) = e - c + 1
    BY <1>3, <1>9 DEF Abstract!RunFrom
  <1> QED
    BY <1>2, <1>4, <1>6, <1>10

AbstractStep == [Abstract!Next]_(Abstract!pvars)

LEMMA AllocStep ==
    ASSUME Inv, NEW n \in 1 .. MaxAlloc, NEW p, Taken(p, n), Inv', Allocate(p, n),
           SpaceOf(fa)' = SpaceOf(fa) \ Extent(p, n),
           \A b \in Abstract!Places(n) : Abstract!Better(p, b)
    PROVE  AbstractStep
  <1>1. p \in Abstract!Places(n)
    BY BlockIsPlace
  <1>2. FreePages(fa) = SpaceOf(fa) /\ FreePages(fa)' = SpaceOf(fa)'
    BY FreePagesFacts
  <1>3. FreePages(fa)' = FreePages(fa) \ Abstract!Extent(p, n)
    BY <1>2 DEF Abstract!Extent, Extent
  <1>4. ret' = p /\ pmm_manager' = pmm_manager
    BY DEF Allocate
  <1>5. Abstract!Alloc(n)
    BY <1>1, <1>3, <1>4 DEF Abstract!Alloc
  <1> QED
    BY <1>5 DEF AbstractStep, Abstract!Next

LEMMA DefaultAllocStep ==
    ASSUME Inv, NEW n \in 1 .. MaxAlloc, default_alloc_pages(n)
    PROVE  AbstractStep
  <1>1. PICK p : p = FirstFitting(n)
    OBVIOUS
  <1>2. n \in Nat \ {0}
    OBVIOUS
  <1>3. /\ Inv' /\ SpaceOf(fa)' = SpaceOf(fa) \ Extent(p, n) /\ Taken(p, n)
        /\ \A b \in fa.PG_property : fa.property[b] >= n => p <= b
    BY <1>1, <1>2, DefaultAllocInv
  <1>4. Allocate(p, n) /\ pmm_manager = "default"
    BY <1>1 DEF default_alloc_pages
  <1>5. ASSUME NEW b \in Abstract!Places(n) PROVE Abstract!Better(p, b)
    <2>1. PICK c \in fa.PG_property : c <= b /\ n <= fa.property[c]
      BY <1>2, PlaceFacts
    <2>2. c \in Nat /\ fa.property[c] \in Nat /\ p \in Nat
      BY <1>2, <1>3, InvFacts, SizeTypes, BlockIsPlace
    <2>3. b \in Nat
      <3>1. b \in Pages
        BY DEF Abstract!Places
      <3> QED
        BY <3>1, LinkTypes
    <2>4. p <= c
      BY <1>2, <1>3, <2>1, <2>2
    <2>5. p <= b
      BY <2>1, <2>2, <2>3, <2>4
    <2> QED
      BY <1>4, <2>5 DEF Abstract!Better
  <1> QED
    BY <1>3, <1>4, <1>5, AllocStep

LEMMA BestFitAllocStep ==
    ASSUME Inv, NEW n \in 1 .. MaxAlloc, best_fit_alloc_pages(n)
    PROVE  AbstractStep
  <1>1. PICK p : p = BestFitting(n)
    OBVIOUS
  <1>2. n \in Nat \ {0}
    OBVIOUS
  <1>3. /\ Inv' /\ SpaceOf(fa)' = SpaceOf(fa) \ Extent(p, n) /\ Taken(p, n)
        /\ \A b \in fa.PG_property : fa.property[b] >= n =>
              \/ fa.property[p] < fa.property[b]
              \/ fa.property[p] = fa.property[b] /\ p <= b
    BY <1>1, <1>2, BestFitAllocInv
  <1>4. Allocate(p, n) /\ pmm_manager = "best_fit"
    BY <1>1 DEF best_fit_alloc_pages
  <1>5. ASSUME NEW b \in Abstract!Places(n) PROVE Abstract!Better(p, b)
    <2>1. b \in fa.PG_property /\ n <= fa.property[b]
      BY <1>2, <1>4, PlaceFacts
    <2>2. fa.property[b] \in Nat
      BY <2>1, InvFacts, SizeTypes
    <2>3. fa.property[b] >= n
      BY <1>2, <2>1, <2>2
    <2>4. Abstract!RunFrom(p) = fa.property[p] /\ Abstract!RunFrom(b) = fa.property[b]
      BY <1>3, <2>1, RunLength DEF Taken
    <2>5. \/ Abstract!RunFrom(p) < Abstract!RunFrom(b)
          \/ Abstract!RunFrom(p) = Abstract!RunFrom(b) /\ p <= b
      BY <1>3, <2>1, <2>3, <2>4
    <2> QED
      BY <1>4, <2>5 DEF Abstract!Better
  <1> QED
    BY <1>3, <1>4, <1>5, AllocStep

LEMMA AllocFailsStep ==
    ASSUME Inv, NEW n \in 1 .. MaxAlloc, alloc_pages_fails(n)
    PROVE  AbstractStep
  <1>1. n \in Nat \ {0}
    OBVIOUS
  <1>2. Abstract!Places(n) = {}
    <2>1. SUFFICES ASSUME NEW b \in Abstract!Places(n) PROVE FALSE
      OBVIOUS
    <2>2. FreePages(fa) = SpaceOf(fa) /\ b \in Pages
      BY FreePagesFacts DEF Abstract!Places
    <2>3. Extent(b, n) \subseteq SpaceOf(fa)
      BY <2>2 DEF Abstract!Places, Abstract!Fits, Abstract!Extent, Extent
    <2>4. n <= Cardinality(SpaceOf(fa))
      BY <1>1, <2>2, <2>3, InvFacts, CountFacts, LinkTypes
    <2>5. ~(n > fa.nr_free)
      BY <1>1, <2>4, InvFacts, LinkTypes DEF Inv
    <2>6. Suitable(n) = {}
      BY <2>5 DEF alloc_pages_fails
    <2>7. PICK c \in fa.PG_property : c <= b /\ n <= fa.property[c]
      BY <1>1, PlaceFacts
    <2>8. PICK l : l = Chain(fa)
      OBVIOUS
    <2>9. \A x \in fa.PG_property : \E i \in 1 .. Len(l) : l[i] = x
      BY <2>8, InvFacts, ChainFacts
    <2>10. PICK i \in 1 .. Len(l) : l[i] = c
      BY <2>9
    <2>11. fa.property[c] >= n
      BY <1>1, <2>7, InvFacts, SizeTypes
    <2>12. i \in Suitable(n)
      BY <2>8, <2>10, <2>11 DEF Suitable
    <2> QED
      BY <2>6, <2>12
  <1>3. /\ ret' = NULL /\ UNCHANGED <<pmm_manager, fa>>
    BY DEF alloc_pages_fails
  <1>4. FreePages(fa)' = FreePages(fa)
    BY <1>3 DEF FreePages, InChain, Chain, Nth, Ends
  <1>5. Abstract!Alloc(n)
    BY <1>2, <1>3, <1>4 DEF Abstract!Alloc
  <1> QED
    BY <1>5 DEF AbstractStep, Abstract!Next

LEMMA FreeStep ==
    ASSUME Inv, NEW n \in 1 .. MaxAlloc, NEW base \in Pages, free_pages(base, n)
    PROVE  AbstractStep
  <1>1. /\ Inv' /\ SpaceOf(fa)' = SpaceOf(fa) \cup Extent(base, n)
        /\ Extent(base, n) \subseteq Pages \ SpaceOf(fa)
    BY FreeInv
  <1>2. FreePages(fa) = SpaceOf(fa) /\ FreePages(fa)' = SpaceOf(fa)'
    BY <1>1, FreePagesFacts
  <1>3. /\ Abstract!Extent(base, n) \subseteq Pages \ FreePages(fa)
        /\ FreePages(fa)' = FreePages(fa) \cup Abstract!Extent(base, n)
    BY <1>1, <1>2 DEF Abstract!Extent, Extent
  <1>4. ret' = NULL /\ pmm_manager' = pmm_manager
    BY DEF free_pages
  <1>5. Abstract!Free(base, n)
    BY <1>3, <1>4 DEF Abstract!Free
  <1> QED
    BY <1>5 DEF AbstractStep, Abstract!Next

LEMMA InitMemmapStep ==
    ASSUME Inv, init_memmap
    PROVE  AbstractStep
  <1>1. Inv' /\ SpaceOf(fa) = {} /\ SpaceOf(fa)' = Pages
    BY InitMemmapInv
  <1>2. FreePages(fa) = {} /\ FreePages(fa)' = Pages
    BY <1>1, FreePagesFacts
  <1>3. ret' = NULL /\ pmm_manager' = pmm_manager
    BY DEF init_memmap
  <1>4. Abstract!Start
    BY <1>2, <1>3 DEF Abstract!Start
  <1> QED
    BY <1>4 DEF AbstractStep, Abstract!Next

LEMMA NextStep == Inv /\ [Next]_vars => AbstractStep
  <1> SUFFICES ASSUME Inv, [Next]_vars PROVE AbstractStep
    OBVIOUS
  <1>1. CASE init_memmap
    BY <1>1, InitMemmapStep
  <1>2. ASSUME NEW n \in 1 .. MaxAlloc, default_alloc_pages(n) PROVE AbstractStep
    BY <1>2, DefaultAllocStep
  <1>3. ASSUME NEW n \in 1 .. MaxAlloc, best_fit_alloc_pages(n) PROVE AbstractStep
    BY <1>3, BestFitAllocStep
  <1>4. ASSUME NEW n \in 1 .. MaxAlloc, alloc_pages_fails(n) PROVE AbstractStep
    BY <1>4, AllocFailsStep
  <1>5. ASSUME NEW n \in 1 .. MaxAlloc, NEW base \in Pages, free_pages(base, n) PROVE AbstractStep
    BY <1>5, FreeStep
  <1>6. CASE UNCHANGED vars
    <2>1. UNCHANGED <<pmm_manager, fa, ret>>
      BY <1>6 DEF vars
    <2>2. FreePages(fa)' = FreePages(fa)
      BY <2>1 DEF FreePages, InChain, Chain, Nth, Ends
    <2> QED
      BY <2>1, <2>2 DEF AbstractStep, Abstract!pvars
  <1> QED
    BY <1>1, <1>2, <1>3, <1>4, <1>5, <1>6 DEF Next

(* Under the same condition both allocators implement PageAlloc, for any number
   of pages: no page is handed out twice and none is lost, a request fails
   only when no run of free pages is long enough, and it is served where first
   fit and best fit say. *)
THEOREM PageAllocCorrect == Spec /\ Supported => AbstractSpec
  <1>1. Init /\ Supported => Inv
    BY InitInv
  <1>2. Init /\ Inv => Abstract!Init
    <2> SUFFICES ASSUME Init, Inv PROVE Abstract!Init
      OBVIOUS
    <2>1. SpaceOf(fa) = {}
      BY DEF Init, SpaceOf, Space
    <2>2. FreePages(fa) = {}
      BY <2>1, FreePagesFacts
    <2>3. pmm_manager \in {"default", "best_fit"} /\ ret = NULL
      BY DEF Init
    <2> QED
      BY <2>2, <2>3 DEF Abstract!Init
  <1>3. Inv /\ [Next]_vars => [Abstract!Next]_(Abstract!pvars)
    BY NextStep DEF AbstractStep
  <1> QED
    BY <1>1, <1>2, <1>3, NextInv, PTL DEF Spec, AbstractSpec, Abstract!Spec

============================================================================
