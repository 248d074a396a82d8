----------------------------- MODULE SfsProofs -----------------------------
(***************************************************************************)
(* The simple file system.  Proofs about module SfsFile, for any number of *)
(* files and blocks and any sizes: blocks are neither lost nor shared,     *)
(* blocks and size agree, and files read back what was written to them.    *)
(* Then about module InodeCache: the reference counts of the inodes are    *)
(* right, no freed node is used and no modification is lost, for every     *)
(* number of threads, files and nodes and with or without errors of the    *)
(* disk.                                                                   *)
(***************************************************************************)
EXTENDS SfsFile, InodeCache, FiniteSetTheorems, WellFoundedInduction, TLAPS

Indices == 0 .. NDIRECT + NENTRY - 1

BlockNumbers == 0 .. NBlocks

Inode == [size : Nat, blocks : 0 .. NDIRECT + NENTRY, indirect : BlockNumbers,
          direct : [0 .. NDIRECT - 1 -> BlockNumbers]]

FileSystems == [din : [Files -> Inode],
                bytes : [Blocks -> [0 .. BLKSIZE - 1 -> Nat]],
                ents : [Blocks -> [0 .. NENTRY - 1 -> BlockNumbers]],
                freemap : SUBSET Blocks,
                unused_blocks : Nat]

(* The numbers of the blocks that a file has. *)
MapOK(s) == \A f \in Files, i \in Indices : BlockOf(s, f, i) # 0 <=> i < s.din[f].blocks

(* No place names a free block, and no two places the same one. *)
OnceOK(s) ==
    \A f, g \in Files, i, j \in Places :
       Refers(s, f, i) # 0 => /\ Refers(s, f, i) \notin s.freemap
                              /\ Refers(s, f, i) = Refers(s, g, j) => f = g /\ i = j

(* No block is lost. *)
NoneLost(s) ==
    \A b \in Blocks \ s.freemap : \E f \in Files, i \in Places : Refers(s, f, i) = b

(* What BlocksOK says of a file system. *)
FsOK(s) ==
    /\ s \in FileSystems
    /\ s.unused_blocks = Cardinality(s.freemap)
    /\ MapOK(s) /\ OnceOK(s) /\ NoneLost(s)

Calls == [call : {"none", "write", "truncate"}, start : Nat, pos : Nat, end : Nat]

(* A call at work on a file of that size. *)
CallOK(call, size) ==
    \/ call = Idle
    \/ /\ call \in Calls /\ call.call = "write"
       /\ call.start <= call.pos /\ call.pos < call.end /\ call.end <= MaxSize
    \/ /\ call \in Calls /\ call.call = "truncate"
       /\ call.end = 0 \/ (call.end > size /\ call.end <= MaxSize)

(* The file is being cut to length 0. *)
Shrinking(call) == call.call = "truncate" /\ call.end = 0

(* How far the file would reach if the call ended now. *)
Reached(call, size) ==
    IF call.call = "write" /\ call.pos # call.start THEN Max({size, call.pos}) ELSE size

(* What SizeMatches says of a file while a call is at work on it. *)
Sized(s, f, call) ==
    call.call # "truncate" => s.din[f].blocks = ROUNDUP_DIV(Reached(call, s.din[f].size), BLKSIZE)

(* What is to be found at position p of a file that contained c before. *)
Expected(f, call, c, p) ==
    IF call.call = "write" /\ p \in call.start .. call.pos - 1 THEN Byte(f)
    ELSE IF p < Len(c) THEN c[p + 1] ELSE 0

(* What block number i of the file contains; if it is missing, there is
   nothing to be found in it. *)
BlockContents(s, f, call, c, i) ==
    \A o \in 0 .. BLKSIZE - 1 :
       IF BlockOf(s, f, i) # 0
       THEN s.bytes[BlockOf(s, f, i)][o] = Expected(f, call, c, i * BLKSIZE + o)
       ELSE Shrinking(call) \/ Expected(f, call, c, i * BLKSIZE + o) = 0

DataOK(s, f, call, c) ==
    /\ c \in Seq(Nat) /\ Len(c) = s.din[f].size /\ s.din[f].size <= MaxSize
    /\ ~Shrinking(call) => s.din[f].size <= (s.din[f].blocks + 1) * BLKSIZE
    /\ \A i \in Indices : BlockContents(s, f, call, c, i)

FileOK(s, f, call, c) == CallOK(call, s.din[f].size) /\ DataOK(s, f, call, c)

FilesOK ==
    \A f \in Files : /\ FileOK(Fs, f, op[f], contents[f])
                     /\ f \notin strained => Sized(Fs, f, op[f])

Inv == FsOK(Fs) /\ op \in [Files -> Calls] /\ contents \in [Files -> Seq(Nat)] /\ FilesOK

---------------------------------------------------------------------------
(* Arithmetic.                                                             *)

LEMMA Monotone ==
    ASSUME NEW i \in Nat, NEW j \in Nat, NEW b \in Nat, i <= j
    PROVE  i * b <= j * b /\ i * b \in Nat
  <1>1. PICK d \in Nat : d = j - i
    OBVIOUS
  <1>2. d * b \in Nat /\ i * b \in Nat
    OBVIOUS
  <1>3. j * b = i * b + d * b
    BY <1>1
  <1> QED
    BY <1>2, <1>3

LEMMA NextMultiple ==
    ASSUME NEW i \in Nat, NEW j \in Nat, NEW b \in Nat, i + 1 <= j
    PROVE  i * b + b <= j * b
  <1>1. (i + 1) * b <= j * b
    BY Monotone
  <1>2. (i + 1) * b = i * b + b
    OBVIOUS
  <1> QED
    BY <1>1, <1>2

LEMMA BlockSize == BLKSIZE \in Nat \ {0} /\ BLKSIZE \in Nat
  BY SfsFileAssumption

(* Quotient and remainder. *)
LEMMA DivMod ==
    ASSUME NEW n \in Nat, NEW b \in Nat \ {0}
    PROVE  /\ n \div b \in Nat /\ n % b \in 0 .. b - 1
           /\ n = (n \div b) * b + (n % b)
  OBVIOUS

LEMMA DivUnique ==
    ASSUME NEW i \in Nat, NEW b \in Nat \ {0}, NEW o \in 0 .. b - 1
    PROVE  (i * b + o) \div b = i /\ (i * b + o) % b = o
  <1>1. PICK n \in Nat : n = i * b + o
    BY Monotone
  <1>2. PICK q \in Nat : q = n \div b
    BY DivMod
  <1>3. PICK r \in 0 .. b - 1 : r = n % b /\ n = q * b + r
    BY <1>2, DivMod
  <1>4. q = i
    <2>1. ASSUME q + 1 <= i PROVE FALSE
      <3>1. (q + 1) * b <= i * b
        BY <2>1, Monotone
      <3>2. (q + 1) * b = q * b + b
        OBVIOUS
      <3> QED
        BY <1>1, <1>3, <3>1, <3>2
    <2>2. ASSUME i + 1 <= q PROVE FALSE
      <3>1. (i + 1) * b <= q * b
        BY <2>2, Monotone
      <3>2. (i + 1) * b = i * b + b
        OBVIOUS
      <3> QED
        BY <1>1, <1>3, <3>1, <3>2
    <2> QED
      BY <2>1, <2>2
  <1> QED
    BY <1>1, <1>2, <1>3, <1>4

(* How many blocks n bytes need. *)
LEMMA RoundUp ==
    ASSUME NEW n \in Nat, NEW b \in Nat \ {0}
    PROVE  /\ ROUNDUP_DIV(n, b) \in Nat
           /\ n <= ROUNDUP_DIV(n, b) * b
           /\ \A k \in Nat : n <= k * b => ROUNDUP_DIV(n, b) <= k
  <1> DEFINE m == n + b - 1
  <1>0. m \in Nat
    OBVIOUS
  <1> HIDE DEF m
  <1>1. PICK q \in Nat : q = m \div b
    BY <1>0, DivMod
  <1>2. PICK r \in 0 .. b - 1 : m = q * b + r
    BY <1>0, <1>1, DivMod
  <1> USE <1>1 DEF m, ROUNDUP_DIV
  <1>3. n <= q * b
    BY <1>2
  <1>4. ASSUME NEW k \in Nat, n <= k * b, k + 1 <= q PROVE FALSE
    <2>1. (k + 1) * b <= q * b
      BY <1>4, Monotone
    <2>2. (k + 1) * b = k * b + b
      OBVIOUS
    <2> QED
      BY <1>2, <1>4, <2>1, <2>2
  <1> QED
    BY <1>1, <1>3, <1>4

(* Both ways in which a number of blocks is the one that n bytes need. *)
LEMMA RoundUpIs ==
    ASSUME NEW n \in Nat, NEW b \in Nat \ {0}, NEW k \in Nat,
           n <= (k + 1) * b, k * b < n
    PROVE  ROUNDUP_DIV(n, b) = k + 1
  <1>1. PICK q \in Nat : q = ROUNDUP_DIV(n, b) /\ n <= q * b /\ q <= k + 1
    BY RoundUp
  <1>2. ASSUME q <= k PROVE FALSE
    BY <1>1, <1>2, Monotone
  <1> QED
    BY <1>1, <1>2

LEMMA MaxOfTwo ==
    ASSUME NEW a \in Nat, NEW b \in Nat
    PROVE  Max({a, b}) = IF a <= b THEN b ELSE a
  <1>1. \E x \in {a, b} : \A y \in {a, b} : x >= y
    OBVIOUS
  <1> QED
    BY <1>1 DEF Max

LEMMA MinOfTwo ==
    ASSUME NEW a \in Nat, NEW b \in Nat
    PROVE  Min({a, b}) = IF a <= b THEN a ELSE b
  <1>1. \E x \in {a, b} : \A y \in {a, b} : x =< y
    OBVIOUS
  <1> QED
    BY <1>1 DEF Min

(* Every non-empty set of naturals has a least element. *)
LEMMA LeastNat ==
    ASSUME NEW T \in SUBSET Nat, T # {}
    PROVE  Min(T) \in T /\ \A y \in T : Min(T) <= y
  <1>1. PICK x \in T : \A y \in T : ~(<<y, x>> \in OpToRel(<, Nat))
    BY NatLessThanWellFounded, WFMin
  <1>2. ASSUME NEW y \in T PROVE ~(y < x)
    BY <1>1, <1>2 DEF OpToRel
  <1>3. \A y \in T : x <= y
    BY <1>2
  <1> QED
    BY <1>3 DEF Min

(* A function over 1 .. n is a sequence of length n. *)
LEMMA SeqOfFunction ==
    ASSUME NEW n \in Nat, NEW S, NEW c \in [1 .. n -> S]
    PROVE  c \in Seq(S) /\ Len(c) = n
  OBVIOUS

---------------------------------------------------------------------------
(* File systems and their block maps.                                      *)

LEMMA BlocksFinite == IsFiniteSet(Blocks) /\ Cardinality(Blocks) = NBlocks
  BY SfsFileAssumption, FS_Interval DEF Blocks

(* The types of what is read through an inode. *)
LEMMA InodeType ==
    ASSUME NEW s \in FileSystems, NEW f \in Files
    PROVE  /\ s.din[f] \in Inode
           /\ \A i \in Indices : BlockOf(s, f, i) \in BlockNumbers
           /\ \A place \in Places : Refers(s, f, place) \in BlockNumbers
  <1>1. s.din[f] \in Inode
    BY DEF FileSystems
  <1>2. ASSUME NEW i \in Indices PROVE BlockOf(s, f, i) \in BlockNumbers
    <2>1. CASE i < NDIRECT
      <3>1. i \in 0 .. NDIRECT - 1
        BY <2>1, SfsFileAssumption DEF Indices
      <3> QED
        BY <1>1, <2>1, <3>1 DEF BlockOf, Inode
    <2>2. CASE ~(i < NDIRECT) /\ s.din[f].indirect = 0
      BY <2>2, SfsFileAssumption DEF BlockOf, BlockNumbers
    <2>3. CASE ~(i < NDIRECT) /\ s.din[f].indirect # 0
      <3>1. i - NDIRECT \in 0 .. NENTRY - 1
        BY <2>3, SfsFileAssumption DEF Indices
      <3>2. s.din[f].indirect \in Blocks
        <4>1. s.din[f].indirect \in BlockNumbers
          BY <1>1 DEF Inode
        <4> QED
          BY <2>3, <4>1, SfsFileAssumption DEF BlockNumbers, Blocks
      <3>3. s.ents[s.din[f].indirect] \in [0 .. NENTRY - 1 -> BlockNumbers]
        BY <3>2 DEF FileSystems
      <3> QED
        BY <2>3, <3>1, <3>3 DEF BlockOf
    <2> QED
      BY <2>1, <2>2, <2>3
  <1>3. ASSUME NEW place \in Places PROVE Refers(s, f, place) \in BlockNumbers
    <2>1. CASE place = -1
      BY <1>1, <2>1 DEF Refers, Inode
    <2>2. CASE place # -1
      <3>1. place \in Indices
        BY <2>2, SfsFileAssumption DEF Places, Indices
      <3> QED
        BY <1>2, <2>2, <3>1 DEF Refers
    <2> QED
      BY <2>1, <2>2
  <1> QED
    BY <1>1, <1>2, <1>3

(* A block number is a place, and not that of the indirect block. *)
LEMMA IndexPlace ==
    /\ \A i \in Indices : i \in Places /\ i # -1 /\ i \in Nat
    /\ \A i \in Places : i = -1 \/ i \in Indices
    /\ -1 \in Places
  BY SfsFileAssumption DEF Indices, Places

(* No file can outgrow its block map: an indirect block takes a block, too. *)
LEMMA RoomInMap ==
    ASSUME NEW s, FsOK(s), NEW f \in Files
    PROVE  s.din[f].blocks \in Indices
  <1> DEFINE n == s.din[f].blocks
  <1>1. s \in FileSystems /\ n \in 0 .. NDIRECT + NENTRY
    BY InodeType DEF FsOK, Inode
  <1>2. CASE n <= NDIRECT
    BY <1>1, <1>2, SfsFileAssumption DEF Indices
  <1>3. CASE n > NDIRECT
    <2>1. s.din[f].indirect # 0
      <3>1. NDIRECT \in Indices /\ NDIRECT < n /\ ~(NDIRECT < NDIRECT)
        BY <1>1, <1>3, SfsFileAssumption DEF Indices
      <3>2. BlockOf(s, f, NDIRECT) # 0
        BY <3>1 DEF FsOK, MapOK
      <3> QED
        BY <3>1, <3>2 DEF BlockOf
    <2> DEFINE T == -1 .. n - 1
    <2>2. ASSUME NEW j \in T PROVE j \in Places /\ Refers(s, f, j) \in Blocks
      <3>1. j \in Places
        BY <1>1, SfsFileAssumption DEF Places
      <3>2. Refers(s, f, j) # 0
        <4>1. CASE j = -1
          BY <2>1, <4>1 DEF Refers
        <4>2. CASE j # -1
          <5>1. j \in Indices /\ j < n
            BY <1>1, <4>2, SfsFileAssumption DEF Indices
          <5> QED
            BY <4>2, <5>1 DEF Refers, FsOK, MapOK
        <4> QED
          BY <4>1, <4>2
      <3> QED
        BY <1>1, <3>1, <3>2, InodeType, SfsFileAssumption DEF BlockNumbers, Blocks
    <2> DEFINE h == [j \in T |-> Refers(s, f, j)]
    <2>3. h \in [T -> Blocks]
      BY <2>2
    <2>4. ASSUME NEW i \in T, NEW j \in T, h[i] = h[j] PROVE i = j
      <3>1. Refers(s, f, i) = Refers(s, f, j) /\ Refers(s, f, i) # 0
        BY <2>2, <2>4, SfsFileAssumption DEF Blocks
      <3> QED
        BY <2>2, <3>1 DEF FsOK, OnceOK
    <2>5. h \in Injection(T, Blocks)
      BY <2>3, <2>4 DEF Injection, IsInjective
    <2>6. Cardinality(T) <= Cardinality(Blocks)
      BY <2>5, BlocksFinite, FS_Injection
    <2>7. Cardinality(T) = n + 1
      <3>1. n \in Nat /\ -1 \in Int /\ n - 1 \in Int /\ ~(-1 > n - 1)
        BY <1>1
      <3>2. Cardinality(-1 .. n - 1) = (n - 1) - (-1) + 1
        BY <3>1, FS_Interval
      <3> QED
        BY <3>1, <3>2
    <2> QED
      <3>1. n + 1 <= NBlocks
        BY <2>6, <2>7, BlocksFinite
      <3>2. n \in Indices
        BY <1>1, <3>1, SfsFileAssumption DEF Indices
      <3> QED
        BY <3>2
  <1> QED
    BY <1>1, <1>2, <1>3, SfsFileAssumption

(* A step that leaves the block maps alone. *)
LEMMA SameMap ==
    ASSUME NEW s, FsOK(s), NEW t \in FileSystems,
           t.ents = s.ents, t.freemap = s.freemap, t.unused_blocks = s.unused_blocks,
           \A f \in Files : /\ t.din[f].blocks = s.din[f].blocks
                            /\ t.din[f].indirect = s.din[f].indirect
                            /\ t.din[f].direct = s.din[f].direct
    PROVE  FsOK(t) /\ \A f \in Files, i \in Indices : BlockOf(t, f, i) = BlockOf(s, f, i)
  <1>1. ASSUME NEW f \in Files, NEW i PROVE BlockOf(t, f, i) = BlockOf(s, f, i)
    BY DEF BlockOf
  <1>2. ASSUME NEW f \in Files, NEW i PROVE Refers(t, f, i) = Refers(s, f, i)
    BY <1>1 DEF Refers
  <1>3. MapOK(t)
    BY <1>1 DEF FsOK, MapOK
  <1>4. OnceOK(t)
    BY <1>2 DEF FsOK, OnceOK
  <1>5. NoneLost(t)
    BY <1>2 DEF FsOK, NoneLost
  <1> QED
    BY <1>1, <1>3, <1>4, <1>5 DEF FsOK

(* File f gets block nb, and ib for its indirect block unless ib is 0. *)
GetsBlocks(s, t, f, nb, ib) ==
    /\ \A g \in Files : t.din[g].blocks = IF g = f THEN s.din[g].blocks + 1 ELSE s.din[g].blocks
    /\ \A g \in Files, j \in Places :
          Refers(t, g, j) = IF g = f /\ j = s.din[f].blocks THEN nb
                            ELSE IF g = f /\ j = -1 /\ ib # 0 THEN ib
                            ELSE Refers(s, g, j)
    /\ t.freemap = s.freemap \ {nb, ib}
    /\ t.unused_blocks = Cardinality(t.freemap)

LEMMA GrowFs ==
    ASSUME NEW s, FsOK(s), NEW t \in FileSystems, NEW f \in Files, NEW nb \in s.freemap,
           NEW ib \in s.freemap \cup {0}, nb # ib, ib # 0 => s.din[f].indirect = 0,
           GetsBlocks(s, t, f, nb, ib)
    PROVE  FsOK(t)
  <1> DEFINE n == s.din[f].blocks
  <1>1. n \in Indices /\ n \in Places /\ n # -1
    BY RoomInMap, IndexPlace
  <1>2. nb # 0 /\ s.freemap \subseteq Blocks /\ 0 \notin s.freemap
    <2>1. s.freemap \subseteq Blocks
      BY DEF FsOK, FileSystems
    <2> QED
      BY <2>1, SfsFileAssumption DEF Blocks
  <1>3. MapOK(t)
    <2>1. ASSUME NEW g \in Files, NEW i \in Indices
          PROVE  BlockOf(t, g, i) # 0 <=> i < t.din[g].blocks
      <3>1. /\ i \in Places /\ i # -1 /\ Refers(t, g, i) = BlockOf(t, g, i)
            /\ Refers(s, g, i) = BlockOf(s, g, i)
        BY IndexPlace DEF Refers
      <3>2. CASE g = f /\ i = n
        <4>1. BlockOf(t, g, i) = nb /\ t.din[g].blocks = n + 1
          BY <3>1, <3>2 DEF GetsBlocks
        <4> QED
          BY <1>2, <3>2, <4>1, <1>1, IndexPlace
      <3>3. CASE ~(g = f /\ i = n)
        <4>1. BlockOf(t, g, i) = BlockOf(s, g, i)
          BY <3>1, <3>3 DEF GetsBlocks
        <4>2. BlockOf(s, g, i) # 0 <=> i < s.din[g].blocks
          BY DEF FsOK, MapOK
        <4>3. t.din[g].blocks = IF g = f THEN s.din[g].blocks + 1 ELSE s.din[g].blocks
          BY DEF GetsBlocks
        <4> QED
          BY <1>1, <3>1, <3>3, <4>1, <4>2, <4>3, IndexPlace
      <3> QED
        BY <3>2, <3>3
    <2> QED
      BY <2>1 DEF MapOK
  \* Only f has new blocks: nb at place n, and ib at place -1.
  <1>4. ASSUME NEW g \in Files, NEW j \in Places
        PROVE  \/ Refers(t, g, j) = Refers(s, g, j)
               \/ Refers(t, g, j) = nb /\ g = f /\ j = n
               \/ Refers(t, g, j) = ib /\ g = f /\ j = -1 /\ ib # 0
    BY DEF GetsBlocks
  <1>5. ASSUME NEW g \in Files, NEW j \in Places, Refers(s, g, j) # 0
        PROVE  Refers(s, g, j) \notin {nb, ib}
    BY <1>5 DEF FsOK, OnceOK
  <1>6. OnceOK(t)
    <2>1. ASSUME NEW g \in Files, NEW j \in Places, Refers(t, g, j) # 0
          PROVE  Refers(t, g, j) \notin t.freemap
      <3>1. CASE Refers(t, g, j) = Refers(s, g, j)
        BY <2>1, <3>1 DEF FsOK, OnceOK, GetsBlocks
      <3>2. CASE Refers(t, g, j) \in {nb, ib}
        BY <3>2 DEF GetsBlocks
      <3> QED
        BY <1>4, <3>1, <3>2
    <2>2. ASSUME NEW g \in Files, NEW j \in Places, NEW h \in Files, NEW i \in Places,
                 Refers(t, g, j) # 0, Refers(t, g, j) = Refers(t, h, i)
          PROVE  g = h /\ j = i
      <3>1. CASE Refers(t, g, j) = Refers(s, g, j) /\ Refers(t, h, i) = Refers(s, h, i)
        <4>1. Refers(s, g, j) # 0 /\ Refers(s, g, j) = Refers(s, h, i) /\ OnceOK(s)
          BY <2>2, <3>1 DEF FsOK
        <4> QED
          BY <4>1 DEF OnceOK
      <3>2. CASE Refers(t, g, j) = Refers(s, g, j) /\ Refers(t, h, i) # Refers(s, h, i)
        BY <2>2, <3>2, <1>4, <1>5
      <3>3. CASE Refers(t, g, j) # Refers(s, g, j) /\ Refers(t, h, i) = Refers(s, h, i)
        BY <2>2, <3>3, <1>4, <1>5
      <3>4. CASE Refers(t, g, j) # Refers(s, g, j) /\ Refers(t, h, i) # Refers(s, h, i)
        BY <2>2, <3>4, <1>4
      <3> QED
        BY <3>1, <3>2, <3>3, <3>4
    <2> QED
      BY <2>1, <2>2 DEF OnceOK
  <1>7. NoneLost(t)
    <2> SUFFICES ASSUME NEW b \in Blocks \ t.freemap
                 PROVE  \E g \in Files, j \in Places : Refers(t, g, j) = b
      BY DEF NoneLost
    <2>1. CASE b = nb
      BY <2>1, <1>1 DEF GetsBlocks
    <2>2. CASE b # nb /\ b = ib
      <3>1. ib # 0
        BY <2>2, SfsFileAssumption DEF Blocks
      <3> QED
        BY <2>2, <3>1, <1>1, IndexPlace DEF GetsBlocks
    <2>3. CASE b # nb /\ b # ib
      <3>1. b \in Blocks \ s.freemap
        BY <2>3 DEF GetsBlocks
      <3>2. PICK g \in Files, j \in Places : Refers(s, g, j) = b
        BY <3>1 DEF FsOK, NoneLost
      <3>3. b # 0
        BY SfsFileAssumption DEF Blocks
      <3>4. ~(g = f /\ j = n)
        <4>1. Refers(s, f, n) = BlockOf(s, f, n) /\ BlockOf(s, f, n) = 0
          BY <1>1, IndexPlace DEF FsOK, MapOK, Refers
        <4> QED
          BY <3>2, <3>3, <4>1
      <3>5. ~(g = f /\ j = -1 /\ ib # 0)
        BY <3>2, <3>3 DEF Refers
      <3>6. Refers(t, g, j) = b
        BY <3>2, <3>4, <3>5 DEF GetsBlocks
      <3> QED
        BY <3>6
    <2> QED
      BY <2>1, <2>2, <2>3
  <1> QED
    BY <1>3, <1>6, <1>7 DEF FsOK, GetsBlocks

(* A function that is changed in one place. *)
LEMMA Updated ==
    ASSUME NEW S, NEW T, NEW h \in [S -> T], NEW a, NEW v \in T
    PROVE  [h EXCEPT ![a] = v] \in [S -> T]
  OBVIOUS

(* The fields of a file system. *)
LEMMA FieldsOf ==
    ASSUME NEW s \in FileSystems
    PROVE  /\ s.din \in [Files -> Inode] /\ s.bytes \in [Blocks -> [0 .. BLKSIZE - 1 -> Nat]]
           /\ s.ents \in [Blocks -> [0 .. NENTRY - 1 -> BlockNumbers]]
           /\ s.freemap \in SUBSET Blocks /\ s.unused_blocks \in Nat
  BY DEF FileSystems

(* A block, and no other, is taken from the free ones. *)
Allocated(s, s1, a) ==
    /\ a \in s.freemap /\ s1 \in FileSystems
    /\ s1.din = s.din
    /\ s1.freemap = s.freemap \ {a} /\ s1.unused_blocks = Cardinality(s1.freemap)
    /\ Cardinality(s1.freemap) = Cardinality(s.freemap) - 1
    /\ \A b \in Blocks : /\ s1.bytes[b] = IF b = a THEN ZeroBytes ELSE s.bytes[b]
                         /\ s1.ents[b] = IF b = a THEN ZeroEnts ELSE s.ents[b]

LEMMA AllocFs ==
    ASSUME NEW s \in FileSystems, s.unused_blocks = Cardinality(s.freemap),
           Cardinality(s.freemap) >= 1
    PROVE  Allocated(s, sfs_block_alloc(s), FirstFree(s))
  <1> DEFINE t == sfs_block_alloc(s)
  <1>1. PICK a : a = FirstFree(s)
    OBVIOUS
  <1>2. IsFiniteSet(s.freemap) /\ s.freemap \subseteq Blocks
    BY FieldsOf, BlocksFinite, FS_Subset
  <1>3. s.freemap # {} /\ s.freemap \in SUBSET Nat
    BY <1>2, FS_EmptySet DEF Blocks
  <1>4. a \in s.freemap
    BY <1>1, <1>3, LeastNat DEF FirstFree
  <1>5. Cardinality(s.freemap \ {a}) = Cardinality(s.freemap) - 1
    BY <1>2, <1>4, FS_RemoveElement
  <1>6. t = [s EXCEPT !.freemap = s.freemap \ {a}, !.unused_blocks = s.unused_blocks - 1,
                      !.bytes = [s.bytes EXCEPT ![a] = ZeroBytes], !.ents = [s.ents EXCEPT ![a] = ZeroEnts]]
    BY <1>1 DEF sfs_block_alloc
  <1>7. /\ t.din = s.din /\ t.freemap = s.freemap \ {a} /\ t.unused_blocks = s.unused_blocks - 1
        /\ t.bytes = [s.bytes EXCEPT ![a] = ZeroBytes] /\ t.ents = [s.ents EXCEPT ![a] = ZeroEnts]
    BY <1>6 DEF FileSystems
  <1>8. ZeroBytes \in [0 .. BLKSIZE - 1 -> Nat] /\ ZeroEnts \in [0 .. NENTRY - 1 -> BlockNumbers]
    BY SfsFileAssumption DEF ZeroBytes, ZeroEnts, BlockNumbers
  <1>9. t.unused_blocks \in Nat
    BY <1>7, FieldsOf
  <1>10. t \in FileSystems
    <2>1. t.bytes \in [Blocks -> [0 .. BLKSIZE - 1 -> Nat]]
      <3>1. s.bytes \in [Blocks -> [0 .. BLKSIZE - 1 -> Nat]]
        BY FieldsOf
      <3> QED
        BY <1>7, <1>8, <3>1, Updated
    <2>2. t.ents \in [Blocks -> [0 .. NENTRY - 1 -> BlockNumbers]]
      <3>1. s.ents \in [Blocks -> [0 .. NENTRY - 1 -> BlockNumbers]]
        BY FieldsOf
      <3> QED
        BY <1>7, <1>8, <3>1, Updated
    <2>3. t.freemap \in SUBSET Blocks
      BY <1>2, <1>7
    <2> HIDE DEF t
    <2> QED
      BY <1>6, <1>7, <1>9, <2>1, <2>2, <2>3 DEF FileSystems
  <1>11. \A b \in Blocks : /\ t.bytes[b] = IF b = a THEN ZeroBytes ELSE s.bytes[b]
                           /\ t.ents[b] = IF b = a THEN ZeroEnts ELSE s.ents[b]
    BY <1>2, <1>4, <1>7, FieldsOf
  <1> QED
    BY <1>1, <1>4, <1>5, <1>7, <1>10, <1>11 DEF Allocated

(* f has one block more; it is cleared, and all else is where it was. *)
BlockCreated(s, t, f) ==
    LET n == s.din[f].blocks
    IN  /\ \A g \in Files : /\ t.din[g].size = s.din[g].size
                            /\ t.din[g].blocks = IF g = f THEN n + 1 ELSE s.din[g].blocks
        /\ \A g \in Files, i \in Indices : g # f \/ i # n => BlockOf(t, g, i) = BlockOf(s, g, i)
        /\ BlockOf(t, f, n) \in s.freemap /\ t.bytes[BlockOf(t, f, n)] = ZeroBytes
        /\ \A b \in Blocks \ s.freemap : t.bytes[b] = s.bytes[b]

(* A place of the block map as block numbers. *)
LEMMA RefersIs ==
    ASSUME NEW s, NEW f, NEW i \in Indices
    PROVE  Refers(s, f, i) = BlockOf(s, f, i)
  BY IndexPlace DEF Refers

---------------------------------------------------------------------------
(* The changes of an inode and of a block map.                             *)

LEMMA InodeSet ==
    ASSUME NEW s \in FileSystems, NEW f \in Files, NEW inode \in Inode
    PROVE  /\ SetInode(s, f, inode) \in FileSystems
           /\ SetInode(s, f, inode).din = [s.din EXCEPT ![f] = inode]
           /\ SetInode(s, f, inode).bytes = s.bytes /\ SetInode(s, f, inode).ents = s.ents
           /\ SetInode(s, f, inode).freemap = s.freemap
           /\ SetInode(s, f, inode).unused_blocks = s.unused_blocks
  <1>1. PICK d : d = [s.din EXCEPT ![f] = inode]
    OBVIOUS
  <1>2. d \in [Files -> Inode]
    BY <1>1, FieldsOf, Updated
  <1>3. SetInode(s, f, inode) = [s EXCEPT !.din = d]
    BY <1>1 DEF SetInode
  <1> QED
    BY <1>1, <1>2, <1>3 DEF FileSystems

(* t differs from s in the block that f names at place i. *)
Changed(s, t, f, i, block) ==
    /\ t \in FileSystems
    /\ t.bytes = s.bytes /\ t.freemap = s.freemap /\ t.unused_blocks = s.unused_blocks
    /\ \A g \in Files : t.din[g].size = s.din[g].size /\ t.din[g].blocks = s.din[g].blocks
    /\ \A g \in Files, j \in Places :
          Refers(t, g, j) = IF g = f /\ j = i THEN block ELSE Refers(s, g, j)

LEMMA DirectChanged ==
    ASSUME NEW s \in FileSystems, NEW f \in Files, NEW i \in Indices, i < NDIRECT,
           NEW block \in BlockNumbers
    PROVE  Changed(s, SetDirect(s, f, i, block), f, i, block)
  <1>1. PICK d : d = [s.din[f].direct EXCEPT ![i] = block]
    OBVIOUS
  <1>2. s.din[f] \in Inode
    BY InodeType
  <1>3. s.din[f].direct \in [0 .. NDIRECT - 1 -> BlockNumbers]
    BY <1>2 DEF Inode
  <1>4. d \in [0 .. NDIRECT - 1 -> BlockNumbers]
    BY <1>1, <1>3, Updated
  <1>5. PICK inode : inode = [s.din[f] EXCEPT !.direct = d]
    OBVIOUS
  <1>6. /\ inode \in Inode /\ inode.direct = d /\ inode.size = s.din[f].size
        /\ inode.blocks = s.din[f].blocks /\ inode.indirect = s.din[f].indirect
    BY <1>2, <1>4, <1>5 DEF Inode
  <1>7. PICK t : t = SetInode(s, f, inode)
    OBVIOUS
  <1>8. t = SetDirect(s, f, i, block)
    BY <1>1, <1>5, <1>7 DEF SetDirect
  <1>9. /\ t \in FileSystems /\ t.din = [s.din EXCEPT ![f] = inode]
        /\ t.bytes = s.bytes /\ t.ents = s.ents
        /\ t.freemap = s.freemap /\ t.unused_blocks = s.unused_blocks
    BY <1>6, <1>7, InodeSet
  <1>10. \A g \in Files : t.din[g] = IF g = f THEN inode ELSE s.din[g]
    BY <1>9, FieldsOf
  <1>11. \A g \in Files : /\ t.din[g].size = s.din[g].size /\ t.din[g].blocks = s.din[g].blocks
                          /\ t.din[g].indirect = s.din[g].indirect
    BY <1>6, <1>10
  <1>12. \A k \in 0 .. NDIRECT - 1 : d[k] = IF k = i THEN block ELSE s.din[f].direct[k]
    BY <1>1, <1>3
  <1>13. ASSUME NEW g \in Files, NEW j \in Places
         PROVE  Refers(t, g, j) = IF g = f /\ j = i THEN block ELSE Refers(s, g, j)
    <2>1. CASE j = -1
      BY <2>1, <1>11, IndexPlace DEF Refers
    <2>2. CASE j # -1 /\ j < NDIRECT
      <3>1. j \in 0 .. NDIRECT - 1
        BY <2>2, SfsFileAssumption DEF Places
      <3>2. Refers(t, g, j) = t.din[g].direct[j] /\ Refers(s, g, j) = s.din[g].direct[j]
        BY <2>2 DEF Refers, BlockOf
      <3> QED
        BY <3>1, <3>2, <1>6, <1>10, <1>12
    <2>3. CASE j # -1 /\ ~(j < NDIRECT)
      <3>1. j # i
        BY <2>3
      <3> QED
        BY <2>3, <3>1, <1>9, <1>11 DEF Refers, BlockOf
    <2> QED
      BY <2>1, <2>2, <2>3
  <1> QED
    BY <1>8, <1>9, <1>11, <1>13 DEF Changed

(* b is the indirect block of f, and of no other file. *)
LEMMA EntChanged ==
    ASSUME NEW s \in FileSystems, NEW f \in Files, NEW i \in Indices, ~(i < NDIRECT),
           NEW block \in BlockNumbers, NEW b \in Blocks,
           s.din[f].indirect = b, \A g \in Files : g # f => s.din[g].indirect # b
    PROVE  Changed(s, SetEnt(s, b, i - NDIRECT, block), f, i, block)
  <1>1. PICK e : e = [s.ents[b] EXCEPT ![i - NDIRECT] = block]
    OBVIOUS
  <1>2. s.ents[b] \in [0 .. NENTRY - 1 -> BlockNumbers]
    BY FieldsOf
  <1>3. e \in [0 .. NENTRY - 1 -> BlockNumbers]
    BY <1>1, <1>2, Updated
  <1>4. PICK es : es = [s.ents EXCEPT ![b] = e]
    OBVIOUS
  <1>5. es \in [Blocks -> [0 .. NENTRY - 1 -> BlockNumbers]]
    BY <1>3, <1>4, FieldsOf, Updated
  <1>6. PICK t : t = SetEnt(s, b, i - NDIRECT, block)
    OBVIOUS
  <1>7. t = [s EXCEPT !.ents = es]
    BY <1>1, <1>4, <1>6 DEF SetEnt
  <1>8. /\ t \in FileSystems /\ t.din = s.din /\ t.bytes = s.bytes /\ t.ents = es
        /\ t.freemap = s.freemap /\ t.unused_blocks = s.unused_blocks
    BY <1>5, <1>7 DEF FileSystems
  <1>9. \A c \in Blocks : t.ents[c] = IF c = b THEN e ELSE s.ents[c]
    BY <1>4, <1>8, FieldsOf
  <1>10. \A k \in 0 .. NENTRY - 1 : e[k] = IF k = i - NDIRECT THEN block ELSE s.ents[b][k]
    BY <1>1, <1>2
  <1>11. b # 0
    BY SfsFileAssumption DEF Blocks
  <1>12. ASSUME NEW g \in Files, NEW j \in Places
         PROVE  Refers(t, g, j) = IF g = f /\ j = i THEN block ELSE Refers(s, g, j)
    <2>1. CASE j = -1
      BY <2>1, <1>8, IndexPlace DEF Refers
    <2>2. CASE j # -1 /\ (j < NDIRECT \/ s.din[g].indirect = 0)
      <3>1. ~(g = f /\ j = i)
        BY <2>2, <1>11
      <3> QED
        BY <2>2, <3>1, <1>8 DEF Refers, BlockOf
    <2>3. CASE j # -1 /\ ~(j < NDIRECT) /\ s.din[g].indirect # 0
      <3>1. j - NDIRECT \in 0 .. NENTRY - 1 /\ j \in Indices /\ i \in Int /\ NDIRECT \in Int
        BY <2>3, IndexPlace, SfsFileAssumption DEF Indices
      <3>2. s.din[g].indirect \in Blocks
        <4>1. s.din[g].indirect \in BlockNumbers
          BY InodeType DEF Inode
        <4> QED
          BY <2>3, <4>1, SfsFileAssumption DEF BlockNumbers, Blocks
      <3>3. /\ Refers(t, g, j) = t.ents[s.din[g].indirect][j - NDIRECT]
            /\ Refers(s, g, j) = s.ents[s.din[g].indirect][j - NDIRECT]
        BY <2>3, <1>8 DEF Refers, BlockOf
      <3>4. CASE g = f
        BY <3>1, <3>3, <3>4, <1>9, <1>10
      <3>5. CASE g # f
        BY <3>2, <3>3, <3>5, <1>9
      <3> QED
        BY <3>4, <3>5
    <2> QED
      BY <2>1, <2>2, <2>3
  <1> QED
    BY <1>6, <1>8, <1>12 DEF Changed

(* f gets an empty indirect block. *)
LEMMA IndirectChanged ==
    ASSUME NEW s \in FileSystems, NEW f \in Files, s.din[f].indirect = 0,
           NEW b \in Blocks, s.ents[b] = ZeroEnts
    PROVE  /\ Changed(s, SetIndirect(s, f, b), f, -1, b)
           /\ \A g \in Files : SetIndirect(s, f, b).din[g].indirect
                                   = IF g = f THEN b ELSE s.din[g].indirect
  <1>1. s.din[f] \in Inode
    BY InodeType
  <1>2. b \in BlockNumbers /\ b # 0
    BY SfsFileAssumption DEF Blocks, BlockNumbers
  <1>3. PICK inode : inode = [s.din[f] EXCEPT !.indirect = b]
    OBVIOUS
  <1>4. /\ inode \in Inode /\ inode.direct = s.din[f].direct /\ inode.size = s.din[f].size
        /\ inode.blocks = s.din[f].blocks /\ inode.indirect = b
    BY <1>1, <1>2, <1>3 DEF Inode
  <1>5. PICK t : t = SetInode(s, f, inode)
    OBVIOUS
  <1>6. t = SetIndirect(s, f, b)
    BY <1>3, <1>5 DEF SetIndirect
  <1>7. /\ t \in FileSystems /\ t.din = [s.din EXCEPT ![f] = inode]
        /\ t.bytes = s.bytes /\ t.ents = s.ents
        /\ t.freemap = s.freemap /\ t.unused_blocks = s.unused_blocks
    BY <1>4, <1>5, InodeSet
  <1>8. \A g \in Files : t.din[g] = IF g = f THEN inode ELSE s.din[g]
    BY <1>7, FieldsOf
  <1>9. \A g \in Files : /\ t.din[g].size = s.din[g].size /\ t.din[g].blocks = s.din[g].blocks
                         /\ t.din[g].direct = s.din[g].direct
                         /\ t.din[g].indirect = IF g = f THEN b ELSE s.din[g].indirect
    BY <1>4, <1>8
  <1>10. ASSUME NEW g \in Files, NEW j \in Places
         PROVE  Refers(t, g, j) = IF g = f /\ j = -1 THEN b ELSE Refers(s, g, j)
    <2>1. CASE j = -1
      BY <2>1, <1>9 DEF Refers
    <2>2. CASE j # -1 /\ (g # f \/ j < NDIRECT)
      BY <2>2, <1>7, <1>9 DEF Refers, BlockOf
    <2>3. CASE j # -1 /\ g = f /\ ~(j < NDIRECT)
      <3>1. j - NDIRECT \in 0 .. NENTRY - 1
        BY <2>3, SfsFileAssumption DEF Places
      <3>2. Refers(t, g, j) = ZeroEnts[j - NDIRECT]
        BY <2>3, <1>2, <1>7, <1>9 DEF Refers, BlockOf
      <3>3. Refers(s, g, j) = 0
        BY <2>3 DEF Refers, BlockOf
      <3> QED
        BY <2>3, <3>1, <3>2, <3>3 DEF ZeroEnts
    <2> QED
      BY <2>1, <2>2, <2>3
  <1> QED
    BY <1>6, <1>7, <1>9, <1>10 DEF Changed

(* din->blocks is set. *)
LEMMA BlocksSet ==
    ASSUME NEW s \in FileSystems, NEW f \in Files, NEW n \in 0 .. NDIRECT + NENTRY
    PROVE  LET t == SetBlocks(s, f, n)
           IN  /\ t \in FileSystems
               /\ t.bytes = s.bytes /\ t.freemap = s.freemap /\ t.unused_blocks = s.unused_blocks
               /\ \A g \in Files : /\ t.din[g].size = s.din[g].size
                                   /\ t.din[g].blocks = IF g = f THEN n ELSE s.din[g].blocks
               /\ \A g \in Files, j \in Places : Refers(t, g, j) = Refers(s, g, j)
  <1>1. s.din[f] \in Inode
    BY InodeType
  <1>2. PICK inode : inode = [s.din[f] EXCEPT !.blocks = n]
    OBVIOUS
  <1>3. /\ inode \in Inode /\ inode.direct = s.din[f].direct /\ inode.size = s.din[f].size
        /\ inode.blocks = n /\ inode.indirect = s.din[f].indirect
    BY <1>1, <1>2 DEF Inode
  <1>4. PICK t : t = SetInode(s, f, inode)
    OBVIOUS
  <1>5. t = SetBlocks(s, f, n)
    BY <1>2, <1>4 DEF SetBlocks
  <1>6. /\ t \in FileSystems /\ t.din = [s.din EXCEPT ![f] = inode]
        /\ t.bytes = s.bytes /\ t.ents = s.ents
        /\ t.freemap = s.freemap /\ t.unused_blocks = s.unused_blocks
    BY <1>3, <1>4, InodeSet
  <1>7. \A g \in Files : t.din[g] = IF g = f THEN inode ELSE s.din[g]
    BY <1>6, FieldsOf
  <1>8. \A g \in Files : /\ t.din[g].size = s.din[g].size
                         /\ t.din[g].blocks = IF g = f THEN n ELSE s.din[g].blocks
                         /\ t.din[g].direct = s.din[g].direct
                         /\ t.din[g].indirect = s.din[g].indirect
    BY <1>3, <1>7
  <1>9. ASSUME NEW g \in Files, NEW j \in Places PROVE Refers(t, g, j) = Refers(s, g, j)
    BY <1>6, <1>8 DEF Refers, BlockOf
  <1> QED
    BY <1>5, <1>6, <1>8, <1>9

---------------------------------------------------------------------------
(* sfs_bmap_load: the block after the last one is created.                 *)

(* Clearing a block that is nobody's indirect block moves no block. *)
LEMMA AllocRefers ==
    ASSUME NEW s \in FileSystems, NEW a, NEW t, Allocated(s, t, a),
           \A g \in Files : s.din[g].indirect # a
    PROVE  \A g \in Files, j \in Places : Refers(t, g, j) = Refers(s, g, j)
  <1> SUFFICES ASSUME NEW g \in Files, NEW j \in Places
               PROVE  Refers(t, g, j) = Refers(s, g, j)
    OBVIOUS
  <1>1. t.din = s.din
    BY DEF Allocated
  <1>2. CASE j = -1 \/ j < NDIRECT \/ s.din[g].indirect = 0
    BY <1>1, <1>2 DEF Refers, BlockOf
  <1>3. CASE ~(j = -1 \/ j < NDIRECT \/ s.din[g].indirect = 0)
    <2>1. s.din[g].indirect \in BlockNumbers
      BY InodeType DEF Inode
    <2>2. s.din[g].indirect \in Blocks
      BY <1>3, <2>1, SfsFileAssumption DEF BlockNumbers, Blocks
    <2>3. t.ents[s.din[g].indirect] = s.ents[s.din[g].indirect]
      BY <2>2 DEF Allocated
    <2> QED
      BY <1>1, <1>3, <2>3 DEF Refers, BlockOf
  <1> QED
    BY <1>2, <1>3

(* A free block is nobody's indirect block. *)
LEMMA FreeNotIndirect ==
    ASSUME NEW s, FsOK(s), NEW a \in s.freemap, NEW g \in Files
    PROVE  s.din[g].indirect # a /\ a \in Blocks /\ a \in BlockNumbers /\ a # 0
  <1>1. a \in Blocks
    BY DEF FsOK, FileSystems
  <1>2. a # 0 /\ a \in BlockNumbers
    BY <1>1, SfsFileAssumption DEF Blocks, BlockNumbers
  <1>3. Refers(s, g, -1) = s.din[g].indirect
    BY DEF Refers
  <1>4. OnceOK(s) /\ -1 \in Places
    BY IndexPlace DEF FsOK
  <1>5. Refers(s, g, -1) # 0 => Refers(s, g, -1) \notin s.freemap
    BY <1>4 DEF OnceOK
  <1> QED
    BY <1>1, <1>2, <1>3, <1>5

(* c names the new blocks, din->blocks is still to be set. *)
Entered(s, c, f, nb, ib) ==
    /\ c \in FileSystems
    /\ c.freemap = s.freemap \ {nb, ib} /\ c.unused_blocks = Cardinality(c.freemap)
    /\ \A g \in Files : c.din[g].size = s.din[g].size /\ c.din[g].blocks = s.din[g].blocks
    /\ \A g \in Files, j \in Places :
          Refers(c, g, j) = IF g = f /\ j = s.din[f].blocks THEN nb
                            ELSE IF g = f /\ j = -1 /\ ib # 0 THEN ib
                            ELSE Refers(s, g, j)
    /\ c.bytes[nb] = ZeroBytes
    /\ \A b \in Blocks \ s.freemap : c.bytes[b] = s.bytes[b]

LEMMA EnteredCreated ==
    ASSUME NEW s, FsOK(s), NEW c, NEW f \in Files, NEW nb \in s.freemap,
           NEW ib \in s.freemap \cup {0}, nb # ib, ib # 0 => s.din[f].indirect = 0,
           Entered(s, c, f, nb, ib)
    PROVE  /\ FsOK(SetBlocks(c, f, s.din[f].blocks + 1))
           /\ BlockCreated(s, SetBlocks(c, f, s.din[f].blocks + 1), f)
  <1>1. PICK n : n = s.din[f].blocks
    OBVIOUS
  <1>2. n \in Indices /\ n \in Places /\ n # -1
    BY <1>1, RoomInMap, IndexPlace
  <1>3. n + 1 \in 0 .. NDIRECT + NENTRY
    BY <1>2, SfsFileAssumption DEF Indices
  <1>4. PICK t : t = SetBlocks(c, f, n + 1)
    OBVIOUS
  <1>5. c \in FileSystems
    BY DEF Entered
  <1>6. /\ t \in FileSystems
        /\ t.bytes = c.bytes /\ t.freemap = c.freemap /\ t.unused_blocks = c.unused_blocks
        /\ \A g \in Files : /\ t.din[g].size = c.din[g].size
                            /\ t.din[g].blocks = IF g = f THEN n + 1 ELSE c.din[g].blocks
        /\ \A g \in Files, j \in Places : Refers(t, g, j) = Refers(c, g, j)
    BY <1>3, <1>4, <1>5, BlocksSet
  <1>7. GetsBlocks(s, t, f, nb, ib)
    BY <1>1, <1>6 DEF Entered, GetsBlocks
  <1>8. FsOK(t)
    BY <1>6, <1>7, GrowFs
  <1>9. BlockCreated(s, t, f)
    <2>1. \A g \in Files : /\ t.din[g].size = s.din[g].size
                           /\ t.din[g].blocks = IF g = f THEN n + 1 ELSE s.din[g].blocks
      BY <1>6 DEF Entered
    <2>2. ASSUME NEW g \in Files, NEW i \in Indices, g # f \/ i # n
          PROVE  BlockOf(t, g, i) = BlockOf(s, g, i)
      <3>1. i \in Places /\ i # -1
        BY IndexPlace
      <3>2. Refers(t, g, i) = Refers(s, g, i)
        BY <1>1, <1>6, <2>2, <3>1 DEF Entered
      <3> QED
        BY <3>2, RefersIs
    <2>3. BlockOf(t, f, n) = nb
      <3>1. Refers(t, f, n) = nb
        BY <1>1, <1>2, <1>6 DEF Entered
      <3> QED
        BY <1>2, <3>1, RefersIs
    <2>4. t.bytes[nb] = ZeroBytes /\ \A b \in Blocks \ s.freemap : t.bytes[b] = s.bytes[b]
      BY <1>6 DEF Entered
    <2> QED
      BY <1>1, <2>1, <2>2, <2>3, <2>4 DEF BlockCreated
  <1> QED
    BY <1>1, <1>4, <1>8, <1>9

(* The new block is a direct one. *)
LEMMA CreateDirect ==
    ASSUME NEW s, FsOK(s), NEW f \in Files, s.din[f].blocks < NDIRECT,
           Cardinality(s.freemap) >= 1
    PROVE  Entered(s, SetDirect(sfs_block_alloc(s), f, s.din[f].blocks, FirstFree(s)), f, FirstFree(s), 0)
  <1>1. PICK a : a = FirstFree(s)
    OBVIOUS
  <1>2. PICK s1 : s1 = sfs_block_alloc(s)
    OBVIOUS
  <1>3. PICK n : n = s.din[f].blocks
    OBVIOUS
  <1>4. n \in Indices /\ n \in Places /\ n # -1
    BY <1>3, RoomInMap, IndexPlace
  <1>5. s \in FileSystems
    BY DEF FsOK
  <1>6. Allocated(s, s1, a)
    BY <1>1, <1>2, <1>5, AllocFs DEF FsOK
  <1>7. a \in s.freemap /\ s1 \in FileSystems /\ s1.din = s.din
    BY <1>6 DEF Allocated
  <1>8. a \in Blocks /\ a \in BlockNumbers /\ \A g \in Files : s.din[g].indirect # a
    BY <1>7, FreeNotIndirect
  <1>9. \A g \in Files, j \in Places : Refers(s1, g, j) = Refers(s, g, j)
    BY <1>5, <1>6, <1>8, AllocRefers
  <1>10. PICK c : c = SetDirect(s1, f, n, a)
    OBVIOUS
  <1>11. Changed(s1, c, f, n, a)
    BY <1>3, <1>4, <1>7, <1>8, <1>10, DirectChanged
  <1>12. Entered(s, c, f, a, 0)
    <2>1. 0 \notin s.freemap
      BY <1>5, FieldsOf, SfsFileAssumption DEF Blocks
    <2>2. c.freemap = s.freemap \ {a, 0} /\ c.unused_blocks = Cardinality(c.freemap)
      BY <1>6, <1>11, <2>1 DEF Allocated, Changed
    <2>3. c.bytes[a] = ZeroBytes /\ \A b \in Blocks \ s.freemap : c.bytes[b] = s.bytes[b]
      BY <1>6, <1>7, <1>8, <1>11 DEF Allocated, Changed
    <2>4. \A g \in Files, j \in Places :
             Refers(c, g, j) = IF g = f /\ j = n THEN a ELSE Refers(s, g, j)
      BY <1>9, <1>11 DEF Changed
    <2>5. \A g \in Files : c.din[g].size = s.din[g].size /\ c.din[g].blocks = s.din[g].blocks
      BY <1>7, <1>11 DEF Changed
    <2>6. c \in FileSystems
      BY <1>11 DEF Changed
    <2> QED
      BY <1>3, <2>2, <2>3, <2>4, <2>5, <2>6 DEF Entered
  <1> QED
    BY <1>1, <1>2, <1>3, <1>10, <1>12

(* The new block goes into the indirect block. *)
LEMMA CreateEnt ==
    ASSUME NEW s, FsOK(s), NEW f \in Files, ~(s.din[f].blocks < NDIRECT),
           s.din[f].indirect # 0, Cardinality(s.freemap) >= 1
    PROVE  Entered(s, SetEnt(sfs_block_alloc(s), s.din[f].indirect, s.din[f].blocks - NDIRECT, FirstFree(s)),
                   f, FirstFree(s), 0)
  <1>1. PICK a : a = FirstFree(s)
    OBVIOUS
  <1>2. PICK s1 : s1 = sfs_block_alloc(s)
    OBVIOUS
  <1>3. PICK n : n = s.din[f].blocks
    OBVIOUS
  <1>4. n \in Indices /\ n \in Places /\ n # -1
    BY <1>3, RoomInMap, IndexPlace
  <1>5. s \in FileSystems
    BY DEF FsOK
  <1>6. Allocated(s, s1, a)
    BY <1>1, <1>2, <1>5, AllocFs DEF FsOK
  <1>7. a \in s.freemap /\ s1 \in FileSystems /\ s1.din = s.din
    BY <1>6 DEF Allocated
  <1>8. a \in Blocks /\ a \in BlockNumbers /\ \A g \in Files : s.din[g].indirect # a
    BY <1>7, FreeNotIndirect
  <1>9. \A g \in Files, j \in Places : Refers(s1, g, j) = Refers(s, g, j)
    BY <1>5, <1>6, <1>8, AllocRefers
  <1>10. PICK b : b = s.din[f].indirect
    OBVIOUS
  <1>11. b \in Blocks /\ \A g \in Files : g # f => s1.din[g].indirect # b
    <2>1. b \in BlockNumbers
      BY <1>5, <1>10, InodeType DEF Inode
    <2>2. b \in Blocks
      BY <1>10, <2>1, SfsFileAssumption DEF BlockNumbers, Blocks
    <2>3. ASSUME NEW g \in Files, g # f PROVE s.din[g].indirect # b
      <3>1. Refers(s, f, -1) = b /\ Refers(s, g, -1) = s.din[g].indirect
        BY <1>10 DEF Refers
      <3>2. OnceOK(s) /\ -1 \in Places
        BY IndexPlace DEF FsOK
      <3>3. Refers(s, f, -1) # Refers(s, g, -1)
        BY <1>10, <2>3, <3>1, <3>2 DEF OnceOK
      <3> QED
        BY <3>1, <3>3
    <2> QED
      BY <1>7, <2>2, <2>3
  <1>12. PICK c : c = SetEnt(s1, b, n - NDIRECT, a)
    OBVIOUS
  <1>13. Changed(s1, c, f, n, a)
    <2>1. s1.din[f].indirect = b /\ ~(n < NDIRECT)
      BY <1>3, <1>7, <1>10
    <2> QED
      BY <2>1, <1>4, <1>7, <1>8, <1>11, <1>12, EntChanged
  <1>14. Entered(s, c, f, a, 0)
    <2>1. 0 \notin s.freemap
      BY <1>5, FieldsOf, SfsFileAssumption DEF Blocks
    <2>2. c.freemap = s.freemap \ {a, 0} /\ c.unused_blocks = Cardinality(c.freemap)
      BY <1>6, <1>13, <2>1 DEF Allocated, Changed
    <2>3. c.bytes[a] = ZeroBytes /\ \A d \in Blocks \ s.freemap : c.bytes[d] = s.bytes[d]
      BY <1>6, <1>7, <1>8, <1>13 DEF Allocated, Changed
    <2>4. \A g \in Files, j \in Places :
             Refers(c, g, j) = IF g = f /\ j = n THEN a ELSE Refers(s, g, j)
      BY <1>9, <1>13 DEF Changed
    <2>5. \A g \in Files : c.din[g].size = s.din[g].size /\ c.din[g].blocks = s.din[g].blocks
      BY <1>7, <1>13 DEF Changed
    <2>6. c \in FileSystems
      BY <1>13 DEF Changed
    <2> QED
      BY <1>3, <2>2, <2>3, <2>4, <2>5, <2>6 DEF Entered
  <1> QED
    BY <1>1, <1>2, <1>3, <1>10, <1>12, <1>14

(* The first block of the indirect part: both it and the indirect block are
   new. *)
LEMMA CreateBoth ==
    ASSUME NEW s, FsOK(s), NEW f \in Files, ~(s.din[f].blocks < NDIRECT),
           s.din[f].indirect = 0, Cardinality(s.freemap) >= 2,
           NEW s1, s1 = sfs_block_alloc(s), NEW s2, s2 = sfs_block_alloc(s1)
    PROVE  /\ FirstFree(s) \in s.freemap /\ FirstFree(s1) \in s.freemap /\ FirstFree(s) # FirstFree(s1)
           /\ Entered(s, SetEnt(SetIndirect(s2, f, FirstFree(s)), FirstFree(s),
                                s.din[f].blocks - NDIRECT, FirstFree(s1)),
                      f, FirstFree(s1), FirstFree(s))
  <1>1. PICK a : a = FirstFree(s)
    OBVIOUS
  <1>2. PICK a2 : a2 = FirstFree(s1)
    OBVIOUS
  <1>3. PICK n : n = s.din[f].blocks
    OBVIOUS
  <1>4. n \in Indices /\ n \in Places /\ n # -1
    BY <1>3, RoomInMap, IndexPlace
  <1>5. s \in FileSystems
    BY DEF FsOK
  <1>6. Allocated(s, s1, a)
    <2>1. Cardinality(s.freemap) \in Nat
      BY <1>5, FieldsOf, BlocksFinite, FS_Subset, FS_CardinalityType
    <2>2. Cardinality(s.freemap) >= 1
      BY <2>1
    <2> QED
      BY <1>1, <1>5, <2>2, AllocFs DEF FsOK
  <1>7. a \in s.freemap /\ s1 \in FileSystems /\ s1.din = s.din
    BY <1>6 DEF Allocated
  <1>8. a \in Blocks /\ a \in BlockNumbers /\ a # 0 /\ \A g \in Files : s.din[g].indirect # a
    BY <1>7, FreeNotIndirect
  <1>9. \A g \in Files, j \in Places : Refers(s1, g, j) = Refers(s, g, j)
    BY <1>5, <1>6, <1>8, AllocRefers
  <1>10. Allocated(s1, s2, a2)
    <2>1. Cardinality(s.freemap) \in Nat
      BY <1>5, FieldsOf, BlocksFinite, FS_Subset, FS_CardinalityType
    <2>2. s1.unused_blocks = Cardinality(s1.freemap) /\ Cardinality(s1.freemap) >= 1
      BY <1>6, <2>1 DEF Allocated
    <2> QED
      BY <1>2, <1>7, <2>2, AllocFs
  <1>11. a2 \in s.freemap /\ a2 # a /\ s2 \in FileSystems /\ s2.din = s.din
    BY <1>6, <1>7, <1>10 DEF Allocated
  <1>12. a2 \in Blocks /\ a2 \in BlockNumbers /\ a2 # 0 /\ \A g \in Files : s.din[g].indirect # a2
    BY <1>11, FreeNotIndirect
  <1>13. \A g \in Files, j \in Places : Refers(s2, g, j) = Refers(s, g, j)
    <2>1. \A g \in Files : s1.din[g].indirect # a2
      BY <1>7, <1>12
    <2>2. \A g \in Files, j \in Places : Refers(s2, g, j) = Refers(s1, g, j)
      BY <1>7, <1>10, <2>1, AllocRefers
    <2> QED
      BY <1>9, <2>2
  <1>14. PICK s3 : s3 = SetIndirect(s2, f, a)
    OBVIOUS
  <1>15. /\ Changed(s2, s3, f, -1, a)
         /\ \A g \in Files : s3.din[g].indirect = IF g = f THEN a ELSE s.din[g].indirect
    <2>1. s2.ents[a] = ZeroEnts
      BY <1>6, <1>8, <1>10, <1>11 DEF Allocated
    <2>2. s2.din[f].indirect = 0
      BY <1>11
    <2> QED
      BY <1>8, <1>11, <1>14, <2>1, <2>2, IndirectChanged
  <1>16. PICK c : c = SetEnt(s3, a, n - NDIRECT, a2)
    OBVIOUS
  <1>17. Changed(s3, c, f, n, a2)
    <2>1. s3 \in FileSystems
      BY <1>15 DEF Changed
    <2>2. s3.din[f].indirect = a /\ \A g \in Files : g # f => s3.din[g].indirect # a
      BY <1>8, <1>15
    <2>3. ~(n < NDIRECT)
      BY <1>3
    <2> QED
      BY <1>4, <1>8, <1>12, <1>16, <2>1, <2>2, <2>3, EntChanged
  <1>18. Entered(s, c, f, a2, a)
    <2>1. s3.bytes = s2.bytes /\ s3.freemap = s2.freemap /\ s3.unused_blocks = s2.unused_blocks
      BY <1>15 DEF Changed
    <2>2. c.bytes = s2.bytes /\ c.freemap = s2.freemap /\ c.unused_blocks = s2.unused_blocks
      BY <1>17, <2>1 DEF Changed
    <2>3. c.freemap = s.freemap \ {a2, a} /\ c.unused_blocks = Cardinality(c.freemap)
      BY <1>6, <1>10, <2>2 DEF Allocated
    <2>4. c.bytes[a2] = ZeroBytes /\ \A d \in Blocks \ s.freemap : c.bytes[d] = s.bytes[d]
      BY <1>6, <1>7, <1>10, <1>11, <1>12, <2>2 DEF Allocated
    <2>5. \A g \in Files, j \in Places :
             Refers(c, g, j) = IF g = f /\ j = n THEN a2
                               ELSE IF g = f /\ j = -1 THEN a ELSE Refers(s, g, j)
      BY <1>4, <1>13, <1>15, <1>17 DEF Changed
    <2>6. \A g \in Files : c.din[g].size = s.din[g].size /\ c.din[g].blocks = s.din[g].blocks
      BY <1>11, <1>15, <1>17 DEF Changed
    <2>7. c \in FileSystems
      BY <1>17 DEF Changed
    <2> QED
      BY <1>3, <1>8, <2>3, <2>4, <2>5, <2>6, <2>7 DEF Entered
  <1> QED
    BY <1>1, <1>2, <1>3, <1>7, <1>11, <1>14, <1>16, <1>18

(* sfs_bmap_load gives f one empty block more. *)
LEMMA CreateFs ==
    ASSUME NEW s, FsOK(s), NEW f \in Files, Fits(s, f, s.din[f].blocks)
    PROVE  /\ FsOK(sfs_bmap_load(s, f, s.din[f].blocks))
           /\ BlockCreated(s, sfs_bmap_load(s, f, s.din[f].blocks), f)
  <1>1. PICK n : n = s.din[f].blocks
    OBVIOUS
  <1>2. PICK c : c = sfs_bmap_create(s, f, n)
    OBVIOUS
  <1>3. sfs_bmap_load(s, f, n) = SetBlocks(c, f, n + 1)
    BY <1>1, <1>2 DEF sfs_bmap_load, Creates
  <1>4. Cardinality(s.freemap) >= Needed(s, f, n)
    BY <1>1 DEF Fits, Creates
  <1>5. n \in Int /\ NDIRECT \in Int
    BY <1>1, RoomInMap, IndexPlace, SfsFileAssumption
  <1>6. s \in FileSystems /\ s.unused_blocks = Cardinality(s.freemap)
    BY DEF FsOK
  <1>7. PICK s1 : s1 = sfs_block_alloc(s)
    OBVIOUS
  <1>8. PICK s2 : s2 = sfs_block_alloc(s1)
    OBVIOUS
  <1>9. Cardinality(s.freemap) \in Nat
    BY <1>6, FieldsOf
  <1>10. CASE n < NDIRECT
    <2>1. Cardinality(s.freemap) >= 1
      BY <1>4, <1>5, <1>10 DEF Needed
    <2>2. c = SetDirect(s1, f, n, FirstFree(s))
      BY <1>2, <1>7, <1>10 DEF sfs_bmap_create
    <2>3. Entered(s, c, f, FirstFree(s), 0)
      BY <1>1, <1>7, <1>10, <2>1, <2>2, CreateDirect
    <2>4. FirstFree(s) \in s.freemap
      BY <1>6, <2>1, AllocFs DEF Allocated
    <2>5. FirstFree(s) # 0
      BY <2>4, FreeNotIndirect
    <2> QED
      BY <1>1, <1>3, <2>3, <2>4, <2>5, EnteredCreated
  <1>11. CASE ~(n < NDIRECT) /\ s.din[f].indirect # 0
    <2>1. Cardinality(s.freemap) >= 1
      BY <1>4, <1>11 DEF Needed
    <2>2. c = SetEnt(s1, s.din[f].indirect, n - NDIRECT, FirstFree(s))
      BY <1>2, <1>7, <1>11 DEF sfs_bmap_create
    <2>3. Entered(s, c, f, FirstFree(s), 0)
      BY <1>1, <1>7, <1>11, <2>1, <2>2, CreateEnt
    <2>4. FirstFree(s) \in s.freemap
      BY <1>6, <2>1, AllocFs DEF Allocated
    <2>5. FirstFree(s) # 0
      BY <2>4, FreeNotIndirect
    <2> QED
      BY <1>1, <1>3, <2>3, <2>4, <2>5, EnteredCreated
  <1>12. CASE ~(n < NDIRECT) /\ s.din[f].indirect = 0
    <2>1. Cardinality(s.freemap) >= 2
      BY <1>4, <1>5, <1>12 DEF Needed
    <2>2. c = SetEnt(SetIndirect(s2, f, FirstFree(s)), FirstFree(s), n - NDIRECT, FirstFree(s1))
      BY <1>2, <1>7, <1>8, <1>12 DEF sfs_bmap_create
    <2>3. /\ FirstFree(s) \in s.freemap /\ FirstFree(s1) \in s.freemap /\ FirstFree(s) # FirstFree(s1)
          /\ Entered(s, c, f, FirstFree(s1), FirstFree(s))
      BY <1>1, <1>7, <1>8, <1>12, <2>1, <2>2, CreateBoth
    <2> QED
      BY <1>1, <1>3, <1>12, <2>3, EnteredCreated
  <1> QED
    BY <1>10, <1>11, <1>12

---------------------------------------------------------------------------
(* sfs_bmap_truncate: the last block is freed.                             *)

LEMMA TruncateFs ==
    ASSUME NEW s, FsOK(s), NEW f \in Files, s.din[f].blocks > 0,
           NEW t, t = sfs_bmap_truncate(s, f)
    PROVE  /\ FsOK(t) /\ t.bytes = s.bytes
           /\ \A g \in Files : /\ t.din[g].size = s.din[g].size
                               /\ t.din[g].blocks = IF g = f THEN s.din[f].blocks - 1 ELSE s.din[g].blocks
           /\ \A g \in Files, i \in Indices :
                 BlockOf(t, g, i) = IF g = f /\ i = s.din[f].blocks - 1 THEN 0 ELSE BlockOf(s, g, i)
  <1>1. PICK n : n = s.din[f].blocks - 1
    OBVIOUS
  <1>2. n \in Indices /\ n < s.din[f].blocks /\ s.din[f].blocks \in Nat
    BY <1>1, RoomInMap, SfsFileAssumption DEF Indices
  <1>3. n \in Places /\ n # -1 /\ n \in 0 .. NDIRECT + NENTRY
    BY <1>2, IndexPlace, SfsFileAssumption DEF Indices
  <1>4. PICK b : b = BlockOf(s, f, n)
    OBVIOUS
  <1>5. s \in FileSystems /\ MapOK(s) /\ OnceOK(s) /\ NoneLost(s) /\ s.unused_blocks = Cardinality(s.freemap)
    BY DEF FsOK
  <1>6. b # 0 /\ b \in Blocks /\ Refers(s, f, n) = b
    <2>1. b # 0 /\ b \in BlockNumbers
      BY <1>2, <1>4, <1>5, InodeType DEF MapOK
    <2> QED
      BY <1>2, <1>4, <2>1, RefersIs, SfsFileAssumption DEF BlockNumbers, Blocks
  <1>7. b \notin s.freemap
    BY <1>3, <1>5, <1>6 DEF OnceOK
  <1>8. PICK s1 : s1 = sfs_block_free(s, b)
    OBVIOUS
  <1>9. /\ s1.din = s.din /\ s1.bytes = s.bytes /\ s1.ents = s.ents
        /\ s1.freemap = s.freemap \cup {b} /\ s1.unused_blocks = s.unused_blocks + 1
        /\ s1 \in FileSystems
    <2>1. PICK free : free = s.freemap \cup {b}
      OBVIOUS
    <2>2. PICK k : k = s.unused_blocks + 1
      OBVIOUS
    <2>3. free \in SUBSET Blocks /\ k \in Nat
      BY <1>5, <1>6, <2>1, <2>2, FieldsOf
    <2>4. s1 = [s EXCEPT !.freemap = free, !.unused_blocks = k]
      BY <1>8, <2>1, <2>2 DEF sfs_block_free
    <2> QED
      BY <1>5, <2>1, <2>2, <2>3, <2>4 DEF FileSystems
  <1>10. s1.unused_blocks = Cardinality(s1.freemap)
    <2>1. IsFiniteSet(s.freemap)
      BY <1>5, FieldsOf, BlocksFinite, FS_Subset
    <2> QED
      BY <1>5, <1>7, <1>9, <2>1, FS_AddElement
  <1>11. \A g \in Files, j \in Places : Refers(s1, g, j) = Refers(s, g, j)
    BY <1>9 DEF Refers, BlockOf
  <1>12. PICK c : c = IF n < NDIRECT THEN SetDirect(s1, f, n, 0)
                      ELSE IF s.din[f].indirect = 0 THEN s1
                      ELSE SetEnt(s1, s.din[f].indirect, n - NDIRECT, 0)
    OBVIOUS
  <1>13. t = SetBlocks(c, f, n)
    BY <1>1, <1>4, <1>6, <1>8, <1>12 DEF sfs_bmap_truncate
  <1>14. 0 \in BlockNumbers
    BY SfsFileAssumption DEF BlockNumbers
  <1>15. Changed(s1, c, f, n, 0)
    <2>1. CASE n < NDIRECT
      <3>1. c = SetDirect(s1, f, n, 0)
        BY <1>12, <2>1
      <3> QED
        BY <1>2, <1>9, <1>14, <2>1, <3>1, DirectChanged
    <2>2. CASE ~(n < NDIRECT)
      <3>1. PICK ib : ib = s.din[f].indirect
        OBVIOUS
      <3>2. ib # 0
        BY <1>4, <1>6, <2>2, <3>1 DEF BlockOf
      <3>3. ib \in Blocks
        <4>1. ib \in BlockNumbers
          BY <1>5, <3>1, InodeType DEF Inode
        <4> QED
          BY <3>2, <4>1, SfsFileAssumption DEF BlockNumbers, Blocks
      <3>4. ASSUME NEW g \in Files, g # f PROVE s1.din[g].indirect # ib
        <4>1. Refers(s, f, -1) = ib /\ Refers(s, g, -1) = s.din[g].indirect /\ -1 \in Places
          BY <3>1, IndexPlace DEF Refers
        <4>2. Refers(s, f, -1) # Refers(s, g, -1)
          BY <1>5, <3>2, <3>4, <4>1 DEF OnceOK
        <4> QED
          BY <1>9, <4>1, <4>2
      <3>5. c = SetEnt(s1, ib, n - NDIRECT, 0) /\ s1.din[f].indirect = ib
        BY <1>9, <1>12, <2>2, <3>1, <3>2
      <3> QED
        BY <1>2, <1>9, <1>14, <2>2, <3>3, <3>4, <3>5, EntChanged
    <2> QED
      BY <2>1, <2>2
  <1>16. /\ c \in FileSystems /\ c.bytes = s.bytes /\ c.freemap = s.freemap \cup {b}
         /\ c.unused_blocks = Cardinality(c.freemap)
         /\ \A g \in Files : c.din[g].size = s.din[g].size /\ c.din[g].blocks = s.din[g].blocks
         /\ \A g \in Files, j \in Places : Refers(c, g, j) = IF g = f /\ j = n THEN 0 ELSE Refers(s, g, j)
    BY <1>9, <1>10, <1>11, <1>15 DEF Changed
  <1>17. /\ t \in FileSystems /\ t.bytes = s.bytes /\ t.freemap = s.freemap \cup {b}
         /\ t.unused_blocks = Cardinality(t.freemap)
         /\ \A g \in Files : /\ t.din[g].size = s.din[g].size
                             /\ t.din[g].blocks = IF g = f THEN n ELSE s.din[g].blocks
         /\ \A g \in Files, j \in Places : Refers(t, g, j) = IF g = f /\ j = n THEN 0 ELSE Refers(s, g, j)
    <2>1. /\ t \in FileSystems
          /\ t.bytes = c.bytes /\ t.freemap = c.freemap /\ t.unused_blocks = c.unused_blocks
          /\ \A g \in Files : /\ t.din[g].size = c.din[g].size
                              /\ t.din[g].blocks = IF g = f THEN n ELSE c.din[g].blocks
          /\ \A g \in Files, j \in Places : Refers(t, g, j) = Refers(c, g, j)
      BY <1>3, <1>13, <1>16, BlocksSet
    <2> QED
      BY <1>16, <2>1
  <1>18. \A g \in Files, i \in Indices :
            BlockOf(t, g, i) = IF g = f /\ i = n THEN 0 ELSE BlockOf(s, g, i)
    BY <1>17, IndexPlace, RefersIs
  <1>19. MapOK(t)
    <2>1. ASSUME NEW g \in Files, NEW i \in Indices
          PROVE  BlockOf(t, g, i) # 0 <=> i < t.din[g].blocks
      <3>1. i \in Nat /\ n \in Nat
        BY <1>2, IndexPlace
      <3>2. BlockOf(s, g, i) # 0 <=> i < s.din[g].blocks
        BY <1>5 DEF MapOK
      <3> QED
        BY <1>1, <1>2, <1>17, <1>18, <3>1, <3>2
    <2> QED
      BY <2>1 DEF MapOK
  <1>20. ASSUME NEW g \in Files, NEW j \in Places, Refers(t, g, j) # 0
         PROVE  Refers(t, g, j) = Refers(s, g, j) /\ ~(g = f /\ j = n)
    BY <1>17, <1>20
  <1>21. OnceOK(t)
    <2>1. ASSUME NEW g \in Files, NEW j \in Places, Refers(t, g, j) # 0
          PROVE  Refers(t, g, j) \notin t.freemap
      <3>1. Refers(s, g, j) # 0 /\ Refers(s, g, j) \notin s.freemap
        BY <1>5, <1>20, <2>1 DEF OnceOK
      <3>2. Refers(s, g, j) # b
        BY <1>3, <1>5, <1>6, <1>20, <2>1, <3>1 DEF OnceOK
      <3> QED
        BY <1>17, <1>20, <2>1, <3>1, <3>2
    <2>2. ASSUME NEW g \in Files, NEW j \in Places, NEW h \in Files, NEW i \in Places,
                 Refers(t, g, j) # 0, Refers(t, g, j) = Refers(t, h, i)
          PROVE  g = h /\ j = i
      <3>1. Refers(s, g, j) # 0 /\ Refers(s, g, j) = Refers(s, h, i)
        BY <1>20, <2>2
      <3> QED
        BY <1>5, <3>1 DEF OnceOK
    <2> QED
      BY <2>1, <2>2 DEF OnceOK
  <1>22. NoneLost(t)
    <2> SUFFICES ASSUME NEW d \in Blocks \ t.freemap
                 PROVE  \E g \in Files, j \in Places : Refers(t, g, j) = d
      BY DEF NoneLost
    <2>1. d \in Blocks \ s.freemap /\ d # b
      BY <1>17
    <2>2. PICK g \in Files, j \in Places : Refers(s, g, j) = d
      BY <1>5, <2>1 DEF NoneLost
    <2>3. ~(g = f /\ j = n)
      BY <1>6, <2>1, <2>2
    <2> QED
      BY <1>17, <2>2, <2>3
  <1> QED
    BY <1>1, <1>17, <1>18, <1>19, <1>21, <1>22 DEF FsOK

---------------------------------------------------------------------------
(* Steps of a call for file f, and the other files.                        *)

(* Nothing of file g has changed. *)
Same(s, t, g) ==
    /\ t.din[g].size = s.din[g].size /\ t.din[g].blocks = s.din[g].blocks
    /\ \A i \in Indices :
          /\ BlockOf(t, g, i) = BlockOf(s, g, i)
          /\ BlockOf(s, g, i) # 0 => t.bytes[BlockOf(s, g, i)] = s.bytes[BlockOf(s, g, i)]

LEMMA SameOK ==
    ASSUME NEW s, NEW t, NEW g, Same(s, t, g), NEW call, NEW c
    PROVE  /\ FileOK(s, g, call, c) => FileOK(t, g, call, c)
           /\ Sized(s, g, call) => Sized(t, g, call)
  <1>1. ASSUME NEW i \in Indices, BlockContents(s, g, call, c, i)
        PROVE  BlockContents(t, g, call, c, i)
    BY <1>1 DEF Same, BlockContents
  <1>2. t.din[g].size = s.din[g].size /\ t.din[g].blocks = s.din[g].blocks
    BY DEF Same
  <1>3. DataOK(s, g, call, c) => DataOK(t, g, call, c)
    BY <1>1, <1>2 DEF DataOK
  <1> QED
    BY <1>2, <1>3 DEF FileOK, Sized

(* SetFs sets the file system. *)
LEMMA NewFs ==
    ASSUME NEW t \in FileSystems, SetFs(t)
    PROVE  Fs' = t
  BY DEF SetFs, Fs, FileSystems

(* What has to be shown of a step that changes file f only. *)
LEMMA FileStep ==
    ASSUME Inv, NEW t, FsOK(t), SetFs(t), NEW f \in Files,
           \A g \in Files \ {f} : Same(Fs, t, g),
           NEW call \in Calls, op' = [op EXCEPT ![f] = call],
           NEW c \in Seq(Nat), contents' = [contents EXCEPT ![f] = c],
           \A g \in Files \ {f} : g \in strained => g \in strained',
           FileOK(t, f, call, c), f \notin strained' => Sized(t, f, call)
    PROVE  Inv'
  <1>1. t \in FileSystems
    BY DEF FsOK
  <1>2. Fs' = t
    BY <1>1, NewFs
  <1>3. FsOK(Fs)'
    BY <1>2
  <1>4. (op \in [Files -> Calls] /\ contents \in [Files -> Seq(Nat)])'
    BY DEF Inv
  <1>5. ASSUME NEW g \in Files
        PROVE  /\ FileOK(Fs', g, op'[g], contents'[g])
               /\ g \notin strained' => Sized(Fs', g, op'[g])
    <2>1. CASE g = f
      <3>1. op'[g] = call /\ contents'[g] = c
        BY <2>1 DEF Inv
      <3> QED
        BY <1>2, <2>1, <3>1
    <2>2. CASE g # f
      <3>1. op'[g] = op[g] /\ contents'[g] = contents[g]
        BY <2>2 DEF Inv
      <3>2. PICK s : s = Fs
        OBVIOUS
      <3>3. PICK o : o = op[g]
        OBVIOUS
      <3>4. PICK d : d = contents[g]
        OBVIOUS
      <3>5. FileOK(s, g, o, d) /\ (g \notin strained => Sized(s, g, o))
        BY <3>2, <3>3, <3>4 DEF Inv, FilesOK
      <3>6. FileOK(t, g, o, d) /\ (g \notin strained => Sized(t, g, o))
        BY <2>2, <3>2, <3>5, SameOK
      <3> QED
        BY <1>2, <2>2, <3>1, <3>3, <3>4, <3>6
    <2> QED
      BY <2>1, <2>2
  <1>6. FilesOK'
    BY <1>5 DEF FilesOK
  <1> QED
    BY <1>3, <1>4, <1>6 DEF Inv

(* The blocks that a file names are not free, and belong to it alone. *)
LEMMA OwnBlocks ==
    ASSUME NEW s, FsOK(s), NEW g \in Files, NEW i \in Indices, BlockOf(s, g, i) # 0
    PROVE  /\ BlockOf(s, g, i) \in Blocks \ s.freemap
           /\ \A f \in Files, j \in Indices : BlockOf(s, f, j) = BlockOf(s, g, i) => f = g /\ j = i
  <1>1. s \in FileSystems /\ OnceOK(s)
    BY DEF FsOK
  <1>2. BlockOf(s, g, i) \in BlockNumbers
    BY <1>1, InodeType
  <1>3. BlockOf(s, g, i) \in Blocks
    BY <1>2, SfsFileAssumption DEF BlockNumbers, Blocks
  <1>4. i \in Places /\ Refers(s, g, i) = BlockOf(s, g, i)
    BY IndexPlace, RefersIs
  <1>5. BlockOf(s, g, i) \notin s.freemap
    BY <1>1, <1>4 DEF OnceOK
  <1>6. ASSUME NEW f \in Files, NEW j \in Indices, BlockOf(s, f, j) = BlockOf(s, g, i)
        PROVE  f = g /\ j = i
    <2>1. j \in Places /\ Refers(s, f, j) = BlockOf(s, f, j)
      BY IndexPlace, RefersIs
    <2> QED
      BY <1>1, <1>4, <1>6, <2>1 DEF OnceOK
  <1> QED
    BY <1>3, <1>5, <1>6

(* sfs_bmap_load finds or creates a block, and every file still contains
   what it should. *)
LEMMA LoadOK ==
    ASSUME NEW s, FsOK(s), NEW f \in Files, NEW index \in Nat, index <= s.din[f].blocks,
           Fits(s, f, index), NEW t, t = sfs_bmap_load(s, f, index)
    PROVE  /\ FsOK(t) /\ index \in Indices /\ BlockOf(t, f, index) # 0
           /\ t.din[f].size = s.din[f].size
           /\ t.din[f].blocks = IF index = s.din[f].blocks THEN index + 1 ELSE s.din[f].blocks
           /\ \A g \in Files \ {f} : Same(s, t, g)
           /\ \A call, c : DataOK(s, f, call, c) /\ ~Shrinking(call) => DataOK(t, f, call, c)
  <1>1. PICK n : n = s.din[f].blocks
    OBVIOUS
  <1>2. n \in Indices /\ n \in Nat
    BY <1>1, RoomInMap, IndexPlace
  <1>3. CASE index < n
    <2>1. t = s
      BY <1>1, <1>2, <1>3 DEF sfs_bmap_load, Creates
    <2>2. index \in Indices
      BY <1>2, <1>3, SfsFileAssumption DEF Indices
    <2>3. BlockOf(s, f, index) # 0
      BY <1>1, <1>3, <2>2 DEF FsOK, MapOK
    <2> QED
      BY <1>1, <1>2, <1>3, <2>1, <2>2, <2>3 DEF Same
  <1>4. CASE index = n
    <2>1. FsOK(t) /\ BlockCreated(s, t, f)
      BY <1>1, <1>4, CreateFs
    <2>2. PICK b : b = BlockOf(t, f, n)
      OBVIOUS
    <2>3. /\ \A g \in Files : /\ t.din[g].size = s.din[g].size
                              /\ t.din[g].blocks = IF g = f THEN n + 1 ELSE s.din[g].blocks
          /\ \A g \in Files, i \in Indices : g # f \/ i # n => BlockOf(t, g, i) = BlockOf(s, g, i)
          /\ b \in s.freemap /\ t.bytes[b] = ZeroBytes
          /\ \A d \in Blocks \ s.freemap : t.bytes[d] = s.bytes[d]
      BY <1>1, <2>1, <2>2 DEF BlockCreated
    <2>4. b # 0
      BY <2>3, FreeNotIndirect
    <2>5. \A g \in Files \ {f} : Same(s, t, g)
      BY <2>3, OwnBlocks DEF Same
    <2>6. ASSUME NEW call, NEW c, DataOK(s, f, call, c), ~Shrinking(call)
          PROVE  DataOK(t, f, call, c)
      <3>1. ASSUME NEW i \in Indices PROVE BlockContents(t, f, call, c, i)
        <4>1. BlockContents(s, f, call, c, i)
          BY <2>6 DEF DataOK
        <4>2. CASE i = n
          <5>1. BlockOf(s, f, n) = 0
            BY <1>1, <1>2 DEF FsOK, MapOK
          <5>2. \A o \in 0 .. BLKSIZE - 1 : Expected(f, call, c, n * BLKSIZE + o) = 0
            BY <2>6, <4>1, <4>2, <5>1 DEF BlockContents
          <5>3. \A o \in 0 .. BLKSIZE - 1 : t.bytes[b][o] = 0
            BY <2>3 DEF ZeroBytes
          <5> QED
            BY <2>2, <2>4, <4>2, <5>2, <5>3 DEF BlockContents
        <4>3. CASE i # n
          <5>1. BlockOf(t, f, i) = BlockOf(s, f, i)
            BY <2>3, <4>3
          <5>2. BlockOf(s, f, i) # 0 => t.bytes[BlockOf(s, f, i)] = s.bytes[BlockOf(s, f, i)]
            BY <2>3, OwnBlocks
          <5> QED
            BY <4>1, <5>1, <5>2 DEF BlockContents
        <4> QED
          BY <4>2, <4>3
      <3>2. s.din[f].size <= (t.din[f].blocks + 1) * BLKSIZE
        <4>1. s.din[f].size <= (n + 1) * BLKSIZE /\ s.din[f].size \in Nat
          BY <1>1, <2>6, InodeType DEF DataOK, FsOK, Inode
        <4>2. (n + 1) * BLKSIZE <= (n + 2) * BLKSIZE /\ (n + 1) * BLKSIZE \in Nat /\ (n + 2) * BLKSIZE \in Nat
          BY <1>2, Monotone, SfsFileAssumption
        <4>3. t.din[f].blocks = n + 1 /\ (n + 1) + 1 = n + 2
          BY <1>2, <2>3
        <4> QED
          BY <4>1, <4>2, <4>3
      <3> QED
        BY <2>3, <2>6, <3>1, <3>2 DEF DataOK
    <2> QED
      BY <1>1, <1>2, <1>4, <2>1, <2>2, <2>3, <2>4, <2>5, <2>6
  <1> QED
    BY <1>1, <1>2, <1>3, <1>4

(* The size of a file is set; its blocks stay. *)
LEMMA SizeSet ==
    ASSUME NEW s, FsOK(s), NEW f \in Files, NEW size \in Nat, NEW t, t = SetSize(s, f, size)
    PROVE  /\ FsOK(t) /\ t.bytes = s.bytes
           /\ t.din[f].size = size /\ t.din[f].blocks = s.din[f].blocks
           /\ \A g \in Files, i \in Indices : BlockOf(t, g, i) = BlockOf(s, g, i)
           /\ \A g \in Files \ {f} : Same(s, t, g)
  <1>1. s \in FileSystems
    BY DEF FsOK
  <1>2. s.din[f] \in Inode
    BY <1>1, InodeType
  <1>3. PICK inode : inode = [s.din[f] EXCEPT !.size = size]
    OBVIOUS
  <1>4. /\ inode \in Inode /\ inode.direct = s.din[f].direct /\ inode.size = size
        /\ inode.blocks = s.din[f].blocks /\ inode.indirect = s.din[f].indirect
    BY <1>2, <1>3 DEF Inode
  <1>5. t = SetInode(s, f, inode)
    BY <1>3 DEF SetSize
  <1>6. /\ t \in FileSystems /\ t.din = [s.din EXCEPT ![f] = inode]
        /\ t.bytes = s.bytes /\ t.ents = s.ents
        /\ t.freemap = s.freemap /\ t.unused_blocks = s.unused_blocks
    BY <1>1, <1>4, <1>5, InodeSet
  <1>7. \A g \in Files : t.din[g] = IF g = f THEN inode ELSE s.din[g]
    BY <1>1, <1>6, FieldsOf
  <1>8. \A g \in Files : /\ t.din[g].size = IF g = f THEN size ELSE s.din[g].size
                         /\ t.din[g].blocks = s.din[g].blocks
                         /\ t.din[g].direct = s.din[g].direct
                         /\ t.din[g].indirect = s.din[g].indirect
    BY <1>4, <1>7
  <1>9. FsOK(t) /\ \A g \in Files, i \in Indices : BlockOf(t, g, i) = BlockOf(s, g, i)
    BY <1>6, <1>8, SameMap
  <1>10. \A g \in Files \ {f} : Same(s, t, g)
    BY <1>6, <1>8, <1>9 DEF Same
  <1> QED
    BY <1>6, <1>8, <1>9, <1>10

(* The contents of block number i of file f are replaced. *)
LEMMA BytesSet ==
    ASSUME NEW s, FsOK(s), NEW f \in Files, NEW i \in Indices,
           NEW b, b = BlockOf(s, f, i), b # 0,
           NEW data \in [0 .. BLKSIZE - 1 -> Nat],
           NEW t, t = SetBytes(s, b, data)
    PROVE  /\ FsOK(t) /\ t.bytes[b] = data
           /\ t.din = s.din
           /\ \A j \in Indices : /\ BlockOf(t, f, j) = BlockOf(s, f, j)
                                 /\ j # i /\ BlockOf(s, f, j) # 0
                                      => t.bytes[BlockOf(s, f, j)] = s.bytes[BlockOf(s, f, j)]
           /\ \A g \in Files \ {f} : Same(s, t, g)
  <1>1. s \in FileSystems
    BY DEF FsOK
  <1>2. b \in Blocks
    BY OwnBlocks
  <1>3. PICK bs : bs = [s.bytes EXCEPT ![b] = data]
    OBVIOUS
  <1>4. bs \in [Blocks -> [0 .. BLKSIZE - 1 -> Nat]]
    BY <1>1, <1>3, FieldsOf, Updated
  <1>5. t = [s EXCEPT !.bytes = bs]
    BY <1>3 DEF SetBytes
  <1>6. /\ t \in FileSystems /\ t.din = s.din /\ t.bytes = bs /\ t.ents = s.ents
        /\ t.freemap = s.freemap /\ t.unused_blocks = s.unused_blocks
    BY <1>1, <1>4, <1>5 DEF FileSystems
  <1>7. FsOK(t) /\ \A g \in Files, j \in Indices : BlockOf(t, g, j) = BlockOf(s, g, j)
    BY <1>6, SameMap
  <1>8. \A d \in Blocks : t.bytes[d] = IF d = b THEN data ELSE s.bytes[d]
    BY <1>1, <1>3, <1>6, FieldsOf
  <1>9. ASSUME NEW g \in Files, NEW j \in Indices, BlockOf(s, g, j) # 0, g # f \/ j # i
        PROVE  t.bytes[BlockOf(s, g, j)] = s.bytes[BlockOf(s, g, j)]
    <2>1. BlockOf(s, g, j) \in Blocks /\ BlockOf(s, g, j) # b
      BY <1>9, OwnBlocks
    <2> QED
      BY <1>8, <2>1
  <1>10. \A g \in Files \ {f} : Same(s, t, g)
    BY <1>6, <1>7, <1>9 DEF Same
  <1> QED
    BY <1>2, <1>6, <1>7, <1>8, <1>9, <1>10

---------------------------------------------------------------------------
(* The data of a write.                                                    *)

(* After one block of a write, the blocks that the size calls for are those
   that there are. *)
Sizes(b, n, index, size, reached, next) ==
    /\ n = ROUNDUP_DIV(reached, b) /\ index <= n
    /\ index * b < next /\ next <= (index + 1) * b
    /\ size <= reached /\ reached <= Max({size, next})

LEMMA BlocksOfWrite ==
    ASSUME NEW b \in Nat \ {0}, NEW n \in Nat, NEW index \in Nat, NEW size \in Nat,
           NEW reached \in Nat, NEW next \in Nat, Sizes(b, n, index, size, reached, next)
    PROVE  ROUNDUP_DIV(Max({size, next}), b) = IF index = n THEN index + 1 ELSE n
  <1>0. /\ n = ROUNDUP_DIV(reached, b) /\ index <= n
        /\ index * b < next /\ next <= (index + 1) * b
        /\ size <= reached /\ reached <= Max({size, next})
    BY DEF Sizes
  <1>1. PICK k : k = Max({size, next})
    OBVIOUS
  <1>2. k \in Nat /\ size <= k /\ next <= k /\ k \in {size, next}
    BY <1>1, MaxOfTwo
  <1>3. reached <= n * b /\ \A j \in Nat : reached <= j * b => n <= j
    BY <1>0, RoundUp
  <1>4. n * b \in Nat /\ index * b \in Nat /\ (index + 1) * b \in Nat
    BY Monotone
  <1>5. CASE index = n
    <2>1. n * b <= (n + 1) * b
      BY Monotone
    <2>2. k <= (n + 1) * b /\ n * b < k
      BY <1>0, <1>2, <1>3, <1>4, <1>5, <2>1
    <2>3. ROUNDUP_DIV(k, b) = n + 1
      BY <1>2, <2>2, RoundUpIs
    <2> QED
      BY <1>1, <1>5, <2>3
  <1>6. CASE index < n
    <2>1. (index + 1) * b <= n * b
      BY <1>6, Monotone
    <2>2. k <= n * b
      BY <1>0, <1>2, <1>3, <1>4, <2>1
    <2>3. PICK q \in Nat : q = ROUNDUP_DIV(k, b)
      BY <1>2, RoundUp
    <2>4. q <= n /\ k <= q * b /\ q * b \in Nat
      BY <1>2, <2>2, <2>3, RoundUp, Monotone
    <2>5. n <= q
      BY <1>0, <1>1, <1>2, <1>3, <2>4
    <2> QED
      BY <1>1, <1>6, <2>3, <2>4, <2>5
  <1> QED
    BY <1>0, <1>5, <1>6

(* The call writes the data up to next, which lie in block number index. *)
Writes(index, call, next) ==
    /\ call.call = "write" /\ call.start <= call.pos /\ index * BLKSIZE <= call.pos
    /\ call.pos < next /\ next <= (index + 1) * BLKSIZE

LEMMA WriteOK ==
    ASSUME NEW s, FsOK(s), NEW f \in Files, NEW index \in Indices,
           NEW b, b = BlockOf(s, f, index), b # 0,
           NEW call \in Calls, NEW c, DataOK(s, f, call, c),
           NEW next \in Nat, Writes(index, call, next),
           NEW t, t = SetBytes(s, b, Patched(f, s.bytes[b], index, call.pos, next))
    PROVE  /\ FsOK(t) /\ t.din = s.din
           /\ \A g \in Files \ {f} : Same(s, t, g)
           /\ DataOK(t, f, [call EXCEPT !.pos = next], c)
  <1>1. b \in Blocks
    BY OwnBlocks
  <1>2. s.bytes[b] \in [0 .. BLKSIZE - 1 -> Nat]
    BY <1>1, FieldsOf DEF FsOK
  <1>3. Byte(f) \in Nat
    BY SfsFileAssumption DEF Byte
  <1>0. PICK data : data = Patched(f, s.bytes[b], index, call.pos, next)
    OBVIOUS
  <1>4. data \in [0 .. BLKSIZE - 1 -> Nat]
    BY <1>0, <1>2, <1>3 DEF Patched
  <1>5. /\ FsOK(t) /\ t.bytes[b] = data /\ t.din = s.din
        /\ \A j \in Indices : /\ BlockOf(t, f, j) = BlockOf(s, f, j)
                              /\ j # index /\ BlockOf(s, f, j) # 0
                                   => t.bytes[BlockOf(s, f, j)] = s.bytes[BlockOf(s, f, j)]
        /\ \A g \in Files \ {f} : Same(s, t, g)
    BY <1>0, <1>4, BytesSet
  <1>6. PICK call2 : call2 = [call EXCEPT !.pos = next]
    OBVIOUS
  <1>7. /\ call2 \in Calls /\ call2.call = "write" /\ call2.pos = next
        /\ call2.start = call.start /\ call2.end = call.end
    BY <1>6 DEF Calls, Writes
  <1>8. /\ call.start \in Nat /\ call.pos \in Nat /\ call.start <= call.pos
        /\ index * BLKSIZE <= call.pos /\ call.pos < next /\ next <= (index + 1) * BLKSIZE
        /\ call.call = "write"
    BY DEF Calls, Writes
  <1>9. ASSUME NEW p \in Nat
        PROVE  Expected(f, call2, c, p)
                  = IF p \in call.pos .. next - 1 THEN Byte(f) ELSE Expected(f, call, c, p)
    BY <1>7, <1>8 DEF Expected
  <1>10. ~Shrinking(call) /\ ~Shrinking(call2)
    BY <1>7, <1>8 DEF Shrinking
  <1>11. ASSUME NEW j \in Indices PROVE BlockContents(t, f, call2, c, j)
    <2>1. BlockContents(s, f, call, c, j)
      BY DEF DataOK
    <2>2. j \in Nat /\ index \in Nat
      BY IndexPlace
    <2>3. /\ j * BLKSIZE \in Nat /\ index * BLKSIZE \in Nat
          /\ (j + 1) * BLKSIZE = j * BLKSIZE + BLKSIZE
          /\ (index + 1) * BLKSIZE = index * BLKSIZE + BLKSIZE
      BY <2>2, Monotone, SfsFileAssumption
    <2>4. CASE j = index
      <3>1. BlockOf(t, f, j) = b
        BY <1>5, <2>4
      <3>2. ASSUME NEW o \in 0 .. BLKSIZE - 1
            PROVE  t.bytes[b][o] = Expected(f, call2, c, j * BLKSIZE + o)
        <4>1. j * BLKSIZE + o \in Nat
          BY <2>3
        <4>2. s.bytes[b][o] = Expected(f, call, c, j * BLKSIZE + o)
          BY <2>1, <2>4 DEF BlockContents
        <4>3. t.bytes[b][o] = IF j * BLKSIZE + o \in call.pos .. next - 1 THEN Byte(f)
                              ELSE s.bytes[b][o]
          <5>1. data = [x \in 0 .. BLKSIZE - 1 |-> IF index * BLKSIZE + x \in call.pos .. next - 1
                                                  THEN Byte(f) ELSE s.bytes[b][x]]
            BY <1>0, Zenon DEF Patched
          <5>2. data[o] = IF index * BLKSIZE + o \in call.pos .. next - 1 THEN Byte(f) ELSE s.bytes[b][o]
            BY <5>1, Zenon
          <5>3. t.bytes[b] = data
            BY <1>5, Zenon
          <5> QED
            BY <2>4, <5>2, <5>3, Zenon
        <4> QED
          BY <1>9, <4>1, <4>2, <4>3
      <3> QED
        BY <3>1, <3>2 DEF BlockContents
    <2>5. CASE j # index
      <3>1. ASSUME NEW o \in 0 .. BLKSIZE - 1
            PROVE  /\ j * BLKSIZE + o \in Nat
                   /\ j * BLKSIZE + o \notin call.pos .. next - 1
        <4>1. CASE j + 1 <= index
          <5>1. j * BLKSIZE + BLKSIZE <= index * BLKSIZE
            BY <2>2, <4>1, BlockSize, NextMultiple
          <5> QED
            BY <1>8, <2>3, <5>1, SfsFileAssumption
        <4>2. CASE index + 1 <= j
          <5>1. index * BLKSIZE + BLKSIZE <= j * BLKSIZE
            BY <2>2, <4>2, BlockSize, NextMultiple
          <5> QED
            BY <1>8, <2>3, <5>1, SfsFileAssumption
        <4> QED
          BY <2>2, <2>5, <4>1, <4>2
      <3>2. \A o \in 0 .. BLKSIZE - 1 : Expected(f, call2, c, j * BLKSIZE + o)
                                           = Expected(f, call, c, j * BLKSIZE + o)
        BY <1>9, <3>1
      <3> QED
        BY <1>5, <1>10, <2>1, <2>5, <3>2 DEF BlockContents
    <2> QED
      BY <2>4, <2>5
  <1>12. DataOK(t, f, call2, c)
    BY <1>5, <1>10, <1>11 DEF DataOK
  <1> QED
    BY <1>5, <1>6, <1>12

(* What a file should contain after a write. *)
Overwritten(f, c, start, pos, d) ==
    /\ d \in Seq(Nat) /\ Len(d) = Max({Len(c), pos})
    /\ \A k \in 1 .. Len(d) :
          d[k] = IF k > start /\ k <= pos THEN Byte(f) ELSE IF k <= Len(c) THEN c[k] ELSE 0

LEMMA OverwriteIs ==
    ASSUME NEW f \in Files, NEW c \in Seq(Nat), NEW start \in Nat, NEW pos \in Nat, start <= pos,
           NEW d, d = Overwrite(c, f, start, pos - start)
    PROVE  Overwritten(f, c, start, pos, d)
  <1>1. PICK n : n = Max({Len(c), pos})
    OBVIOUS
  <1>2. n \in Nat
    BY <1>1, MaxOfTwo
  <1>3. start + (pos - start) = pos
    OBVIOUS
  <1>4. d = [k \in 1 .. n |->
               IF k > start /\ k <= pos THEN Byte(f) ELSE IF k <= Len(c) THEN c[k] ELSE 0]
    BY <1>1, <1>3 DEF Overwrite
  <1>5. Byte(f) \in Nat
    BY SfsFileAssumption DEF Byte
  <1>6. \A k \in 1 .. n : k <= Len(c) => c[k] \in Nat
    OBVIOUS
  <1>7. d \in [1 .. n -> Nat]
    BY <1>2, <1>4, <1>5, <1>6
  <1>8. d \in Seq(Nat) /\ Len(d) = n
    BY <1>2, <1>7, SeqOfFunction
  <1> QED
    BY <1>1, <1>4, <1>8 DEF Overwritten

(* A write ends when it has written its data up to call.pos. *)
Finishes(s, f, call, size) ==
    /\ call.call = "write" /\ call.start <= call.pos
    /\ size = Max({s.din[f].size, call.pos})
    /\ size <= MaxSize /\ size <= (s.din[f].blocks + 1) * BLKSIZE

LEMMA FinishOK ==
    ASSUME NEW s, FsOK(s), NEW f \in Files, NEW call \in Calls, NEW size, Finishes(s, f, call, size),
           NEW c, DataOK(s, f, call, c),
           NEW t, t = SetSize(s, f, size), NEW d, d = Overwrite(c, f, call.start, call.pos - call.start)
    PROVE  /\ FsOK(t) /\ DataOK(t, f, Idle, d)
           /\ t.din[f].size = size /\ t.din[f].blocks = s.din[f].blocks
           /\ \A g \in Files \ {f} : Same(s, t, g)
  <1>1. /\ call.start \in Nat /\ call.pos \in Nat /\ call.start <= call.pos
        /\ call.call = "write"
        /\ size = Max({s.din[f].size, call.pos})
        /\ size <= MaxSize /\ size <= (s.din[f].blocks + 1) * BLKSIZE
    BY DEF Calls, Finishes
  <1>2. s.din[f].size \in Nat
    BY InodeType DEF FsOK, Inode
  <1>3. size \in Nat
    BY <1>1, <1>2, MaxOfTwo
  <1>4. /\ FsOK(t) /\ t.bytes = s.bytes
        /\ t.din[f].size = size /\ t.din[f].blocks = s.din[f].blocks
        /\ \A i \in Indices : BlockOf(t, f, i) = BlockOf(s, f, i)
        /\ \A g \in Files \ {f} : Same(s, t, g)
    BY <1>3, SizeSet
  <1>5. c \in Seq(Nat) /\ Len(c) = s.din[f].size
    BY DEF DataOK
  <1>6. /\ d \in Seq(Nat) /\ Len(d) = size
        /\ \A k \in 1 .. Len(d) : d[k] = IF k > call.start /\ k <= call.pos THEN Byte(f)
                                         ELSE IF k <= Len(c) THEN c[k] ELSE 0
    <2>1. Overwritten(f, c, call.start, call.pos, d)
      BY <1>1, <1>5, OverwriteIs
    <2> QED
      BY <1>1, <1>5, <2>1 DEF Overwritten
  <1>7. Len(c) <= size /\ call.pos <= size
    BY <1>1, <1>2, <1>5, MaxOfTwo, SMTT(30)
  <1>8. ASSUME NEW p \in Nat PROVE Expected(f, Idle, d, p) = Expected(f, call, c, p)
    <2>1. Expected(f, Idle, d, p) = IF p < Len(d) THEN d[p + 1] ELSE 0
      BY DEF Expected, Idle
    <2>2. CASE p < Len(d)
      <3>1. p + 1 \in 1 .. Len(d)
        BY <2>2, <1>3, <1>6
      <3>2. d[p + 1] = IF p + 1 > call.start /\ p + 1 <= call.pos THEN Byte(f)
                       ELSE IF p + 1 <= Len(c) THEN c[p + 1] ELSE 0
        BY <1>6, <3>1
      <3>3. (p + 1 > call.start /\ p + 1 <= call.pos) <=> p \in call.start .. call.pos - 1
        BY <1>1
      <3>4. p + 1 <= Len(c) <=> p < Len(c)
        BY <1>2, <1>5
      <3> QED
        BY <1>1, <2>1, <2>2, <3>2, <3>3, <3>4 DEF Expected
    <2>3. CASE ~(p < Len(d))
      <3>1. ~(p < Len(c)) /\ p \notin call.start .. call.pos - 1
        BY <1>1, <1>2, <1>3, <1>5, <1>6, <1>7, <2>3
      <3> QED
        BY <2>1, <2>3, <3>1 DEF Expected
    <2> QED
      BY <2>2, <2>3
  <1>9. ~Shrinking(call) /\ ~Shrinking(Idle)
    BY <1>1 DEF Shrinking, Idle
  <1>10. ASSUME NEW i \in Indices PROVE BlockContents(t, f, Idle, d, i)
    <2>1. BlockContents(s, f, call, c, i)
      BY DEF DataOK
    <2>2. \A o \in 0 .. BLKSIZE - 1 : i * BLKSIZE + o \in Nat
      BY IndexPlace, Monotone, SfsFileAssumption
    <2>3. \A o \in 0 .. BLKSIZE - 1 : Expected(f, Idle, d, i * BLKSIZE + o)
                                        = Expected(f, call, c, i * BLKSIZE + o)
      BY <1>8, <2>2
    <2> QED
      BY <1>4, <1>9, <2>1, <2>3 DEF BlockContents
  <1>11. DataOK(t, f, Idle, d)
    BY <1>1, <1>4, <1>6, <1>10 DEF DataOK
  <1> QED
    BY <1>4, <1>11

---------------------------------------------------------------------------
(* The actions keep the invariant.                                         *)

LEMMA SameTrans ==
    ASSUME NEW s, NEW t, NEW u, NEW g, Same(s, t, g), Same(t, u, g)
    PROVE  Same(s, u, g)
  BY DEF Same

LEMMA SameSelf == \A s, g : Same(s, s, g)
  BY DEF Same

(* What is known when a step begins. *)
LEMMA Before ==
    ASSUME Inv, NEW f \in Files
    PROVE  /\ FsOK(Fs) /\ op[f] \in Calls /\ contents[f] \in Seq(Nat)
           /\ FileOK(Fs, f, op[f], contents[f])
           /\ f \notin strained => Sized(Fs, f, op[f])
           /\ Fs.din = din
  BY DEF Inv, FilesOK, Fs

(* What a write in progress knows. *)
LEMMA WriteCall ==
    ASSUME NEW call, NEW size, CallOK(call, size), call.call = "write"
    PROVE  /\ call \in Calls /\ call.start \in Nat /\ call.pos \in Nat /\ call.end \in Nat
           /\ call.start <= call.pos /\ call.pos < call.end /\ call.end <= MaxSize
  BY DEF CallOK, Idle, Calls

LEMMA TruncateCall ==
    ASSUME NEW call, NEW size, CallOK(call, size), call.call = "truncate"
    PROVE  /\ call \in Calls /\ call.end \in Nat /\ call.end <= MaxSize
           /\ call.end = 0 \/ call.end > size
  BY SfsFileAssumption DEF CallOK, Idle, Calls

(* A call begins or ends and the data stay. *)
LEMMA NewCall ==
    ASSUME NEW s, NEW f, NEW call, NEW c, DataOK(s, f, call, c),
           NEW call2, Shrinking(call) => Shrinking(call2),
           \A p \in Nat : Expected(f, call2, c, p) = Expected(f, call, c, p)
    PROVE  DataOK(s, f, call2, c)
  <1>1. ASSUME NEW i \in Indices PROVE BlockContents(s, f, call2, c, i)
    <2>1. BlockContents(s, f, call, c, i)
      BY DEF DataOK
    <2>2. \A o \in 0 .. BLKSIZE - 1 : i * BLKSIZE + o \in Nat
      BY IndexPlace, Monotone, BlockSize
    <2> QED
      BY <2>1, <2>2 DEF BlockContents
  <1> QED
    BY <1>1 DEF DataOK

(* A step that leaves the file system alone. *)
LEMMA CallStep ==
    ASSUME Inv, NEW f \in Files, UNCHANGED <<din, bytes, ents, freemap, unused_blocks, contents>>,
           NEW call \in Calls, op' = [op EXCEPT ![f] = call],
           \A g \in Files \ {f} : g \in strained => g \in strained',
           FileOK(Fs, f, call, contents[f]), f \notin strained' => Sized(Fs, f, call)
    PROVE  Inv'
  <1>1. PICK s : s = Fs
    OBVIOUS
  <1>2. PICK c : c = contents[f]
    OBVIOUS
  <1>3. FsOK(s) /\ c \in Seq(Nat)
    BY <1>1, <1>2, Before
  <1>4. SetFs(s)
    BY <1>1 DEF SetFs, Fs
  <1>5. contents' = [contents EXCEPT ![f] = c]
    BY <1>2 DEF Inv
  <1>6. \A g \in Files \ {f} : Same(Fs, s, g)
    BY <1>1, SameSelf
  <1>7. FileOK(s, f, call, c) /\ (f \notin strained' => Sized(s, f, call))
    BY <1>1, <1>2
  <1> QED
    BY <1>3, <1>4, <1>5, <1>6, <1>7, FileStep

LEMMA InvStutter ==
    ASSUME Inv, UNCHANGED <<din, bytes, ents, freemap, unused_blocks, op, contents, strained>>
    PROVE  Inv'
  BY DEF Inv, Fs, FilesOK

LEMMA WriteKeeps ==
    ASSUME Inv, NEW f \in Files, NEW pos \in 0 .. MaxSize - 1, NEW len \in Lens, sfs_write(f, pos, len)
    PROVE  Inv'
  <1>1. PICK s : s = Fs
    OBVIOUS
  <1>2. PICK c : c = contents[f]
    OBVIOUS
  <1>3. op[f] = Idle
    BY DEF sfs_write
  <1>4. DataOK(s, f, Idle, c) /\ (f \notin strained => Sized(s, f, Idle))
    BY <1>1, <1>2, <1>3, Before DEF FileOK
  <1>5. PICK end : end = Min({pos + len, MaxSize})
    OBVIOUS
  <1>6. len \in Nat \ {0} /\ pos + len \in Nat /\ MaxSize \in Nat /\ pos \in Nat /\ pos < MaxSize
    BY SfsFileAssumption
  <1>7. end \in Nat /\ pos < end /\ end <= MaxSize
    BY <1>5, <1>6, MinOfTwo
  <1>8. PICK call : call = [call |-> "write", start |-> pos, pos |-> pos, end |-> end]
    OBVIOUS
  <1>9. /\ call \in Calls /\ call.call = "write" /\ call.start = pos /\ call.pos = pos /\ call.end = end
    BY <1>6, <1>7, <1>8 DEF Calls
  <1>10. CallOK(call, s.din[f].size)
    BY <1>6, <1>7, <1>9 DEF CallOK
  <1>11. DataOK(s, f, call, c)
    <2>1. ~Shrinking(Idle)
      BY DEF Shrinking, Idle
    <2>2. \A p \in Nat : Expected(f, call, c, p) = Expected(f, Idle, c, p)
      BY <1>6, <1>9 DEF Expected, Idle
    <2> QED
      BY <1>4, <2>1, <2>2, NewCall
  <1>12. f \notin strained => Sized(s, f, call)
    BY <1>4, <1>9 DEF Sized, Reached, Idle
  <1>13. op' = [op EXCEPT ![f] = call]
    BY <1>5, <1>8 DEF sfs_write
  <1>14. UNCHANGED <<din, bytes, ents, freemap, unused_blocks, contents>> /\ strained' = strained
    BY DEF sfs_write
  <1>15. FileOK(Fs, f, call, contents[f]) /\ (f \notin strained' => Sized(Fs, f, call))
    BY <1>1, <1>2, <1>10, <1>11, <1>12, <1>14 DEF FileOK
  <1> QED
    BY <1>9, <1>13, <1>14, <1>15, CallStep

(* One round of a write, from s to t: the data up to next are in their
   block. *)
Round(s, t, f, call, next, c) ==
    /\ FsOK(t) /\ \A g \in Files \ {f} : Same(s, t, g)
    /\ t.din[f].size = s.din[f].size
    /\ DataOK(t, f, [call EXCEPT !.pos = next], c)
    /\ next \in Nat /\ call.start < next /\ next <= call.end
    /\ next <= (t.din[f].blocks + 1) * BLKSIZE
    /\ Sized(s, f, call) => t.din[f].blocks = ROUNDUP_DIV(Max({s.din[f].size, next}), BLKSIZE)

(* The block of the data and where they end. *)
Part(call, index, next) ==
    index = call.pos \div BLKSIZE /\ next = Min({call.end, (index + 1) * BLKSIZE})

LEMMA PartOK ==
    ASSUME NEW call, NEW size, CallOK(call, size), call.call = "write",
           NEW index, NEW next, Part(call, index, next)
    PROVE  /\ index \in Nat /\ next \in Nat /\ Writes(index, call, next)
           /\ call.start < next /\ call.pos < next /\ next <= call.end
           /\ index * BLKSIZE < next /\ next <= (index + 1) * BLKSIZE
  <1>1. /\ call.start \in Nat /\ call.pos \in Nat /\ call.end \in Nat
        /\ call.start <= call.pos /\ call.pos < call.end /\ call.end <= MaxSize
    BY WriteCall
  <1>2. PICK pos \in Nat : pos = call.pos
    BY <1>1
  <1>3. PICK end \in Nat : end = call.end
    BY <1>1
  <1>4. PICK r \in 0 .. BLKSIZE - 1 : index \in Nat /\ pos = index * BLKSIZE + r
    BY <1>2, BlockSize, DivMod DEF Part
  <1>5. PICK low \in Nat : low = index * BLKSIZE
    BY <1>4, BlockSize, Monotone
  <1>6. PICK high1 \in Nat : high1 = (index + 1) * BLKSIZE /\ high1 = low + BLKSIZE
    BY <1>4, <1>5, BlockSize
  <1>7. low <= pos /\ pos < high1
    BY <1>4, <1>5, <1>6, BlockSize
  <1>8. next = Min({end, high1})
    BY <1>3, <1>6 DEF Part
  <1>9. next \in Nat /\ pos < next /\ next <= end /\ next <= high1
    BY <1>1, <1>2, <1>3, <1>7, <1>8, MinOfTwo
  <1>10. low < next /\ call.start < next
    BY <1>1, <1>2, <1>7, <1>9
  <1> QED
    BY <1>1, <1>2, <1>3, <1>4, <1>5, <1>6, <1>7, <1>9, <1>10 DEF Writes

LEMMA RoundOK ==
    ASSUME NEW s, FsOK(s), NEW f \in Files, NEW call \in Calls, NEW c, FileOK(s, f, call, c),
           call.call = "write", NEW index, NEW next, Part(call, index, next),
           index <= s.din[f].blocks, Fits(s, f, index),
           NEW t, t = sfs_bmap_load(s, f, index), NEW b, b = BlockOf(t, f, index),
           NEW u, u = SetBytes(t, b, Patched(f, t.bytes[b], index, call.pos, next))
    PROVE  Round(s, u, f, call, next, c)
  <1>1. /\ index \in Nat /\ next \in Nat /\ Writes(index, call, next)
        /\ call.start < next /\ call.pos < next /\ next <= call.end
        /\ index * BLKSIZE < next /\ next <= (index + 1) * BLKSIZE
    BY PartOK DEF FileOK
  <1>2. call.start \in Nat /\ call.pos \in Nat
    BY DEF Calls
  <1>4. PICK n : n = s.din[f].blocks
    OBVIOUS
  <1>5. PICK size : size = s.din[f].size
    OBVIOUS
  <1>6. n \in Nat /\ size \in Nat /\ index <= n
    BY <1>4, <1>5, RoomInMap, IndexPlace, InodeType DEF FsOK, Inode
  <1>7. /\ FsOK(t) /\ index \in Indices /\ b # 0
        /\ t.din[f].size = size
        /\ t.din[f].blocks = IF index = n THEN index + 1 ELSE n
        /\ \A g \in Files \ {f} : Same(s, t, g)
        /\ DataOK(s, f, call, c) /\ ~Shrinking(call) => DataOK(t, f, call, c)
    BY <1>1, <1>4, <1>5, LoadOK
  <1>8. DataOK(t, f, call, c)
    BY <1>7 DEF FileOK, Shrinking
  <1>10. /\ FsOK(u) /\ u.din = t.din
         /\ \A g \in Files \ {f} : Same(t, u, g)
         /\ DataOK(u, f, [call EXCEPT !.pos = next], c)
    BY <1>1, <1>7, <1>8, WriteOK
  <1>11. \A g \in Files \ {f} : Same(s, u, g)
    BY <1>7, <1>10, SameTrans
  <1>12. PICK m : m = u.din[f].blocks
    OBVIOUS
  <1>13. m \in Nat /\ index + 1 <= m + 1 /\ m = IF index = n THEN index + 1 ELSE n
    BY <1>1, <1>6, <1>7, <1>10, <1>12
  <1>14. next <= (m + 1) * BLKSIZE
    <2>1. (index + 1) * BLKSIZE <= (m + 1) * BLKSIZE /\ (index + 1) * BLKSIZE \in Nat
          /\ (m + 1) * BLKSIZE \in Nat
      BY <1>1, <1>13, BlockSize, Monotone
    <2> QED
      BY <1>1, <2>1
  <1>15. ASSUME Sized(s, f, call)
         PROVE  m = ROUNDUP_DIV(Max({size, next}), BLKSIZE)
    <2>1. PICK reached : reached = Reached(call, size)
      OBVIOUS
    <2>2. n = ROUNDUP_DIV(reached, BLKSIZE)
      BY <1>4, <1>5, <1>15, <2>1 DEF Sized
    <2>3. reached \in Nat /\ size <= reached /\ reached <= Max({size, next})
      <3>1. Max({size, next}) = IF size <= next THEN next ELSE size
        BY <1>1, <1>6, MaxOfTwo
      <3>2. Max({size, call.pos}) = IF size <= call.pos THEN call.pos ELSE size
        BY <1>2, <1>6, MaxOfTwo
      <3> QED
        BY <1>1, <1>2, <1>6, <2>1, <3>1, <3>2 DEF Reached
    <2>4. ROUNDUP_DIV(Max({size, next}), BLKSIZE) = IF index = n THEN index + 1 ELSE n
      <3>1. Sizes(BLKSIZE, n, index, size, reached, next)
        BY <1>1, <1>6, <2>2, <2>3 DEF Sizes
      <3> QED
        BY <1>1, <1>6, <2>3, <3>1, BlockSize, BlocksOfWrite
    <2> QED
      BY <1>13, <2>4
  <1> QED
    BY <1>1, <1>5, <1>7, <1>10, <1>11, <1>12, <1>14, <1>15 DEF Round

LEMMA WriteBlockKeeps ==
    ASSUME Inv, NEW f \in Files, sfs_write_block(f)
    PROVE  Inv'
  <1>1. PICK s : s = Fs
    OBVIOUS
  <1>2. PICK c : c = contents[f]
    OBVIOUS
  <1>3. PICK call : call = op[f]
    OBVIOUS
  <1>4. /\ FsOK(s) /\ call \in Calls /\ c \in Seq(Nat) /\ FileOK(s, f, call, c)
        /\ (f \notin strained => Sized(s, f, call)) /\ s.din = din
    BY <1>1, <1>2, <1>3, Before
  <1>5. PICK index : index = call.pos \div BLKSIZE
    OBVIOUS
  <1>6. PICK next : next = Min({call.end, (index + 1) * BLKSIZE})
    OBVIOUS
  <1>7. PICK t : t = sfs_bmap_load(s, f, index)
    OBVIOUS
  <1>8. PICK b : b = BlockOf(t, f, index)
    OBVIOUS
  <1>9. PICK u : u = SetBytes(t, b, Patched(f, t.bytes[b], index, call.pos, next))
    BY SMTT(30)
  <1>10. /\ call.call = "write" /\ index <= s.din[f].blocks /\ Fits(s, f, index)
         /\ IF next = call.end
            THEN /\ SetFs(SetSize(u, f, SizeAfter(f, next)))
                 /\ op' = [op EXCEPT ![f] = Idle]
                 /\ Record(f, Overwrite(c, f, call.start, next - call.start))
            ELSE /\ SetFs(u)
                 /\ op' = [op EXCEPT ![f].pos = next]
                 /\ UNCHANGED <<contents, high>>
         /\ strained' = strained
    BY <1>1, <1>2, <1>3, <1>4, <1>5, <1>6, <1>7, <1>8, <1>9 DEF sfs_write_block
  <1>11. Part(call, index, next)
    BY <1>5, <1>6 DEF Part
  <1>12. Round(s, u, f, call, next, c)
    BY <1>4, <1>7, <1>8, <1>9, <1>10, <1>11, RoundOK
  <1>13. /\ call.start \in Nat /\ call.pos \in Nat /\ call.end \in Nat
         /\ call.start <= call.pos /\ call.pos < call.end /\ call.end <= MaxSize
    BY <1>4, <1>10, WriteCall DEF FileOK
  <1>14. PICK call2 : call2 = [call EXCEPT !.pos = next]
    OBVIOUS
  <1>15. /\ FsOK(u) /\ (\A g \in Files \ {f} : Same(s, u, g))
         /\ u.din[f].size = s.din[f].size /\ DataOK(u, f, call2, c)
         /\ next \in Nat /\ call.start < next /\ next <= call.end
         /\ next <= (u.din[f].blocks + 1) * BLKSIZE
         /\ Sized(s, f, call) => u.din[f].blocks = ROUNDUP_DIV(Max({s.din[f].size, next}), BLKSIZE)
    BY <1>12, <1>14 DEF Round
  <1>16. /\ call2 \in Calls /\ call2.call = "write" /\ call2.pos = next
         /\ call2.start = call.start /\ call2.end = call.end
    BY <1>4, <1>10, <1>14, <1>15 DEF Calls
  <1>17. \A g \in Files \ {f} : g \in strained => g \in strained'
    BY <1>10
  <1>18. CASE next = call.end
    <2>1. PICK size : size = Max({s.din[f].size, next})
      OBVIOUS
    <2>2. s.din[f].size \in Nat /\ s.din[f].size <= MaxSize
      BY <1>4, InodeType DEF FsOK, Inode, FileOK, DataOK
    <2>3. size \in Nat /\ size \in {s.din[f].size, next}
      BY <1>15, <2>1, <2>2, MaxOfTwo
    <2>4. ~Shrinking(call2)
      BY <1>16 DEF Shrinking
    <2>5. u.din[f].size <= (u.din[f].blocks + 1) * BLKSIZE
      BY <1>15, <2>4 DEF DataOK
    <2>6. size <= (u.din[f].blocks + 1) * BLKSIZE
      BY <1>15, <2>3, <2>5
    <2>7. size <= MaxSize
      BY <1>13, <1>15, <2>2, <2>3, SfsFileAssumption
    <2>8. Finishes(u, f, call2, size)
      <3>1. call2.start <= call2.pos
        BY <1>13, <1>15, <1>16
      <3>2. size = Max({u.din[f].size, call2.pos})
        BY <1>15, <1>16, <2>1
      <3> QED
        BY <1>16, <2>6, <2>7, <3>1, <3>2 DEF Finishes
    <2>9. PICK v : v = SetSize(u, f, size)
      OBVIOUS
    <2>10. PICK d : d = Overwrite(c, f, call2.start, call2.pos - call2.start)
      OBVIOUS
    <2>11. /\ FsOK(v) /\ DataOK(v, f, Idle, d)
           /\ v.din[f].size = size /\ v.din[f].blocks = u.din[f].blocks
           /\ \A g \in Files \ {f} : Same(u, v, g)
      BY <1>15, <1>16, <2>8, <2>9, <2>10, FinishOK
    <2>12. \A g \in Files \ {f} : Same(Fs, v, g)
      BY <1>1, <1>15, <2>11, SameTrans
    <2>13. SetFs(v)
      BY <1>4, <1>10, <1>18, <2>1, <2>9 DEF SizeAfter
    <2>14. op' = [op EXCEPT ![f] = Idle] /\ contents' = [contents EXCEPT ![f] = d]
      BY <1>10, <1>16, <1>18, <2>10 DEF Record
    <2>15. Idle \in Calls
      BY DEF Idle, Calls
    <2>16. FileOK(v, f, Idle, d) /\ d \in Seq(Nat)
      BY <2>11 DEF FileOK, CallOK, DataOK
    <2>17. f \notin strained' => Sized(v, f, Idle)
      <3>1. f \notin strained' => v.din[f].blocks = ROUNDUP_DIV(v.din[f].size, BLKSIZE)
        BY <1>4, <1>10, <1>15, <2>1, <2>11
      <3> QED
        BY <3>1 DEF Sized, Reached, Idle
    <2> QED
      BY <1>17, <2>11, <2>12, <2>13, <2>14, <2>15, <2>16, <2>17, FileStep
  <1>19. CASE next # call.end
    <2>1. op' = [op EXCEPT ![f] = call2]
      BY <1>3, <1>10, <1>14, <1>19
    <2>2. contents' = [contents EXCEPT ![f] = c]
      BY <1>2, <1>10, <1>19 DEF Inv
    <2>3. SetFs(u)
      BY <1>10, <1>19
    <2>4. CallOK(call2, u.din[f].size)
      <3>1. call2.start <= call2.pos /\ call2.pos < call2.end /\ call2.end <= MaxSize
        BY <1>13, <1>15, <1>16, <1>19
      <3> QED
        BY <1>16, <3>1 DEF CallOK
    <2>5. FileOK(u, f, call2, c)
      BY <1>15, <2>4 DEF FileOK
    <2>6. f \notin strained' => Sized(u, f, call2)
      <3>1. Reached(call2, u.din[f].size) = Max({s.din[f].size, next})
        BY <1>13, <1>15, <1>16 DEF Reached
      <3> QED
        BY <1>4, <1>10, <1>15, <3>1 DEF Sized
    <2>7. \A g \in Files \ {f} : Same(Fs, u, g)
      BY <1>1, <1>15
    <2> QED
      BY <1>4, <1>15, <1>16, <1>17, <2>1, <2>2, <2>3, <2>5, <2>6, <2>7, FileStep
  <1> QED
    BY <1>18, <1>19

LEMMA WriteFullKeeps ==
    ASSUME Inv, NEW f \in Files, sfs_write_full(f)
    PROVE  Inv'
  <1>1. PICK s : s = Fs
    OBVIOUS
  <1>2. PICK c : c = contents[f]
    OBVIOUS
  <1>3. PICK call : call = op[f]
    OBVIOUS
  <1>4. /\ FsOK(s) /\ call \in Calls /\ c \in Seq(Nat) /\ FileOK(s, f, call, c)
        /\ (f \notin strained => Sized(s, f, call)) /\ s.din = din
    BY <1>1, <1>2, <1>3, Before
  <1>5. PICK index : index = call.pos \div BLKSIZE
    OBVIOUS
  <1>6. PICK size : size = Max({s.din[f].size, call.pos})
    OBVIOUS
  <1>7. PICK v : v = SetSize(s, f, size)
    OBVIOUS
  <1>8. PICK d : d = Overwrite(c, f, call.start, call.pos - call.start)
    OBVIOUS
  <1>9. /\ call.call = "write" /\ index <= s.din[f].blocks
        /\ SetFs(v) /\ op' = [op EXCEPT ![f] = Idle] /\ contents' = [contents EXCEPT ![f] = d]
        /\ strained' = IF call.pos = call.start /\ call.pos > s.din[f].size THEN strained \cup {f} ELSE strained
    BY <1>1, <1>2, <1>3, <1>4, <1>5, <1>6, <1>7, <1>8 DEF sfs_write_full, SizeAfter, Record
  <1>10. /\ call.start \in Nat /\ call.pos \in Nat /\ call.end \in Nat
         /\ call.start <= call.pos /\ call.pos < call.end /\ call.end <= MaxSize
    BY <1>4, <1>9, WriteCall DEF FileOK
  <1>11. /\ s.din[f].size \in Nat /\ s.din[f].size <= MaxSize /\ s.din[f].blocks \in Nat
         /\ s.din[f].size <= (s.din[f].blocks + 1) * BLKSIZE
    <2>1. ~Shrinking(call)
      BY <1>9 DEF Shrinking
    <2> QED
      BY <1>4, <2>1, InodeType DEF FsOK, Inode, FileOK, DataOK
  <1>12. call.pos <= (s.din[f].blocks + 1) * BLKSIZE
    <2>1. PICK n \in Nat : n = s.din[f].blocks
      BY <1>11
    <2>2. PICK pos \in Nat : pos = call.pos
      BY <1>10
    <2>3. PICK r \in 0 .. BLKSIZE - 1 : index \in Nat /\ pos = index * BLKSIZE + r
      BY <1>5, <2>2, BlockSize, DivMod
    <2>4. index * BLKSIZE + BLKSIZE <= (n + 1) * BLKSIZE
      <3>1. index <= n
        BY <1>9, <2>1, Zenon
      <3>2. index \in Nat /\ n + 1 \in Nat /\ index + 1 <= n + 1
        BY <2>1, <2>3, <3>1
      <3> QED
        BY <3>2, BlockSize, NextMultiple
    <2>5. index * BLKSIZE \in Nat /\ (n + 1) * BLKSIZE \in Nat
      BY <2>3, BlockSize, Monotone
    <2>6. PICK x \in Nat : x = index * BLKSIZE
      BY <2>5
    <2>7. PICK y \in Nat : y = (n + 1) * BLKSIZE
      BY <2>5
    <2>8. pos = x + r /\ x + BLKSIZE <= y
      BY <2>3, <2>4, <2>6, <2>7, Zenon
    <2>9. pos <= y
      BY <2>3, <2>8, BlockSize
    <2> QED
      BY <2>1, <2>2, <2>7, <2>9, Zenon
  <1>13. size \in Nat /\ size = IF s.din[f].size <= call.pos THEN call.pos ELSE s.din[f].size
    BY <1>6, <1>10, <1>11, MaxOfTwo
  <1>14. Finishes(s, f, call, size)
    <2>1. size <= MaxSize
      BY <1>10, <1>11, <1>13, SfsFileAssumption
    <2> QED
      BY <1>6, <1>9, <1>10, <1>11, <1>12, <1>13, <2>1 DEF Finishes
  <1>15. DataOK(s, f, call, c)
    BY <1>4 DEF FileOK
  <1>16. /\ FsOK(v) /\ DataOK(v, f, Idle, d)
         /\ v.din[f].size = size /\ v.din[f].blocks = s.din[f].blocks
         /\ \A g \in Files \ {f} : Same(s, v, g)
    BY <1>4, <1>7, <1>8, <1>14, <1>15, FinishOK
  <1>17. \A g \in Files \ {f} : Same(Fs, v, g)
    BY <1>1, <1>16
  <1>18. Idle \in Calls
    BY DEF Idle, Calls
  <1>19. FileOK(v, f, Idle, d) /\ d \in Seq(Nat)
    BY <1>16 DEF FileOK, CallOK, DataOK
  <1>20. f \notin strained' => Sized(v, f, Idle)
    <2> SUFFICES ASSUME f \notin strained' PROVE Sized(v, f, Idle)
      OBVIOUS
    <2>1. f \notin strained /\ ~(call.pos = call.start /\ call.pos > s.din[f].size)
      BY <1>9
    <2>2. Reached(call, s.din[f].size) = size
      <3>1. CASE call.pos # call.start
        BY <1>6, <1>9, <3>1 DEF Reached
      <3>2. CASE call.pos = call.start
        <4>1. Reached(call, s.din[f].size) = s.din[f].size
          BY <3>2 DEF Reached
        <4>2. call.pos <= s.din[f].size
          BY <1>10, <1>11, <2>1, <3>2
        <4> QED
          BY <1>10, <1>11, <1>13, <4>1, <4>2
      <3> QED
        BY <3>1, <3>2
    <2>3. v.din[f].blocks = ROUNDUP_DIV(v.din[f].size, BLKSIZE)
      BY <1>4, <1>9, <1>16, <2>1, <2>2 DEF Sized
    <2> QED
      BY <2>3 DEF Sized, Reached, Idle
  <1>21. \A g \in Files \ {f} : g \in strained => g \in strained'
    BY <1>9
  <1> QED
    BY <1>9, <1>16, <1>17, <1>18, <1>19, <1>20, <1>21, FileStep

LEMMA ReadKeeps ==
    ASSUME Inv, NEW f \in Files, sfs_read(f)
    PROVE  Inv'
  <1>1. PICK s : s = Fs
    OBVIOUS
  <1>2. PICK c : c = contents[f]
    OBVIOUS
  <1>3. PICK n : n = s.din[f].blocks
    OBVIOUS
  <1>4. PICK t : t = sfs_bmap_load(s, f, n)
    OBVIOUS
  <1>5. /\ op[f] = Idle /\ n * BLKSIZE < s.din[f].size /\ Fits(s, f, n) /\ SetFs(t)
        /\ op' = op /\ contents' = contents /\ strained' = strained
    BY <1>1, <1>3, <1>4, Before DEF sfs_read
  <1>6. FsOK(s) /\ c \in Seq(Nat) /\ DataOK(s, f, Idle, c) /\ (f \notin strained => Sized(s, f, Idle))
    BY <1>1, <1>2, <1>5, Before DEF FileOK
  <1>7. n \in Nat /\ s.din[f].size \in Nat
    BY <1>3, <1>6, InodeType DEF FsOK, Inode
  <1>8. f \in strained
    <2>1. CASE f \notin strained
      <3>1. n = ROUNDUP_DIV(s.din[f].size, BLKSIZE)
        BY <1>3, <1>6, <2>1 DEF Sized, Reached, Idle
      <3>2. s.din[f].size <= n * BLKSIZE /\ n * BLKSIZE \in Nat
        BY <1>7, <3>1, BlockSize, RoundUp, Monotone
      <3> QED
        BY <1>5, <1>7, <3>2
    <2> QED
      BY <2>1
  <1>9. ~Shrinking(Idle) /\ Idle \in Calls
    BY DEF Shrinking, Idle, Calls
  <1>10. /\ FsOK(t) /\ t.din[f].size = s.din[f].size
         /\ \A g \in Files \ {f} : Same(s, t, g)
         /\ DataOK(s, f, Idle, c) /\ ~Shrinking(Idle) => DataOK(t, f, Idle, c)
    BY <1>3, <1>4, <1>5, <1>6, <1>7, LoadOK
  <1>11. FileOK(t, f, Idle, c)
    BY <1>6, <1>9, <1>10 DEF FileOK, CallOK
  <1>12. op' = [op EXCEPT ![f] = Idle] /\ contents' = [contents EXCEPT ![f] = c]
    BY <1>2, <1>5 DEF Inv
  <1>13. \A g \in Files \ {f} : Same(Fs, t, g)
    BY <1>1, <1>10
  <1>14. f \in strained' /\ \A g \in Files \ {f} : g \in strained => g \in strained'
    BY <1>5, <1>8
  <1> QED
    BY <1>5, <1>6, <1>9, <1>10, <1>11, <1>12, <1>13, <1>14, FileStep

LEMMA TruncateKeeps ==
    ASSUME Inv, NEW f \in Files, NEW len \in 0 .. MaxSize, sfs_truncfile(f, len)
    PROVE  Inv'
  <1>1. /\ op[f] = Idle /\ (len = 0 \/ len > din[f].size)
        /\ UNCHANGED <<din, bytes, ents, freemap, unused_blocks, contents, strained>>
    BY DEF sfs_truncfile
  <1>2. CASE UNCHANGED op
    BY <1>1, <1>2, InvStutter
  <1>3. CASE op' = [op EXCEPT ![f] = [call |-> "truncate", start |-> 0, pos |-> 0, end |-> len]]
    <2>1. PICK s : s = Fs
      OBVIOUS
    <2>2. PICK c : c = contents[f]
      OBVIOUS
    <2>3. DataOK(s, f, Idle, c) /\ s.din = din
      BY <1>1, <2>1, <2>2, Before DEF FileOK
    <2>4. PICK call : call = [call |-> "truncate", start |-> 0, pos |-> 0, end |-> len]
      OBVIOUS
    <2>5. call \in Calls /\ call.call = "truncate" /\ call.end = len
      BY <2>4 DEF Calls
    <2>6. CallOK(call, s.din[f].size)
      BY <1>1, <2>3, <2>5, SfsFileAssumption DEF CallOK
    <2>7. DataOK(s, f, call, c)
      <3>1. ~Shrinking(Idle)
        BY DEF Shrinking, Idle
      <3>2. \A p \in Nat : Expected(f, call, c, p) = Expected(f, Idle, c, p)
        BY <2>5 DEF Expected, Idle
      <3> QED
        BY <2>3, <3>1, <3>2, NewCall
    <2>8. FileOK(Fs, f, call, contents[f]) /\ Sized(Fs, f, call)
      BY <2>1, <2>2, <2>5, <2>6, <2>7 DEF FileOK, Sized
    <2>9. op' = [op EXCEPT ![f] = call]
      BY <1>3, <2>4
    <2>10. \A g \in Files \ {f} : g \in strained => g \in strained'
      BY <1>1
    <2> QED
      BY <1>1, <2>5, <2>8, <2>9, <2>10, CallStep
  <1> QED
    BY <1>2, <1>3 DEF sfs_truncfile

(* The loop of sfs_truncfile frees the last block. *)
LEMMA ShrinkOK ==
    ASSUME NEW s, FsOK(s), NEW f \in Files, NEW call \in Calls, NEW c, FileOK(s, f, call, c),
           call.call = "truncate", s.din[f].blocks > ROUNDUP_DIV(call.end, BLKSIZE),
           NEW t, t = sfs_bmap_truncate(s, f)
    PROVE  /\ FsOK(t) /\ FileOK(t, f, call, c)
           /\ \A g \in Files \ {f} : Same(s, t, g)
  <1>1. call.end \in Nat /\ call.end <= MaxSize /\ (call.end = 0 \/ call.end > s.din[f].size)
    BY TruncateCall DEF FileOK
  <1>2. PICK n : n = s.din[f].blocks
    OBVIOUS
  <1>3. PICK k : k = ROUNDUP_DIV(call.end, BLKSIZE)
    OBVIOUS
  <1>4. k \in Nat /\ call.end <= k * BLKSIZE
    BY <1>1, <1>3, BlockSize, RoundUp
  <1>5. n \in Nat /\ n \in Indices /\ k < n /\ s.din[f].size \in Nat
    BY <1>2, <1>3, RoomInMap, IndexPlace, InodeType DEF FsOK, Inode
  <1>6. s.din[f].blocks > 0
    BY <1>2, <1>4, <1>5
  <1>7. /\ FsOK(t) /\ t.bytes = s.bytes
        /\ \A g \in Files : /\ t.din[g].size = s.din[g].size
                            /\ t.din[g].blocks = IF g = f THEN n - 1 ELSE s.din[g].blocks
        /\ \A g \in Files, i \in Indices :
              BlockOf(t, g, i) = IF g = f /\ i = n - 1 THEN 0 ELSE BlockOf(s, g, i)
    BY <1>2, <1>6, TruncateFs
  <1>8. \A g \in Files \ {f} : Same(s, t, g)
    BY <1>7 DEF Same
  <1>9. DataOK(s, f, call, c)
    BY DEF FileOK
  <1>10. n - 1 \in Nat /\ k <= n - 1 /\ k * BLKSIZE <= (n - 1) * BLKSIZE
         /\ (n - 1) * BLKSIZE \in Nat /\ k * BLKSIZE \in Nat
    BY <1>4, <1>5, BlockSize, Monotone
  <1>11. ASSUME call.end # 0, NEW o \in 0 .. BLKSIZE - 1
         PROVE  Expected(f, call, c, (n - 1) * BLKSIZE + o) = 0
    <2>1. PICK low \in Nat : low = (n - 1) * BLKSIZE
      BY <1>10
    <2>2. s.din[f].size < low
      BY <1>1, <1>4, <1>5, <1>10, <1>11, <2>1
    <2>3. Len(c) = s.din[f].size
      BY <1>9 DEF DataOK
    <2>4. ~(low + o < Len(c))
      BY <1>5, <2>2, <2>3
    <2> QED
      BY <2>1, <2>4 DEF Expected
  <1>12. ASSUME NEW i \in Indices PROVE BlockContents(t, f, call, c, i)
    <2>1. BlockContents(s, f, call, c, i)
      BY <1>9 DEF DataOK
    <2>2. CASE i = n - 1
      <3>1. BlockOf(t, f, i) = 0
        BY <1>7, <2>2
      <3>2. CASE call.end = 0
        <4>1. Shrinking(call)
          BY <3>2 DEF Shrinking
        <4> QED
          BY <3>1, <4>1 DEF BlockContents
      <3>3. CASE call.end # 0
        BY <1>11, <2>2, <3>1, <3>3 DEF BlockContents
      <3> QED
        BY <3>2, <3>3
    <2>3. CASE i # n - 1
      <3>1. BlockOf(t, f, i) = BlockOf(s, f, i)
        BY <1>7, <2>3
      <3> QED
        BY <1>7, <2>1, <3>1 DEF BlockContents
    <2> QED
      BY <2>2, <2>3
  <1>13. ~Shrinking(call) => t.din[f].size <= (t.din[f].blocks + 1) * BLKSIZE
    <2> SUFFICES ASSUME ~Shrinking(call) PROVE t.din[f].size <= (t.din[f].blocks + 1) * BLKSIZE
      OBVIOUS
    <2>1. call.end > s.din[f].size
      BY <1>1 DEF Shrinking
    <2>2. t.din[f].size = s.din[f].size /\ t.din[f].blocks + 1 = n
      BY <1>5, <1>7
    <2>3. k * BLKSIZE <= n * BLKSIZE /\ n * BLKSIZE \in Nat
      BY <1>4, <1>5, BlockSize, Monotone
    <2>4. s.din[f].size <= n * BLKSIZE
      BY <1>1, <1>4, <1>5, <1>10, <2>1, <2>3
    <2> QED
      BY <2>2, <2>4
  <1>14. t.din[f].size = s.din[f].size
    BY <1>7
  <1>15. DataOK(t, f, call, c)
    BY <1>9, <1>12, <1>13, <1>14 DEF DataOK
  <1> QED
    BY <1>7, <1>8, <1>14, <1>15 DEF FileOK

LEMMA TruncateBlockKeeps ==
    ASSUME Inv, NEW f \in Files, sfs_truncfile_block(f)
    PROVE  Inv'
  <1>1. PICK s : s = Fs
    OBVIOUS
  <1>2. PICK c : c = contents[f]
    OBVIOUS
  <1>3. PICK call : call = op[f]
    OBVIOUS
  <1>4. FsOK(s) /\ call \in Calls /\ c \in Seq(Nat) /\ FileOK(s, f, call, c) /\ s.din = din
    BY <1>1, <1>2, <1>3, Before
  <1>5. /\ call.call = "truncate" /\ op' = op /\ contents' = contents /\ strained' = strained
    BY <1>3 DEF sfs_truncfile_block
  <1>6. \A t : Sized(t, f, call)
    BY <1>5 DEF Sized
  <1>7. op' = [op EXCEPT ![f] = call] /\ contents' = [contents EXCEPT ![f] = c]
    BY <1>2, <1>3, <1>5 DEF Inv
  <1>8. \A g \in Files \ {f} : g \in strained => g \in strained'
    BY <1>5
  <1>9. CASE Grows(f, call.end) /\ Fits(s, f, s.din[f].blocks) /\ SetFs(sfs_bmap_load(s, f, s.din[f].blocks))
    <2>1. PICK n : n = s.din[f].blocks
      OBVIOUS
    <2>2. PICK t : t = sfs_bmap_load(s, f, n)
      OBVIOUS
    <2>3. n \in Nat
      BY <1>4, <2>1, RoomInMap, IndexPlace
    <2>4. /\ FsOK(t) /\ t.din[f].size = s.din[f].size
          /\ \A g \in Files \ {f} : Same(s, t, g)
          /\ DataOK(s, f, call, c) /\ ~Shrinking(call) => DataOK(t, f, call, c)
      BY <1>4, <1>9, <2>1, <2>2, <2>3, LoadOK
    <2>5. ~Shrinking(call)
      <3>1. CASE call.end = 0
        <4>1. ROUNDUP_DIV(0, BLKSIZE) <= 0
          BY BlockSize, RoundUp
        <4>2. ROUNDUP_DIV(0, BLKSIZE) \in Nat
          BY BlockSize, RoundUp
        <4>3. n < ROUNDUP_DIV(0, BLKSIZE)
          BY <1>4, <1>9, <2>1, <3>1 DEF Grows
        <4> QED
          BY <2>3, <4>1, <4>2, <4>3
      <3> QED
        BY <3>1 DEF Shrinking
    <2>6. FileOK(t, f, call, c)
      BY <1>4, <2>4, <2>5 DEF FileOK
    <2>7. SetFs(t) /\ \A g \in Files \ {f} : Same(Fs, t, g)
      BY <1>1, <1>9, <2>1, <2>2, <2>4
    <2> QED
      BY <1>4, <1>6, <1>7, <1>8, <2>4, <2>6, <2>7, FileStep
  <1>10. CASE s.din[f].blocks > ROUNDUP_DIV(call.end, BLKSIZE) /\ SetFs(sfs_bmap_truncate(s, f))
    <2>1. PICK t : t = sfs_bmap_truncate(s, f)
      OBVIOUS
    <2>2. /\ FsOK(t) /\ FileOK(t, f, call, c)
          /\ \A g \in Files \ {f} : Same(s, t, g)
      BY <1>4, <1>5, <1>10, <2>1, ShrinkOK
    <2>3. SetFs(t) /\ \A g \in Files \ {f} : Same(Fs, t, g)
      BY <1>1, <1>10, <2>1, <2>2
    <2> QED
      BY <1>4, <1>6, <1>7, <1>8, <2>2, <2>3, FileStep
  <1>11. \/ Grows(f, call.end) /\ Fits(s, f, s.din[f].blocks) /\ SetFs(sfs_bmap_load(s, f, s.din[f].blocks))
         \/ s.din[f].blocks > ROUNDUP_DIV(call.end, BLKSIZE) /\ SetFs(sfs_bmap_truncate(s, f))
    BY <1>1, <1>3, <1>4 DEF sfs_truncfile_block
  <1> QED
    BY <1>9, <1>10, <1>11

LEMMA TruncateFullKeeps ==
    ASSUME Inv, NEW f \in Files, sfs_truncfile_full(f)
    PROVE  Inv'
  <1>1. PICK s : s = Fs
    OBVIOUS
  <1>2. PICK c : c = contents[f]
    OBVIOUS
  <1>3. PICK call : call = op[f]
    OBVIOUS
  <1>4. FsOK(s) /\ call \in Calls /\ FileOK(s, f, call, c) /\ s.din = din
    BY <1>1, <1>2, <1>3, Before
  <1>5. /\ call.call = "truncate" /\ op' = [op EXCEPT ![f] = Idle] /\ strained' = strained \cup {f}
        /\ s.din[f].blocks < ROUNDUP_DIV(call.end, BLKSIZE)
        /\ UNCHANGED <<din, bytes, ents, freemap, unused_blocks, contents>>
    BY <1>3, <1>4 DEF sfs_truncfile_full, Grows
  <1>6. ~Shrinking(call)
    <2>1. CASE call.end = 0
      <3>1. ROUNDUP_DIV(0, BLKSIZE) <= 0 /\ ROUNDUP_DIV(0, BLKSIZE) \in Nat
        BY BlockSize, RoundUp
      <3>2. s.din[f].blocks \in Nat
        BY <1>4, RoomInMap, IndexPlace
      <3> QED
        BY <1>5, <2>1, <3>1, <3>2
    <2> QED
      BY <2>1 DEF Shrinking
  <1>7. \A p \in Nat : Expected(f, Idle, c, p) = Expected(f, call, c, p)
    BY <1>5 DEF Expected, Idle
  <1>8. DataOK(s, f, Idle, c)
    BY <1>4, <1>6, <1>7, NewCall DEF FileOK
  <1>9. FileOK(Fs, f, Idle, contents[f])
    BY <1>1, <1>2, <1>8 DEF FileOK, CallOK
  <1>10. Idle \in Calls
    BY DEF Idle, Calls
  <1>11. f \in strained' /\ \A g \in Files \ {f} : g \in strained => g \in strained'
    BY <1>5
  <1> QED
    BY <1>5, <1>9, <1>10, <1>11, CallStep

(* What is to be found in a file that no call is at work on. *)
LEMMA IdleExpects ==
    \A f, d, p : Expected(f, Idle, d, p) = IF p < Len(d) THEN d[p + 1] ELSE 0
  BY DEF Expected, Idle

(* A file has got the length it was to have. *)
LEMMA TruncatedOK ==
    ASSUME NEW s, FsOK(s), NEW f \in Files, NEW call \in Calls, NEW c, FileOK(s, f, call, c),
           call.call = "truncate", NEW len, len = call.end,
           s.din[f].blocks = ROUNDUP_DIV(len, BLKSIZE),
           NEW t, t = SetSize(s, f, len),
           NEW d, d = [i \in 1 .. len |-> IF i <= Len(c) THEN c[i] ELSE 0]
    PROVE  /\ FsOK(t) /\ FileOK(t, f, Idle, d) /\ Sized(t, f, Idle)
           /\ \A g \in Files \ {f} : Same(s, t, g)
  <1>1. len \in Nat /\ len <= MaxSize /\ (len = 0 \/ len > s.din[f].size)
    BY TruncateCall DEF FileOK
  <1>2. /\ FsOK(t) /\ t.bytes = s.bytes
        /\ t.din[f].size = len /\ t.din[f].blocks = s.din[f].blocks
        /\ \A i \in Indices : BlockOf(t, f, i) = BlockOf(s, f, i)
        /\ \A g \in Files \ {f} : Same(s, t, g)
    BY <1>1, SizeSet
  <1>3. DataOK(s, f, call, c)
    BY DEF FileOK
  <1>4. c \in Seq(Nat) /\ Len(c) = s.din[f].size /\ Len(c) \in Nat
    BY <1>3 DEF DataOK
  <1>5. d \in Seq(Nat) /\ Len(d) = len
    <2>1. d \in [1 .. len -> Nat]
      BY <1>4
    <2> QED
      BY <1>1, <2>1, SeqOfFunction
  <1>6. ASSUME NEW p \in Nat PROVE Expected(f, Idle, d, p) = IF len = 0 THEN 0 ELSE Expected(f, call, c, p)
    <2>1. Expected(f, Idle, d, p) = IF p < len THEN d[p + 1] ELSE 0
      BY <1>5, IdleExpects
    <2>2. Expected(f, call, c, p) = IF p < Len(c) THEN c[p + 1] ELSE 0
      BY DEF Expected
    <2>3. CASE p < len
      <3>1. p + 1 \in 1 .. len /\ len # 0 /\ (p + 1 <= Len(c) <=> p < Len(c))
        BY <1>1, <1>4, <2>3
      <3>2. d[p + 1] = IF p + 1 <= Len(c) THEN c[p + 1] ELSE 0
        BY <3>1
      <3> QED
        BY <2>1, <2>2, <2>3, <3>1, <3>2
    <2>4. CASE ~(p < len)
      BY <1>1, <1>4, <2>1, <2>2, <2>4
    <2> QED
      BY <2>3, <2>4
  <1>7. ASSUME NEW i \in Indices PROVE BlockContents(t, f, Idle, d, i)
    <2>1. BlockContents(s, f, call, c, i)
      BY <1>3 DEF DataOK
    <2>2. \A o \in 0 .. BLKSIZE - 1 : i * BLKSIZE + o \in Nat
      BY IndexPlace, Monotone, BlockSize
    <2>3. CASE len = 0
      <3>1. ROUNDUP_DIV(0, BLKSIZE) <= 0 /\ ROUNDUP_DIV(0, BLKSIZE) \in Nat
        BY BlockSize, RoundUp
      <3>2. s.din[f].blocks = 0 /\ i \in Nat
        BY <2>3, <3>1, IndexPlace
      <3>3. BlockOf(t, f, i) = 0
        BY <1>2, <3>2 DEF FsOK, MapOK
      <3> QED
        BY <1>6, <2>2, <2>3, <3>3 DEF BlockContents
    <2>4. CASE len # 0
      <3>1. ~Shrinking(call)
        BY <2>4 DEF Shrinking
      <3>2. \A o \in 0 .. BLKSIZE - 1 : Expected(f, Idle, d, i * BLKSIZE + o)
                                          = Expected(f, call, c, i * BLKSIZE + o)
        BY <1>6, <2>2, <2>4
      <3> QED
        BY <1>2, <2>1, <3>1, <3>2 DEF BlockContents
    <2> QED
      BY <2>3, <2>4
  <1>8. len <= (s.din[f].blocks + 1) * BLKSIZE
    <2>1. PICK k : k = s.din[f].blocks
      OBVIOUS
    <2>2. k \in Nat /\ len <= k * BLKSIZE
      BY <1>1, <2>1, BlockSize, RoundUp
    <2>3. k * BLKSIZE <= (k + 1) * BLKSIZE /\ k * BLKSIZE \in Nat /\ (k + 1) * BLKSIZE \in Nat
      BY <2>2, BlockSize, Monotone
    <2>4. len <= (k + 1) * BLKSIZE
      BY <1>1, <2>2, <2>3
    <2> QED
      BY <2>1, <2>4
  <1>9. DataOK(t, f, Idle, d)
    BY <1>1, <1>2, <1>5, <1>7, <1>8 DEF DataOK
  <1>10. Sized(t, f, Idle)
    BY <1>2 DEF Sized, Reached, Idle
  <1> QED
    BY <1>2, <1>9, <1>10 DEF FileOK, CallOK

LEMMA TruncateEndKeeps ==
    ASSUME Inv, NEW f \in Files, sfs_truncfile_end(f)
    PROVE  Inv'
  <1>1. PICK s : s = Fs
    OBVIOUS
  <1>2. PICK c : c = contents[f]
    OBVIOUS
  <1>3. PICK call : call = op[f]
    OBVIOUS
  <1>4. FsOK(s) /\ call \in Calls /\ FileOK(s, f, call, c) /\ s.din = din
    BY <1>1, <1>2, <1>3, Before
  <1>5. PICK len : len = call.end
    OBVIOUS
  <1>6. PICK t : t = SetSize(s, f, len)
    OBVIOUS
  <1>7. PICK d : d = [i \in 1 .. len |-> IF i <= Len(c) THEN c[i] ELSE 0]
    OBVIOUS
  <1>8. /\ call.call = "truncate" /\ s.din[f].blocks = ROUNDUP_DIV(len, BLKSIZE)
        /\ SetFs(t) /\ op' = [op EXCEPT ![f] = Idle] /\ contents' = [contents EXCEPT ![f] = d]
        /\ strained' = strained \ {f}
    BY <1>1, <1>2, <1>3, <1>4, <1>5, <1>6, <1>7 DEF sfs_truncfile_end, Record
  <1>9. /\ FsOK(t) /\ FileOK(t, f, Idle, d) /\ Sized(t, f, Idle)
        /\ \A g \in Files \ {f} : Same(s, t, g)
    BY <1>4, <1>5, <1>6, <1>7, <1>8, TruncatedOK
  <1>10. Idle \in Calls /\ d \in Seq(Nat)
    BY <1>9 DEF Idle, Calls, FileOK, DataOK
  <1>11. \A g \in Files \ {f} : Same(Fs, t, g) /\ (g \in strained => g \in strained')
    BY <1>1, <1>8, <1>9
  <1> QED
    BY <1>8, <1>9, <1>10, <1>11, FileStep

---------------------------------------------------------------------------
(* The theorems.                                                           *)

LEMMA InitInv == Init => Inv
  <1> SUFFICES ASSUME Init PROVE Inv
    OBVIOUS
  <1>1. PICK s : s = Fs
    OBVIOUS
  <1>2. PICK none : none = [i \in 0 .. NDIRECT - 1 |-> 0]
    OBVIOUS
  <1>3. PICK inode : inode = [size |-> 0, blocks |-> 0, indirect |-> 0, direct |-> none]
    OBVIOUS
  <1>4. /\ s.din = [f \in Files |-> inode]
        /\ s.bytes = [b \in Blocks |-> ZeroBytes] /\ s.ents = [b \in Blocks |-> ZeroEnts]
        /\ s.freemap = Blocks /\ s.unused_blocks = NBlocks
    BY <1>1, <1>2, <1>3 DEF Init, Fs
  <1>5. 0 \in BlockNumbers /\ 0 \in 0 .. NDIRECT + NENTRY /\ NBlocks \in Nat
    BY SfsFileAssumption DEF BlockNumbers
  <1>6. /\ inode \in Inode /\ inode.blocks = 0 /\ inode.size = 0 /\ inode.indirect = 0
        /\ inode.direct = none
    BY <1>2, <1>3, <1>5 DEF Inode
  <1>7. \A f \in Files : s.din[f] = inode
    BY <1>4
  <1>8. ASSUME NEW f \in Files, NEW i \in Indices PROVE BlockOf(s, f, i) = 0
    <2>1. CASE i < NDIRECT
      <3>1. i \in 0 .. NDIRECT - 1
        BY <2>1, SfsFileAssumption DEF Indices
      <3> QED
        BY <1>2, <1>6, <1>7, <2>1, <3>1 DEF BlockOf
    <2>2. CASE ~(i < NDIRECT)
      BY <1>6, <1>7, <2>2 DEF BlockOf
    <2> QED
      BY <2>1, <2>2
  <1>9. ASSUME NEW f \in Files, NEW i \in Places PROVE Refers(s, f, i) = 0
    BY <1>6, <1>7, <1>8, IndexPlace DEF Refers
  <1>10. FsOK(s)
    <2>1. ZeroBytes \in [0 .. BLKSIZE - 1 -> Nat] /\ ZeroEnts \in [0 .. NENTRY - 1 -> BlockNumbers]
      BY <1>5 DEF ZeroBytes, ZeroEnts
    <2>2. s = [din |-> s.din, bytes |-> s.bytes, ents |-> s.ents, freemap |-> s.freemap,
               unused_blocks |-> s.unused_blocks]
      BY <1>1 DEF Fs
    <2>3. s.din \in [Files -> Inode]
      BY <1>4, <1>6
    <2>4. s.bytes \in [Blocks -> [0 .. BLKSIZE - 1 -> Nat]] /\ s.ents \in [Blocks -> [0 .. NENTRY - 1 -> BlockNumbers]]
      BY <1>4, <2>1
    <2>5. s \in FileSystems
      BY <1>4, <1>5, <2>2, <2>3, <2>4 DEF FileSystems
    <2>6. s.unused_blocks = Cardinality(s.freemap)
      BY <1>4, BlocksFinite
    <2>7. MapOK(s)
      BY <1>6, <1>7, <1>8, IndexPlace DEF MapOK
    <2>8. OnceOK(s)
      BY <1>9 DEF OnceOK
    <2>9. NoneLost(s)
      BY <1>4 DEF NoneLost
    <2> QED
      BY <2>5, <2>6, <2>7, <2>8, <2>9 DEF FsOK
  <1>11. Idle \in Calls
    BY DEF Idle, Calls
  <1>12. op \in [Files -> Calls] /\ contents \in [Files -> Seq(Nat)]
    BY <1>11 DEF Init
  <1>13. ASSUME NEW f \in Files
         PROVE  FileOK(Fs, f, op[f], contents[f]) /\ Sized(Fs, f, op[f])
    <2>1. op[f] = Idle /\ contents[f] = <<>>
      BY DEF Init
    <2>2. Len(<<>>) = 0 /\ <<>> \in Seq(Nat)
      OBVIOUS
    <2>3. ASSUME NEW i \in Indices PROVE BlockContents(s, f, Idle, <<>>, i)
      <3>1. \A o \in 0 .. BLKSIZE - 1 : i * BLKSIZE + o \in Nat
        BY IndexPlace, Monotone, BlockSize
      <3>2. \A p \in Nat : Expected(f, Idle, <<>>, p) = 0
        BY <2>2 DEF Expected, Idle
      <3> QED
        BY <1>8, <3>1, <3>2 DEF BlockContents
    <2>4. 0 <= (0 + 1) * BLKSIZE /\ 0 <= MaxSize
      BY SfsFileAssumption
    <2>5. DataOK(s, f, Idle, <<>>)
      BY <1>6, <1>7, <2>2, <2>3, <2>4 DEF DataOK
    <2>6. ROUNDUP_DIV(0, BLKSIZE) = 0
      <3>1. ROUNDUP_DIV(0, BLKSIZE) <= 0 /\ ROUNDUP_DIV(0, BLKSIZE) \in Nat
        BY BlockSize, RoundUp
      <3> QED
        BY <3>1
    <2>7. Sized(s, f, Idle)
      BY <1>6, <1>7, <2>6 DEF Sized, Reached, Idle
    <2> QED
      BY <1>1, <2>1, <2>5, <2>7 DEF FileOK, CallOK
  <1> QED
    BY <1>1, <1>10, <1>12, <1>13 DEF Inv, FilesOK

LEMMA NextInv == Inv /\ [Next]_vars => Inv'
  <1> SUFFICES ASSUME Inv, [Next]_vars PROVE Inv'
    OBVIOUS
  <1>1. CASE UNCHANGED vars
    BY <1>1, InvStutter DEF vars
  <1>2. CASE Next
    <2>1. PICK f \in Files :
             \/ \E pos \in 0 .. MaxSize - 1, len \in Lens : sfs_write(f, pos, len)
             \/ sfs_write_block(f) \/ sfs_write_full(f) \/ sfs_write_panics(f) \/ sfs_read(f)
             \/ \E len \in 0 .. MaxSize : sfs_truncfile(f, len)
             \/ sfs_truncfile_block(f) \/ sfs_truncfile_end(f) \/ sfs_truncfile_full(f)
      BY <1>2 DEF Next
    <2>2. CASE \E pos \in 0 .. MaxSize - 1, len \in Lens : sfs_write(f, pos, len)
      BY <2>2, WriteKeeps
    <2>3. CASE sfs_write_block(f)
      BY <2>3, WriteBlockKeeps
    <2>4. CASE sfs_write_full(f)
      BY <2>4, WriteFullKeeps
    <2>5. CASE sfs_write_panics(f)
      BY <2>5, InvStutter DEF sfs_write_panics
    <2>6. CASE sfs_read(f)
      BY <2>6, ReadKeeps
    <2>7. CASE \E len \in 0 .. MaxSize : sfs_truncfile(f, len)
      BY <2>7, TruncateKeeps
    <2>8. CASE sfs_truncfile_block(f)
      BY <2>8, TruncateBlockKeeps
    <2>9. CASE sfs_truncfile_end(f)
      BY <2>9, TruncateEndKeeps
    <2>10. CASE sfs_truncfile_full(f)
      BY <2>10, TruncateFullKeeps
    <2> QED
      BY <2>1, <2>2, <2>3, <2>4, <2>5, <2>6, <2>7, <2>8, <2>9, <2>10
  <1> QED
    BY <1>1, <1>2

LEMMA Invariance == Spec => []Inv
  BY InitInv, NextInv, PTL DEF Spec

LEMMA InvBlocks == Inv => BlocksOK
  <1> SUFFICES ASSUME Inv PROVE BlocksOK
    OBVIOUS
  <1>1. PICK s : s = Fs
    OBVIOUS
  <1>2. /\ s \in FileSystems /\ MapOK(s) /\ OnceOK(s) /\ NoneLost(s)
        /\ s.unused_blocks = Cardinality(s.freemap)
    BY <1>1 DEF Inv, FsOK
  <1>3. s.din = din /\ s.freemap = freemap /\ s.unused_blocks = unused_blocks
    BY <1>1 DEF Fs
  <1>4. freemap \subseteq Blocks /\ unused_blocks = Cardinality(freemap)
    BY <1>2, <1>3, FieldsOf
  <1>5. ASSUME NEW f \in Files
        PROVE  /\ din[f].size \in 0 .. MaxSize /\ din[f].blocks \in 0 .. NDIRECT + NENTRY
               /\ \A place \in Places : Refers(Fs, f, place) \in Blocks \cup {0}
               /\ op[f].call \in {"none", "write", "truncate"}
    <2>1. s.din[f] \in Inode /\ \A place \in Places : Refers(s, f, place) \in BlockNumbers
      BY <1>2, InodeType
    <2>2. s.din[f].size <= MaxSize /\ s.din[f].size \in Nat /\ s.din[f].blocks \in 0 .. NDIRECT + NENTRY
      BY <1>1, <2>1, Before DEF FileOK, DataOK, Inode
    <2>3. op[f] \in Calls
      BY Before
    <2>4. op[f].call \in {"none", "write", "truncate"}
      BY <2>3 DEF Calls
    <2>5. BlockNumbers = Blocks \cup {0}
      BY SfsFileAssumption DEF BlockNumbers, Blocks
    <2>6. s.din[f].size \in 0 .. MaxSize
      BY <2>2, SfsFileAssumption
    <2> QED
      BY <1>1, <1>3, <2>1, <2>2, <2>4, <2>5, <2>6
  <1>6. ASSUME NEW b \in freemap PROVE References(Fs, b) = {}
    <2>1. b # 0
      BY <1>4, SfsFileAssumption DEF Blocks
    <2>2. ASSUME NEW r \in Files \X Places PROVE Refers(s, r[1], r[2]) # b
      BY <1>2, <1>3, <2>1 DEF OnceOK
    <2> QED
      BY <1>1, <2>2 DEF References
  <1>7. ASSUME NEW b \in Blocks \ freemap
        PROVE  \E r \in Files \X Places : References(Fs, b) = {r}
    <2>1. b # 0
      BY SfsFileAssumption DEF Blocks
    <2>2. PICK f \in Files, i \in Places : Refers(s, f, i) = b
      BY <1>2, <1>3 DEF NoneLost
    <2>3. ASSUME NEW r \in Files \X Places, Refers(s, r[1], r[2]) = b PROVE r = <<f, i>>
      <3>1. r[1] = f /\ r[2] = i /\ r = <<r[1], r[2]>>
        BY <1>2, <2>1, <2>2, <2>3 DEF OnceOK
      <3> QED
        BY <3>1
    <2>4. References(s, b) = {<<f, i>>}
      BY <2>2, <2>3 DEF References
    <2> QED
      BY <1>1, <2>4
  <1>8. \A f \in Files, i \in 0 .. NDIRECT + NENTRY - 1 : (BlockOf(Fs, f, i) # 0) <=> i < din[f].blocks
    BY <1>1, <1>2, <1>3 DEF MapOK, Indices
  <1> QED
    BY <1>4, <1>5, <1>6, <1>7, <1>8 DEF BlocksOK

LEMMA InvContents == Inv => ContentsOK
  <1> SUFFICES ASSUME Inv, NEW f \in Files, op[f] = Idle
               PROVE  /\ din[f].size = Len(contents[f])
                      /\ \A p \in 1 .. din[f].size : ByteAt(f, p - 1) = contents[f][p]
    BY DEF ContentsOK
  <1>1. PICK s : s = Fs
    OBVIOUS
  <1>2. PICK c : c = contents[f]
    OBVIOUS
  <1>3. FsOK(s) /\ DataOK(s, f, Idle, c) /\ s.din = din /\ s.bytes = bytes
    BY <1>1, <1>2, Before DEF FileOK, Fs
  <1>4. PICK size \in Nat : size = din[f].size
    BY <1>3, InodeType DEF FsOK, Inode
  <1>5. PICK n \in Nat : n = din[f].blocks /\ n \in Indices
    BY <1>3, RoomInMap, IndexPlace
  <1>6. Len(c) = size /\ size <= (n + 1) * BLKSIZE
    BY <1>3, <1>4, <1>5 DEF DataOK, Shrinking, Idle
  <1>7. ASSUME NEW p \in 1 .. size PROVE ByteAt(f, p - 1) = c[p]
    <2>1. PICK q \in Nat : q = p - 1
      OBVIOUS
    <2>2. PICK i \in Nat : i = q \div BLKSIZE
      BY BlockSize, DivMod
    <2>3. PICK r \in 0 .. BLKSIZE - 1 : r = q % BLKSIZE /\ q = i * BLKSIZE + r
      BY <2>2, BlockSize, DivMod
    <2>4. i <= n
      <3>1. CASE n + 1 <= i
        <4>1. (n + 1) * BLKSIZE <= i * BLKSIZE /\ (n + 1) * BLKSIZE \in Nat /\ i * BLKSIZE \in Nat
          BY <3>1, BlockSize, Monotone
        <4> QED
          BY <1>6, <2>1, <2>3, <4>1
      <3> QED
        BY <3>1
    <2>5. i \in Indices
      BY <1>5, <2>4, SfsFileAssumption DEF Indices
    <2>6. BlockContents(s, f, Idle, c, i)
      BY <1>3, <2>5 DEF DataOK
    <2>7. Expected(f, Idle, c, q) = c[p]
      BY <1>6, <2>1 DEF Expected, Idle
    <2>8. ~Shrinking(Idle)
      BY DEF Shrinking, Idle
    <2>9. IF BlockOf(s, f, i) # 0 THEN s.bytes[BlockOf(s, f, i)][r] = Expected(f, Idle, c, q)
          ELSE Expected(f, Idle, c, q) = 0
      BY <2>3, <2>6, <2>8 DEF BlockContents
    <2> QED
      BY <1>1, <1>3, <2>1, <2>2, <2>3, <2>7, <2>9 DEF ByteAt
  <1> QED
    BY <1>2, <1>4, <1>6, <1>7

LEMMA InvSizes == Inv => SizeMatches
  <1> SUFFICES ASSUME Inv, NEW f \in Files \ strained, op[f] = Idle
               PROVE  din[f].blocks = ROUNDUP_DIV(din[f].size, BLKSIZE)
    BY DEF SizeMatches
  <1>1. Sized(Fs, f, Idle) /\ Fs.din = din
    BY Before
  <1> QED
    BY <1>1 DEF Sized, Reached, Idle

(* However writes, truncations and seeks for any number of files interleave
   (sfs_io_nolock, sfs_truncfile, sfs_bmap_load_nolock) and fail when the
   disk is full, every disk block is free or named in exactly one place of
   one file, and the superblock's count of free blocks is right. *)
THEOREM BlocksCorrect == Spec => []BlocksOK
  BY Invariance, InvBlocks, PTL

(* A file that no call is at work on reads back what was written to it,
   whatever became of its blocks before and whether or not the writes ended
   early on a full disk (sfs_io_nolock, sfs_block_alloc). *)
THEOREM ContentsCorrect == Spec => []ContentsOK
  BY Invariance, InvContents, PTL

(* The assert at the beginning of sfs_truncfile holds for every file that a
   full disk has not left with a size its blocks do not match. *)
THEOREM SizesCorrect == Spec => []SizeMatches
  BY Invariance, InvSizes, PTL

---------------------------------------------------------------------------
(* Module InodeCache *)

Writing(t) == pc[t] \in {"fsync", "sync_write", "reclaim_write"}

Holders(n) == {t \in Threads : held[t] = n}

(* The calls of sfs_reclaim(n) that wait for fs_sem. *)
Pending(n) == {t \in Threads : pc[t] = "reclaim" /\ work[t] = n}

Counted(n) ==
    /\ node[n].ref_count = Cardinality(Holders(n))
    /\ node[n].reclaim_count = Cardinality(Pending(n)) + (IF node[n].ref_count > 0 THEN 1 ELSE 0)

(* Where a thread is tells what it works on and whether it has fs_sem. *)
Control ==
    \A t \in Threads :
       /\ work[t] # NoNode <=> Writing(t) \/ pc[t] = "reclaim"
       /\ want[t] # NoIno <=> pc[t] = "load"
       /\ fs_sem = t <=> pc[t] \in {"load", "sync", "sync_write", "reclaim_write"}
       /\ pc[t] = "load" => held[t] = NoNode /\ \A n \in Nodes : node[n].ino # want[t]
       /\ pc[t] = "fsync" => held[t] = work[t]
       /\ pc[t] = "reclaim_write" => node[work[t]].ref_count = 0 /\ node[work[t]].reclaim_count = 0

(* sin->sem is held by the thread that writes the node, and by no other. *)
OwnersOK == \A n \in Nodes, t \in Threads : node[n].owner = t <=> Writing(t) /\ work[t] = n

(* Only the thread inside sfs_sync has nodes to visit. *)
TodoOK == todo # {} => \E t \in Threads : pc[t] \in {"sync", "sync_write"}

(* A node holds the last version, and so does the disk unless the node says
   otherwise. *)
Versions ==
    /\ \A n \in Nodes : Live(n) =>
          /\ node[n].ver = latest[node[n].ino]
          /\ node[n].dirty \/ node[n].owner # NoThread \/ disk[node[n].ino] = latest[node[n].ino]
    /\ \A i \in Inos : (\A n \in Nodes : node[n].ino # i) => disk[i] = latest[i]

(* The inductive invariant. *)
CacheInv ==
    /\ TypeOK
    /\ \A n \in Nodes : Counted(n)
    /\ NoUseAfterFree
    /\ Control /\ OwnersOK /\ TodoOK
    /\ OneNodePerIno
    /\ Versions

---------------------------------------------------------------------------
(* The sets that the counters count are finite. *)
LEMMA CountFacts ==
    ASSUME NEW n
    PROVE  /\ IsFiniteSet(Holders(n)) /\ Cardinality(Holders(n)) \in Nat
           /\ IsFiniteSet(Pending(n)) /\ Cardinality(Pending(n)) \in Nat
           /\ Cardinality(Holders(n)) = 0 <=> Holders(n) = {}
           /\ Cardinality(Pending(n)) = 0 <=> Pending(n) = {}
  <1>1. Holders(n) \subseteq Threads /\ Pending(n) \subseteq Threads
    BY DEF Holders, Pending
  <1>2. IsFiniteSet(Holders(n)) /\ IsFiniteSet(Pending(n))
    BY <1>1, InodeCacheAssumption, FS_Subset
  <1> QED
    BY <1>2, FS_CardinalityType, FS_EmptySet

(* A node without references has no holders, and no reclaim is to come when
   its counter says so. *)
LEMMA CountZero ==
    ASSUME CacheInv, NEW n \in Nodes
    PROVE  /\ node[n].ref_count = 0 <=> \A t \in Threads : held[t] # n
           /\ node[n].reclaim_count = 0 => \A t \in Threads : ~(pc[t] = "reclaim" /\ work[t] = n)
  <1>1. Counted(n)
    BY DEF CacheInv
  <1>2. Holders(n) = {} <=> \A t \in Threads : held[t] # n
    BY DEF Holders
  <1>3. Pending(n) = {} <=> \A t \in Threads : ~(pc[t] = "reclaim" /\ work[t] = n)
    BY DEF Pending
  <1> QED
    BY <1>1, <1>2, <1>3, CountFacts DEF Counted

(* The node of which no counter and no reference changes. *)
LEMMA CountedFrame ==
    ASSUME NEW n \in Nodes, Counted(n), node'[n].ref_count = node[n].ref_count,
           node'[n].reclaim_count = node[n].reclaim_count,
           \A t \in Threads : held'[t] = n <=> held[t] = n,
           \A t \in Threads : (pc'[t] = "reclaim" /\ work'[t] = n) <=> (pc[t] = "reclaim" /\ work[t] = n)
    PROVE  Counted(n)'
  <1>1. Holders(n)' = Holders(n)
    BY DEF Holders
  <1>2. Pending(n)' = Pending(n)
    BY DEF Pending
  <1> QED
    BY <1>1, <1>2 DEF Counted

(* A thread that reclaims n now does so no more. *)
LEMMA PendingLess ==
    ASSUME NEW n \in Nodes, NEW t \in Threads, pc[t] = "reclaim", work[t] = n,
           pc'[t] # "reclaim",
           \A u \in Threads \ {t} : pc'[u] = pc[u] /\ work'[u] = work[u]
    PROVE  Cardinality(Pending(n)') = Cardinality(Pending(n)) - 1
  <1>1. Pending(n)' = Pending(n) \ {t} /\ t \in Pending(n)
    BY DEF Pending
  <1> QED
    BY <1>1, CountFacts, FS_RemoveElement, ZenonT(40)

(* A thread gets a reference. *)
LEMMA HoldersMore ==
    ASSUME NEW n \in Nodes, NEW t \in Threads, held[t] # n, held'[t] = n,
           \A u \in Threads \ {t} : held'[u] = held[u]
    PROVE  Cardinality(Holders(n)') = Cardinality(Holders(n)) + 1
  <1>1. Holders(n)' = Holders(n) \cup {t} /\ t \notin Holders(n)
    BY DEF Holders
  <1> QED
    BY <1>1, CountFacts, FS_AddElement, ZenonT(40)

---------------------------------------------------------------------------
(* What the operators on nodes do, field by field. *)
LEMMA UpdateFacts ==
    ASSUME NEW r \in NodeType, NEW t \in Threads, NEW v \in 0 .. MaxVer, NEW ok \in BOOLEAN
    PROVE  /\ Lookup(r) \in NodeType /\ Referenced(r) \in NodeType /\ Modified(r, v) \in NodeType
           /\ Claimed(r, t) \in NodeType /\ Flushed(r, ok) \in NodeType
           /\ r.ref_count > 0 => Dropped(r) \in NodeType
           /\ r.reclaim_count > 0 => Reclaiming(r) \in NodeType
           /\ Unused \in NodeType
  <1> USE InodeCacheAssumption
  <1>1. ASSUME NEW q \in NodeType, NEW c \in Nat PROVE [q EXCEPT !.ref_count = c] \in NodeType
    BY DEF NodeType
  <1>2. ASSUME NEW q \in NodeType, NEW c \in Nat PROVE [q EXCEPT !.reclaim_count = c] \in NodeType
    BY DEF NodeType
  <1>3. ASSUME NEW q \in NodeType, NEW b \in BOOLEAN PROVE [q EXCEPT !.dirty = b] \in NodeType
    BY DEF NodeType
  <1>4. ASSUME NEW q \in NodeType, NEW u \in Threads \cup {NoThread}
        PROVE  [q EXCEPT !.owner = u] \in NodeType
    BY DEF NodeType
  <1>5. ASSUME NEW q \in NodeType, NEW c \in 0 .. MaxVer PROVE [q EXCEPT !.ver = c] \in NodeType
    BY DEF NodeType
  <1>6. r.ref_count \in Nat /\ r.reclaim_count \in Nat
    BY DEF NodeType
  <1>7. Lookup(r) \in NodeType
    <2> DEFINE c == IF r.ref_count = 0 THEN r.reclaim_count + 1 ELSE r.reclaim_count
    <2>1. c \in Nat
      BY <1>6
    <2> HIDE DEF c
    <2>2. [r EXCEPT !.ref_count = r.ref_count + 1] \in NodeType
      BY <1>6, <1>1
    <2>3. [[r EXCEPT !.ref_count = r.ref_count + 1] EXCEPT !.reclaim_count = c] \in NodeType
      BY <2>1, <2>2, <1>2
    <2> QED
      BY <2>3 DEF Lookup, c
  <1>8. Referenced(r) \in NodeType
    BY <1>6, <1>1 DEF Referenced
  <1>9. Modified(r, v) \in NodeType
    <2>1. [[r EXCEPT !.ver = v] EXCEPT !.dirty = TRUE] \in NodeType
      BY <1>3, <1>5
    <2> QED
      BY <2>1 DEF Modified
  <1>10. Claimed(r, t) \in NodeType
    <2>1. [[r EXCEPT !.dirty = FALSE] EXCEPT !.owner = t] \in NodeType
      BY <1>3, <1>4
    <2> QED
      BY <2>1 DEF Claimed
  <1>11. Flushed(r, ok) \in NodeType
    <2>1. [[r EXCEPT !.dirty = ~ok] EXCEPT !.owner = NoThread] \in NodeType
      BY <1>3, <1>4
    <2> QED
      BY <2>1 DEF Flushed
  <1>12. r.ref_count > 0 => Dropped(r) \in NodeType
    BY <1>6, <1>1 DEF Dropped
  <1>13. r.reclaim_count > 0 => Reclaiming(r) \in NodeType
    BY <1>6, <1>2 DEF Reclaiming
  <1>14. Unused \in NodeType
    BY DEF Unused, NodeType
  <1> QED
    BY <1>7, <1>8, <1>9, <1>10, <1>11, <1>12, <1>13, <1>14

(* The update of one node leaves the others alone. *)
LEMMA NodeUpdate ==
    ASSUME node \in [Nodes -> NodeType], NEW n \in Nodes, NEW r \in NodeType,
           node' = [node EXCEPT ![n] = r]
    PROVE  /\ node' \in [Nodes -> NodeType]
           /\ node'[n] = r
           /\ \A x \in Nodes : x # n => node'[x] = node[x]
  OBVIOUS

---------------------------------------------------------------------------
LEMMA CacheInitInv == CacheInit => CacheInv
  <1> SUFFICES ASSUME CacheInit PROVE CacheInv
    OBVIOUS
  <1> USE InodeCacheAssumption DEF CacheInit
  <1>1. TypeOK
    BY DEF TypeOK, Unused, PCs, NodeType
  <1>2. ASSUME NEW n \in Nodes PROVE Counted(n)
    <2>1. Holders(n) = {} /\ Pending(n) = {}
      BY DEF Holders, Pending
    <2>2. node[n].ref_count = 0 /\ node[n].reclaim_count = 0
      BY DEF Unused
    <2> QED
      BY <2>1, <2>2, FS_EmptySet DEF Counted
  <1>3. NoUseAfterFree /\ Control /\ OwnersOK /\ TodoOK
    BY DEF NoUseAfterFree, Control, OwnersOK, TodoOK, Writing, Unused
  <1>4. OneNodePerIno /\ Versions
    BY DEF OneNodePerIno, Versions, Live, Unused
  <1> QED
    BY <1>1, <1>2, <1>3, <1>4 DEF CacheInv

(* sfs_load_inode finds the node in memory. *)
LEMMA LoadHitInv ==
    ASSUME CacheInv, NEW t \in Threads, NEW n \in Nodes, load_hit(t, n)
    PROVE  CacheInv'
  <1> USE InodeCacheAssumption
  <1>1. /\ pc[t] = "run" /\ held[t] = NoNode /\ fs_sem = NoThread /\ Live(n)
        /\ node' = [node EXCEPT ![n] = Lookup(node[n])]
        /\ held' = [held EXCEPT ![t] = n] /\ stranded' = stranded \ {n}
        /\ UNCHANGED <<disk, latest, fs_sem, work, want, todo, pc>>
    BY DEF load_hit
  <1>2. node \in [Nodes -> NodeType] /\ node[n] \in NodeType /\ Lookup(node[n]) \in NodeType
    BY UpdateFacts DEF CacheInv, TypeOK
  <1>3. /\ node' \in [Nodes -> NodeType] /\ node'[n] = Lookup(node[n])
        /\ \A x \in Nodes : x # n => node'[x] = node[x]
    BY <1>1, <1>2, NodeUpdate
  <1>4. /\ node'[n].ino = node[n].ino /\ node'[n].ver = node[n].ver
        /\ node'[n].dirty = node[n].dirty /\ node'[n].owner = node[n].owner
        /\ node'[n].ref_count = node[n].ref_count + 1
        /\ node'[n].reclaim_count = node[n].reclaim_count + (IF node[n].ref_count = 0 THEN 1 ELSE 0)
    BY <1>2, <1>3 DEF Lookup, NodeType
  <1>5. /\ held' \in [Threads -> Nodes \cup {NoNode}] /\ held'[t] = n
        /\ \A u \in Threads \ {t} : held'[u] = held[u]
    BY <1>1 DEF CacheInv, TypeOK
  <1>6. TypeOK'
    BY <1>1, <1>3, <1>5 DEF CacheInv, TypeOK
  <1>7. ASSUME NEW x \in Nodes PROVE Counted(x)'
    <2>1. CASE x # n
      BY <2>1, <1>1, <1>3, <1>5, CountedFrame DEF CacheInv
    <2>2. CASE x = n
      <3>1. Cardinality(Holders(n)') = Cardinality(Holders(n)) + 1
        BY <1>1, <1>5, HoldersMore
      <3>2. Pending(n)' = Pending(n)
        BY <1>1 DEF Pending
      <3> QED
        BY <3>1, <3>2, <2>2, <1>4, CountFacts DEF CacheInv, Counted
    <2> QED
      BY <2>1, <2>2
  <1>8. NoUseAfterFree'
    BY <1>1, <1>3, <1>4, <1>5 DEF CacheInv, NoUseAfterFree, Live, TypeOK
  <1>9. Control' /\ OwnersOK' /\ TodoOK'
    BY <1>1, <1>3, <1>4, <1>5 DEF CacheInv, Control, OwnersOK, TodoOK, Writing, Live, TypeOK
  <1>10. OneNodePerIno' /\ Versions'
    BY <1>1, <1>3, <1>4 DEF CacheInv, OneNodePerIno, Versions, Live, TypeOK
  <1> QED
    BY <1>6, <1>7, <1>8, <1>9, <1>10 DEF CacheInv

(* sfs_load_inode begins to read the node, or gives up. *)
LEMMA LoadMissInv ==
    ASSUME CacheInv, NEW t \in Threads,
           (\E i \in Inos : load_miss(t, i)) \/ load_fails(t)
    PROVE  CacheInv'
  <1> USE InodeCacheAssumption
  <1>1. UNCHANGED <<node, disk, latest, held, work, todo, stranded>>
    BY DEF load_miss, load_fails
  <1>2. TypeOK'
    BY DEF load_miss, load_fails, Goto, CacheInv, TypeOK, PCs
  <1>3. \A u \in Threads : u # t => pc'[u] = pc[u] /\ want'[u] = want[u]
    BY DEF load_miss, load_fails, Goto, CacheInv, TypeOK
  <1>4. pc[t] \in {"run", "load"} /\ pc'[t] \in {"run", "load"}
    BY DEF load_miss, load_fails, Goto, CacheInv, TypeOK
  <1>5. \A u \in Threads : (pc'[u] = "reclaim" <=> pc[u] = "reclaim") /\ (Writing(u)' <=> Writing(u))
    BY <1>3, <1>4 DEF Writing
  <1>6. \A x \in Nodes : Counted(x)'
    BY <1>1, <1>5, CountedFrame DEF CacheInv
  <1>7. NoUseAfterFree' /\ OwnersOK' /\ OneNodePerIno' /\ Versions'
    BY <1>1, <1>5 DEF CacheInv, NoUseAfterFree, OwnersOK, OneNodePerIno, Versions, Live
  <1>8. TodoOK'
    BY <1>1, <1>3, <1>4 DEF CacheInv, TodoOK
  <1>9. Control'
    <2>1. ASSUME NEW i \in Inos, load_miss(t, i) PROVE Control'
      <3>1. /\ fs_sem = NoThread /\ fs_sem' = t /\ pc[t] = "run" /\ pc'[t] = "load" /\ want'[t] = i
            /\ held[t] = NoNode /\ \A n \in Nodes : node[n].ino # i
        BY <2>1 DEF load_miss, Goto, CacheInv, TypeOK
      <3> QED
        BY <3>1, <1>1, <1>3, <1>5 DEF CacheInv, Control, Writing
    <2>2. CASE load_fails(t)
      <3>1. fs_sem' = NoThread /\ pc[t] = "load" /\ pc'[t] = "run" /\ want'[t] = NoIno
        BY <2>2 DEF load_fails, Goto, CacheInv, TypeOK
      <3> QED
        BY <3>1, <1>1, <1>3, <1>5 DEF CacheInv, Control, Writing
    <2> QED
      BY <2>1, <2>2
  <1> QED
    BY <1>2, <1>6, <1>7, <1>8, <1>9 DEF CacheInv

(* The node has been read and is linked. *)
LEMMA LoadDoneInv ==
    ASSUME CacheInv, NEW t \in Threads, load_done(t)
    PROVE  CacheInv'
  <1> USE InodeCacheAssumption
  <1>1. PICK n \in Nodes : /\ ~Live(n)
                           /\ node' = [node EXCEPT ![n] = Created(want[t], disk[want[t]])]
                           /\ held' = [held EXCEPT ![t] = n]
    BY DEF load_done
  <1>2. /\ pc[t] = "load" /\ fs_sem' = NoThread /\ pc' = [pc EXCEPT ![t] = "run"]
        /\ want' = [want EXCEPT ![t] = NoIno]
        /\ UNCHANGED <<disk, latest, work, todo, stranded>>
    BY DEF load_done, Goto
  <1>3. /\ want[t] \in Inos /\ held[t] = NoNode /\ fs_sem = t
        /\ \A x \in Nodes : node[x].ino # want[t]
    BY <1>2 DEF CacheInv, Control, TypeOK
  <1>4. disk[want[t]] = latest[want[t]] /\ disk[want[t]] \in 0 .. MaxVer
    BY <1>3 DEF CacheInv, Versions, TypeOK
  <1>5. Created(want[t], disk[want[t]]) \in NodeType
    BY <1>3, <1>4 DEF Created, NodeType
  <1>6. /\ node' \in [Nodes -> NodeType] /\ node'[n] = Created(want[t], disk[want[t]])
        /\ \A x \in Nodes : x # n => node'[x] = node[x]
    BY <1>1, <1>5, NodeUpdate DEF CacheInv, TypeOK
  <1>7. /\ node'[n].ino = want[t] /\ node'[n].ver = latest[want[t]] /\ node'[n].owner = NoThread
        /\ node'[n].ref_count = 1 /\ node'[n].reclaim_count = 1
    BY <1>4, <1>6 DEF Created
  <1>8. /\ held' \in [Threads -> Nodes \cup {NoNode}] /\ held'[t] = n
        /\ \A u \in Threads \ {t} : held'[u] = held[u]
    BY <1>1 DEF CacheInv, TypeOK
  <1>9. /\ pc' \in [Threads -> PCs] /\ pc'[t] = "run" /\ want' \in [Threads -> Inos \cup {NoIno}]
        /\ want'[t] = NoIno /\ \A u \in Threads \ {t} : pc'[u] = pc[u] /\ want'[u] = want[u]
    BY <1>2 DEF CacheInv, TypeOK, PCs
  <1>10. TypeOK'
    BY <1>2, <1>6, <1>8, <1>9 DEF CacheInv, TypeOK
  <1>11. \A u \in Threads : held[u] # n /\ work[u] # n /\ n \notin todo
    BY <1>1 DEF CacheInv, NoUseAfterFree
  <1>12. ASSUME NEW x \in Nodes PROVE Counted(x)'
    <2>1. CASE x # n
      BY <2>1, <1>2, <1>3, <1>6, <1>8, <1>9, CountedFrame DEF CacheInv
    <2>2. CASE x = n
      <3>1. Holders(n)' = {t} /\ Pending(n)' = {}
        BY <1>2, <1>8, <1>11 DEF Holders, Pending
      <3>2. Cardinality(Holders(n)') = 1 /\ Cardinality(Pending(n)') = 0
        BY <3>1, FS_Singleton, FS_EmptySet
      <3> QED
        BY <3>2, <2>2, <1>7 DEF Counted
    <2> QED
      BY <2>1, <2>2
  <1>13. NoUseAfterFree'
    BY <1>2, <1>3, <1>6, <1>7, <1>8, <1>11 DEF CacheInv, NoUseAfterFree, Live, TypeOK
  <1>14. Control'
    BY <1>2, <1>3, <1>6, <1>8, <1>9, <1>11 DEF CacheInv, Control, Writing, TypeOK
  <1>15. OwnersOK' /\ TodoOK'
    BY <1>2, <1>6, <1>7, <1>9, <1>11 DEF CacheInv, OwnersOK, TodoOK, Writing
  <1>16. OneNodePerIno' /\ Versions'
    BY <1>1, <1>2, <1>3, <1>4, <1>6, <1>7 DEF CacheInv, OneNodePerIno, Versions, Live, TypeOK
  <1> QED
    BY <1>10, <1>12, <1>13, <1>14, <1>15, <1>16 DEF CacheInv

(* A reference is copied from a thread that has one. *)
LEMMA RefIncInv ==
    ASSUME CacheInv, NEW t \in Threads, NEW u \in Threads, ref_inc(t, u)
    PROVE  CacheInv'
  <1> USE InodeCacheAssumption
  <1>1. PICK n \in Nodes :
          /\ n = held[u] /\ pc[t] = "run" /\ held[t] = NoNode
          /\ node' = [node EXCEPT ![n] = Referenced(node[n])] /\ held' = [held EXCEPT ![t] = n]
          /\ UNCHANGED <<disk, latest, fs_sem, work, want, todo, pc, stranded>>
    BY DEF ref_inc, CacheInv, TypeOK
  <1>2. node \in [Nodes -> NodeType] /\ node[n] \in NodeType /\ Referenced(node[n]) \in NodeType
    BY <1>1, UpdateFacts DEF CacheInv, TypeOK
  <1>3. /\ node' \in [Nodes -> NodeType] /\ node'[n] = Referenced(node[n])
        /\ \A x \in Nodes : x # n => node'[x] = node[x]
    BY <1>1, <1>2, NodeUpdate
  <1>4. /\ node'[n].ino = node[n].ino /\ node'[n].ver = node[n].ver
        /\ node'[n].dirty = node[n].dirty /\ node'[n].owner = node[n].owner
        /\ node'[n].ref_count = node[n].ref_count + 1
        /\ node'[n].reclaim_count = node[n].reclaim_count
    BY <1>2, <1>3 DEF Referenced, NodeType
  <1>5. /\ held' \in [Threads -> Nodes \cup {NoNode}] /\ held'[t] = n
        /\ \A x \in Threads \ {t} : held'[x] = held[x]
    BY <1>1 DEF CacheInv, TypeOK
  <1>6. TypeOK'
    BY <1>1, <1>3, <1>5 DEF CacheInv, TypeOK
  <1>7. node[n].ref_count # 0
    BY <1>1, CountZero
  <1>8. ASSUME NEW x \in Nodes PROVE Counted(x)'
    <2>1. CASE x # n
      BY <2>1, <1>1, <1>3, <1>5, CountedFrame DEF CacheInv
    <2>2. CASE x = n
      <3>1. Cardinality(Holders(n)') = Cardinality(Holders(n)) + 1
        BY <1>1, <1>5, HoldersMore
      <3>2. Pending(n)' = Pending(n)
        BY <1>1 DEF Pending
      <3> QED
        BY <3>1, <3>2, <2>2, <1>1, <1>4, <1>7, CountFacts DEF CacheInv, Counted
    <2> QED
      BY <2>1, <2>2
  <1>9. NoUseAfterFree'
    BY <1>1, <1>3, <1>4, <1>5 DEF CacheInv, NoUseAfterFree, Live, TypeOK
  <1>10. Control' /\ OwnersOK' /\ TodoOK'
    BY <1>1, <1>3, <1>4, <1>5, <1>7 DEF CacheInv, Control, OwnersOK, TodoOK, Writing, Live, TypeOK
  <1>11. OneNodePerIno' /\ Versions'
    BY <1>1, <1>3, <1>4 DEF CacheInv, OneNodePerIno, Versions, Live, TypeOK
  <1> QED
    BY <1>6, <1>8, <1>9, <1>10, <1>11 DEF CacheInv

(* The file is changed in memory, while nobody writes the node. *)
LEMMA ModifyInv ==
    ASSUME CacheInv, NEW t \in Threads, modify(t)
    PROVE  CacheInv'
  <1> USE InodeCacheAssumption
  <1>1. PICK n \in Nodes :
          /\ n = held[t] /\ node[n].owner = NoThread /\ latest[node[n].ino] < MaxVer
          /\ latest' = [latest EXCEPT ![node[n].ino] = latest[node[n].ino] + 1]
          /\ node' = [node EXCEPT ![n] = Modified(node[n], latest[node[n].ino] + 1)]
          /\ UNCHANGED <<disk, fs_sem, held, work, want, todo, pc, stranded>>
    BY DEF modify, CacheInv, TypeOK
  <1>2. PICK i \in Inos : i = node[n].ino
    BY <1>1 DEF CacheInv, NoUseAfterFree, Live, TypeOK, NodeType
  <1>3. latest[i] \in 0 .. MaxVer /\ latest[i] + 1 \in 0 .. MaxVer
    BY <1>1, <1>2 DEF CacheInv, TypeOK
  <1>4. node[n] \in NodeType /\ Modified(node[n], latest[i] + 1) \in NodeType
    BY <1>3, UpdateFacts DEF CacheInv, TypeOK
  <1>5. /\ node' \in [Nodes -> NodeType] /\ node'[n] = Modified(node[n], latest[i] + 1)
        /\ \A x \in Nodes : x # n => node'[x] = node[x]
    BY <1>1, <1>2, <1>4, NodeUpdate DEF CacheInv, TypeOK
  <1>6. /\ node'[n].ino = i /\ node'[n].ver = latest[i] + 1 /\ node'[n].dirty
        /\ node'[n].owner = NoThread /\ node'[n].ref_count = node[n].ref_count
        /\ node'[n].reclaim_count = node[n].reclaim_count
    BY <1>1, <1>2, <1>4, <1>5 DEF Modified, NodeType
  <1>7. /\ latest' \in [Inos -> 0 .. MaxVer] /\ latest'[i] = latest[i] + 1
        /\ \A j \in Inos : j # i => latest'[j] = latest[j]
    BY <1>1, <1>2, <1>3 DEF CacheInv, TypeOK
  <1>8. TypeOK'
    BY <1>1, <1>5, <1>7 DEF CacheInv, TypeOK
  <1>9. \A x \in Nodes : Counted(x)'
    BY <1>1, <1>5, <1>6, CountedFrame DEF CacheInv
  <1>10. \A x \in Nodes : node'[x].ino = node[x].ino /\ node'[x].owner = node[x].owner
    BY <1>1, <1>2, <1>5, <1>6
  <1>11. NoUseAfterFree' /\ OwnersOK' /\ TodoOK' /\ OneNodePerIno'
    BY <1>1, <1>10, SMTT(30) DEF CacheInv, NoUseAfterFree, OwnersOK, TodoOK, OneNodePerIno, Live, Writing, TypeOK
  <1>12. Control'
    BY <1>1, <1>5, <1>6, <1>10 DEF CacheInv, Control, Writing, TypeOK
  <1>13. Versions'
    <2>1. \A x \in Nodes : Live(x) => node[x].ino \in Inos /\ (x # n => node[x].ino # i)
      BY <1>2 DEF CacheInv, OneNodePerIno, Live, TypeOK, NodeType
    <2>2. \A x \in Nodes : Live(x)' <=> Live(x)
      BY <1>10 DEF Live
    <2>3. ASSUME NEW x \in Nodes, Live(x), x # n
          PROVE  /\ node'[x].ver = latest'[node'[x].ino]
                 /\ node'[x].dirty \/ node'[x].owner # NoThread
                    \/ disk'[node'[x].ino] = latest'[node'[x].ino]
      BY <2>1, <2>3, <1>1, <1>5, <1>7, SMTT(30) DEF CacheInv, Versions
    <2>4. \A j \in Inos : (\A x \in Nodes : node'[x].ino # j) => disk'[j] = latest'[j]
      BY <1>1, <1>2, <1>7, <1>10 DEF CacheInv, Versions
    <2> QED
      BY <2>2, <2>3, <2>4, <1>6, <1>7 DEF Versions
  <1> QED
    BY <1>8, <1>9, <1>11, <1>12, <1>13 DEF CacheInv

(* sfs_fsync of the node n begins, from sfs_fsync or from sfs_sync. *)
LEMMA FlushBeginInv ==
    ASSUME CacheInv, NEW t \in Threads, NEW n \in Nodes, NEW c,
           FlushBegin(t, n, c), UNCHANGED <<disk, latest, fs_sem, held, want, stranded>>,
           todo' \subseteq todo, work[t] = NoNode,
           \/ pc[t] = "run" /\ c = "fsync" /\ held[t] = n
           \/ pc[t] = "sync" /\ c = "sync_write" /\ n \in todo
    PROVE  CacheInv'
  <1> USE InodeCacheAssumption
  <1>1. /\ node[n].dirty /\ node[n].owner = NoThread
        /\ node' = [node EXCEPT ![n] = Claimed(node[n], t)]
        /\ work' = [work EXCEPT ![t] = n] /\ pc' = [pc EXCEPT ![t] = c]
    BY DEF FlushBegin, Goto
  <1>2. node[n] \in NodeType /\ Claimed(node[n], t) \in NodeType /\ Live(n)
    <2>1. node[n] \in NodeType
      BY DEF CacheInv, TypeOK
    <2>11. 0 \in 0 .. MaxVer /\ TRUE \in BOOLEAN
      OBVIOUS
    <2>12. Claimed(node[n], t) \in NodeType
      BY <2>1, <2>11, UpdateFacts
    <2>2. Live(n)
      BY DEF CacheInv, NoUseAfterFree
    <2> QED
      BY <2>1, <2>12, <2>2
  <1>3. /\ node' \in [Nodes -> NodeType] /\ node'[n] = Claimed(node[n], t)
        /\ \A x \in Nodes : x # n => node'[x] = node[x]
    BY <1>1, <1>2, NodeUpdate DEF CacheInv, TypeOK
  <1>4. /\ node'[n].ino = node[n].ino /\ node'[n].ver = node[n].ver /\ node'[n].owner = t
        /\ node'[n].ref_count = node[n].ref_count
        /\ node'[n].reclaim_count = node[n].reclaim_count
    BY <1>2, <1>3 DEF Claimed, NodeType
  <1>5. /\ work' \in [Threads -> Nodes \cup {NoNode}] /\ work'[t] = n
        /\ pc' \in [Threads -> PCs] /\ pc'[t] = c
        /\ \A u \in Threads \ {t} : work'[u] = work[u] /\ pc'[u] = pc[u]
    BY <1>1 DEF CacheInv, TypeOK, PCs
  <1>6. TypeOK'
    BY <1>3, <1>5 DEF CacheInv, TypeOK
  <1>7. \A x \in Nodes : Counted(x)'
    BY <1>3, <1>4, <1>5, CountedFrame DEF CacheInv
  <1>8. NoUseAfterFree' /\ OneNodePerIno'
    <2>1. \A x \in Nodes : node'[x].ino = node[x].ino
      BY <1>3, <1>4
    <2>2. \A x \in Nodes : Live(x)' <=> Live(x)
      BY <2>1 DEF Live
    <2>3. OneNodePerIno'
      BY <2>1, <2>2 DEF CacheInv, OneNodePerIno
    <2>4. \A u \in Threads : held'[u] # NoNode => Live(held[u])'
      BY <2>2 DEF CacheInv, NoUseAfterFree, TypeOK
    <2>5. \A u \in Threads : work'[u] # NoNode => Live(work[u])'
      <3>1. ASSUME NEW u \in Threads, u # t, work'[u] # NoNode PROVE Live(work[u])'
        <4>1. work'[u] = work[u] /\ work[u] \in Nodes
          BY <1>5, <3>1 DEF CacheInv, TypeOK
        <4> QED
          BY <2>2, <3>1, <4>1 DEF CacheInv, NoUseAfterFree
      <3> QED
        BY <1>2, <1>5, <2>2, <3>1
    <2>6. \A x \in todo' : Live(x)'
      BY <2>2 DEF CacheInv, NoUseAfterFree, TypeOK
    <2> QED
      BY <2>3, <2>4, <2>5, <2>6 DEF NoUseAfterFree
  <1>9. Control' /\ TodoOK'
    BY <1>3, <1>4, <1>5 DEF CacheInv, Control, TodoOK, Writing, TypeOK
  <1>10. OwnersOK'
    BY <1>1, <1>3, <1>4, <1>5 DEF CacheInv, OwnersOK, Writing, TypeOK
  <1>11. Versions'
    BY <1>2, <1>3, <1>4 DEF CacheInv, Versions, Live, TypeOK
  <1> QED
    BY <1>6, <1>7, <1>8, <1>9, <1>10, <1>11 DEF CacheInv

(* The disk write of sfs_fsync or sfs_sync ends. *)
LEMMA FlushEndInv ==
    ASSUME CacheInv, NEW t \in Threads, NEW ok \in BOOLEAN, sfs_fsync_end(t, ok), pc[t] # "reclaim_write"
    PROVE  CacheInv'
  <1> USE InodeCacheAssumption
  <1>1. PICK n \in Nodes :
          /\ n = work[t] /\ pc[t] \in {"fsync", "sync_write"}
          /\ disk' = IF ok THEN [disk EXCEPT ![node[n].ino] = node[n].ver] ELSE disk
          /\ node' = [node EXCEPT ![n] = Flushed(node[n], ok)]
          /\ work' = [work EXCEPT ![t] = NoNode]
          /\ pc' = [pc EXCEPT ![t] = IF pc[t] = "fsync" THEN "run" ELSE "sync"]
          /\ UNCHANGED <<fs_sem, stranded, latest, held, want, todo>>
    <2>1. work[t] \in Nodes
      BY DEF sfs_fsync_end, CacheInv, Control, Writing, TypeOK
    <2> QED
      BY <2>1 DEF sfs_fsync_end, Goto
  <1>2. PICK i \in Inos : i = node[n].ino
    BY <1>1 DEF CacheInv, NoUseAfterFree, Live, TypeOK, NodeType
  <1>3. node[n] \in NodeType /\ Flushed(node[n], ok) \in NodeType /\ node[n].ver = latest[i] /\ Live(n)
    <2>1. node[n] \in NodeType /\ Flushed(node[n], ok) \in NodeType
      BY UpdateFacts DEF CacheInv, TypeOK
    <2>2. Live(n) /\ node[n].ver = latest[i]
      BY <1>1, <1>2 DEF CacheInv, NoUseAfterFree, Versions
    <2> QED
      BY <2>1, <2>2
  <1>4. /\ node' \in [Nodes -> NodeType] /\ node'[n] = Flushed(node[n], ok)
        /\ \A x \in Nodes : x # n => node'[x] = node[x]
    BY <1>1, <1>3, NodeUpdate DEF CacheInv, TypeOK
  <1>5. /\ node'[n].ino = i /\ node'[n].ver = node[n].ver /\ node'[n].owner = NoThread
        /\ node'[n].dirty = ~ok
        /\ node'[n].ref_count = node[n].ref_count
        /\ node'[n].reclaim_count = node[n].reclaim_count
    BY <1>2, <1>3, <1>4 DEF Flushed, NodeType
  <1>6. /\ work' \in [Threads -> Nodes \cup {NoNode}] /\ work'[t] = NoNode
        /\ pc' \in [Threads -> PCs] /\ pc'[t] = (IF pc[t] = "fsync" THEN "run" ELSE "sync")
        /\ \A u \in Threads \ {t} : work'[u] = work[u] /\ pc'[u] = pc[u]
    BY <1>1 DEF CacheInv, TypeOK, PCs
  <1>7. /\ disk' \in [Inos -> 0 .. MaxVer] /\ \A j \in Inos : j # i => disk'[j] = disk[j]
        /\ ok => disk'[i] = latest[i]
    BY <1>1, <1>2, <1>3 DEF CacheInv, TypeOK, NodeType
  <1>8. TypeOK'
    BY <1>1, <1>4, <1>6, <1>7 DEF CacheInv, TypeOK
  <1>9. \A x \in Nodes : Counted(x)'
    BY <1>1, <1>4, <1>5, <1>6, CountedFrame DEF CacheInv
  <1>10. \A x \in Nodes : node'[x].ino = node[x].ino
    BY <1>2, <1>4, <1>5
  <1>11. NoUseAfterFree' /\ OneNodePerIno'
    BY <1>1, <1>6, <1>10 DEF CacheInv, NoUseAfterFree, OneNodePerIno, Live, TypeOK
  <1>12. Control' /\ TodoOK'
    BY <1>1, <1>4, <1>5, <1>6, <1>10 DEF CacheInv, Control, TodoOK, Writing, TypeOK
  <1>13. OwnersOK'
    BY <1>1, <1>4, <1>5, <1>6 DEF CacheInv, OwnersOK, Writing, TypeOK
  <1>14. Versions'
    <2>1. \A x \in Nodes : Live(x) => node[x].ino \in Inos /\ (x # n => node[x].ino # i)
      BY <1>2 DEF CacheInv, OneNodePerIno, Live, TypeOK, NodeType
    <2>2. \A x \in Nodes : Live(x)' <=> Live(x)
      BY <1>10 DEF Live
    <2>3. ASSUME NEW x \in Nodes, Live(x), x # n
          PROVE  /\ node'[x].ver = latest'[node'[x].ino]
                 /\ node'[x].dirty \/ node'[x].owner # NoThread
                    \/ disk'[node'[x].ino] = latest'[node'[x].ino]
      BY <2>1, <2>3, <1>1, <1>4, <1>7 DEF CacheInv, Versions
    <2>4. \A j \in Inos : (\A x \in Nodes : node'[x].ino # j) => disk'[j] = latest'[j]
      BY <1>1, <1>2, <1>7, <1>10 DEF CacheInv, Versions
    <2> QED
      BY <2>2, <2>3, <2>4, <1>1, <1>3, <1>5, <1>7 DEF Versions
  <1> QED
    BY <1>8, <1>9, <1>11, <1>12, <1>13, <1>14 DEF CacheInv

(* Thread t frees the node n, which has no references and which nobody else
   is about to reclaim or writes, when the disk has its contents. *)
Drop(t, n) ==
    /\ pc[t] \in {"reclaim", "reclaim_write"} /\ work[t] = n /\ node[n].ref_count = 0
    /\ \A u \in Threads \ {t} : work[u] # n
    /\ todo = {} /\ fs_sem \in {t, NoThread} /\ fs_sem' = NoThread
    /\ pc' = [pc EXCEPT ![t] = "run"] /\ work' = [work EXCEPT ![t] = NoNode]
    /\ node' = [node EXCEPT ![n] = Unused]
    /\ disk' \in [Inos -> 0 .. MaxVer] /\ disk'[node[n].ino] = latest[node[n].ino]
    /\ \A i \in Inos : i # node[n].ino => disk'[i] = disk[i]
    /\ UNCHANGED <<latest, held, want, todo, stranded>>

LEMMA DropInv ==
    ASSUME CacheInv, NEW t \in Threads, NEW n \in Nodes, Drop(t, n)
    PROVE  CacheInv'
  <1> USE InodeCacheAssumption DEF Drop
  <1>1. /\ node' \in [Nodes -> NodeType] /\ node'[n] = Unused
        /\ \A x \in Nodes : x # n => node'[x] = node[x]
    <2>1. Unused \in NodeType
      BY DEF Unused, NodeType
    <2> QED
      BY <2>1, NodeUpdate DEF CacheInv, TypeOK
  <1>2. /\ node'[n].ino = NoIno /\ node'[n].owner = NoThread
        /\ node'[n].ref_count = 0 /\ node'[n].reclaim_count = 0
    BY <1>1 DEF Unused
  <1>3. /\ work' \in [Threads -> Nodes \cup {NoNode}] /\ work'[t] = NoNode
        /\ pc' \in [Threads -> PCs] /\ pc'[t] = "run"
        /\ \A u \in Threads \ {t} : work'[u] = work[u] /\ pc'[u] = pc[u]
    BY DEF CacheInv, TypeOK, PCs
  <1>4. TypeOK'
    BY <1>1, <1>3 DEF CacheInv, TypeOK
  <1>5. \A u \in Threads : held[u] # n /\ work'[u] # n
    BY <1>3, CountZero
  <1>6. ASSUME NEW x \in Nodes PROVE Counted(x)'
    <2>1. CASE x # n
      BY <2>1, <1>1, <1>3, CountedFrame DEF CacheInv
    <2>2. CASE x = n
      <3>1. Holders(n)' = {} /\ Pending(n)' = {}
        BY <1>5 DEF Holders, Pending
      <3>2. Cardinality(Holders(n)') = 0 /\ Cardinality(Pending(n)') = 0
        BY <3>1, FS_EmptySet
      <3> QED
        BY <3>2, <2>2, <1>2 DEF Counted
    <2> QED
      BY <2>1, <2>2
  <1>7. NoUseAfterFree'
    BY <1>1, <1>5, <1>3 DEF CacheInv, NoUseAfterFree, Live, TypeOK
  <1>8. OneNodePerIno' /\ OwnersOK' /\ TodoOK'
    BY <1>1, <1>2, <1>3, <1>5 DEF CacheInv, OneNodePerIno, OwnersOK, TodoOK, Live, Writing, TypeOK
  <1>9. Control'
    BY <1>1, <1>2, <1>3, <1>5 DEF CacheInv, Control, Writing, TypeOK
  <1>10. Versions'
    <2>1. \A x \in Nodes : Live(x) /\ x # n => node[x].ino \in Inos /\ node[x].ino # node[n].ino
      BY DEF CacheInv, OneNodePerIno, Live, TypeOK, NodeType
    <2>2. \A x \in Nodes : Live(x)' <=> Live(x) /\ x # n
      BY <1>1, <1>2 DEF Live
    <2> QED
      BY <2>1, <2>2, <1>1, <1>2 DEF CacheInv, Versions
  <1> QED
    BY <1>4, <1>6, <1>7, <1>8, <1>9, <1>10 DEF CacheInv

(* The disk write of sfs_reclaim ends. *)
LEMMA ReclaimEndInv ==
    ASSUME CacheInv, NEW t \in Threads, NEW ok \in BOOLEAN, sfs_fsync_end(t, ok), pc[t] = "reclaim_write"
    PROVE  CacheInv'
  <1> USE InodeCacheAssumption
  <1>1. PICK n \in Nodes :
          /\ n = work[t]
          /\ disk' = IF ok THEN [disk EXCEPT ![node[n].ino] = node[n].ver] ELSE disk
          /\ node' = [node EXCEPT ![n] = IF ok THEN Unused ELSE Flushed(node[n], ok)]
          /\ stranded' = IF ok THEN stranded ELSE stranded \cup {n}
    <2>1. work[t] \in Nodes
      BY DEF CacheInv, Control, Writing, TypeOK
    <2> QED
      BY <2>1 DEF sfs_fsync_end
  <1>2. /\ work' = [work EXCEPT ![t] = NoNode] /\ fs_sem' = NoThread
        /\ pc' = [pc EXCEPT ![t] = "run"]
        /\ UNCHANGED <<latest, held, want, todo>>
    BY DEF sfs_fsync_end, Goto
  <1>3. /\ node[n].ref_count = 0 /\ node[n].reclaim_count = 0 /\ fs_sem = t
        /\ node[n].owner = t /\ Live(n) /\ node[n].ver = latest[node[n].ino]
    BY <1>1 DEF CacheInv, Control, OwnersOK, Writing, NoUseAfterFree, Versions
  <1>4. todo = {}
    BY <1>3 DEF CacheInv, TodoOK, Control
  <1>5. \A u \in Threads \ {t} : work[u] # n
    BY <1>1, <1>3, CountZero DEF CacheInv, Control, OwnersOK, Writing
  <1>6. node[n].ino \in Inos /\ node[n] \in NodeType
    BY <1>3 DEF CacheInv, TypeOK, NodeType, Live
  <1>7. CASE ok
    <2>1. /\ disk' \in [Inos -> 0 .. MaxVer] /\ disk'[node[n].ino] = latest[node[n].ino]
          /\ \A i \in Inos : i # node[n].ino => disk'[i] = disk[i]
      BY <1>1, <1>3, <1>6, <1>7 DEF CacheInv, TypeOK, NodeType
    <2>2. Drop(t, n)
      BY <2>1, <1>1, <1>2, <1>3, <1>4, <1>5, <1>7 DEF Drop
    <2> QED
      BY <2>2, DropInv
  <1>8. CASE ~ok
    <2>1. Flushed(node[n], FALSE) \in NodeType /\ ok = FALSE
      <3>1. 0 \in 0 .. MaxVer /\ FALSE \in BOOLEAN
        OBVIOUS
      <3> QED
        BY <3>1, <1>6, <1>8, UpdateFacts
    <2>2. /\ node' \in [Nodes -> NodeType] /\ node'[n] = Flushed(node[n], FALSE)
          /\ \A x \in Nodes : x # n => node'[x] = node[x]
      BY <2>1, <1>1, <1>8, NodeUpdate, ZenonT(40) DEF CacheInv, TypeOK
    <2>3. /\ node'[n].ino = node[n].ino /\ node'[n].ver = node[n].ver /\ node'[n].owner = NoThread
          /\ node'[n].dirty /\ node'[n].ref_count = node[n].ref_count
          /\ node'[n].reclaim_count = node[n].reclaim_count
      BY <1>6, <2>2 DEF Flushed, NodeType
    <2>4. /\ work' \in [Threads -> Nodes \cup {NoNode}] /\ work'[t] = NoNode
          /\ pc' \in [Threads -> PCs] /\ pc'[t] = "run"
          /\ \A u \in Threads \ {t} : work'[u] = work[u] /\ pc'[u] = pc[u]
      BY <1>2 DEF CacheInv, TypeOK, PCs
    <2>5. disk' = disk /\ stranded' \subseteq Nodes
      BY <1>1, <1>8 DEF CacheInv, TypeOK
    <2>6. TypeOK'
      BY <2>2, <2>4, <2>5, <1>2 DEF CacheInv, TypeOK
    <2>7. \A x \in Nodes : Counted(x)'
      BY <2>2, <2>3, <2>4, <1>2, CountedFrame DEF CacheInv
    <2>12. \A x \in Nodes : node'[x].ino = node[x].ino
      BY <2>2, <2>3
    <2>8. NoUseAfterFree' /\ OneNodePerIno'
      BY <2>12, <2>4, <1>2 DEF CacheInv, NoUseAfterFree, OneNodePerIno, Live, TypeOK
    <2>9. Control'
      <3>1. ASSUME NEW u \in Threads \ {t}, pc[u] = "reclaim_write"
            PROVE  node'[work[u]] = node[work[u]]
        BY <3>1, <2>2, <1>5 DEF CacheInv, Control, Writing, TypeOK
      <3> QED
        BY <3>1, <2>12, <2>4, <1>2, <1>3 DEF CacheInv, Control, Writing, TypeOK
    <2>10. OwnersOK' /\ TodoOK'
      <3>1. ASSUME NEW x \in Nodes, NEW u \in Threads
            PROVE  node'[x].owner = u <=> Writing(u)' /\ work'[u] = x
        <4>1. CASE x = n
          BY <4>1, <2>3, <2>4, <1>5 DEF Writing
        <4>2. CASE x # n
          BY <4>2, <2>2, <2>4, <1>1 DEF CacheInv, OwnersOK, Writing
        <4> QED
          BY <4>1, <4>2
      <3> QED
        BY <3>1, <1>2, <1>4 DEF OwnersOK, TodoOK
    <2>11. Versions'
      <3>1. \A x \in Nodes : Live(x)' <=> Live(x)
        BY <2>12 DEF Live
      <3>2. ASSUME NEW x \in Nodes, Live(x), x # n
            PROVE  /\ node'[x].ver = latest'[node'[x].ino]
                   /\ node'[x].dirty \/ node'[x].owner # NoThread
                      \/ disk'[node'[x].ino] = latest'[node'[x].ino]
        BY <3>2, <2>2, <2>5, <1>2 DEF CacheInv, Versions
      <3>3. \A j \in Inos : (\A x \in Nodes : node'[x].ino # j) => disk'[j] = latest'[j]
        BY <2>5, <2>12, <1>2 DEF CacheInv, Versions
      <3> QED
        BY <3>1, <3>2, <3>3, <2>3, <1>2, <1>3 DEF Versions
    <2> QED
      BY <2>6, <2>7, <2>8, <2>9, <2>10, <2>11 DEF CacheInv
  <1> QED
    BY <1>7, <1>8

(* sfs_sync begins, skips a clean node, or ends. *)
LEMMA SyncInv ==
    ASSUME CacheInv, NEW t \in Threads,
           \/ sfs_sync(t) \/ sfs_sync_end(t)
           \/ /\ pc[t] = "sync" /\ todo' \subseteq todo
              /\ UNCHANGED <<node, disk, latest, fs_sem, held, work, want, pc, stranded>>
    PROVE  CacheInv'
  <1> USE InodeCacheAssumption
  <1>1. UNCHANGED <<node, disk, latest, held, work, want, stranded>>
    BY DEF sfs_sync, sfs_sync_end
  <1>2. /\ fs_sem' \in Threads \cup {NoThread} /\ todo' \subseteq Nodes
        /\ pc' \in [Threads -> PCs] /\ pc[t] \in {"run", "sync"} /\ pc'[t] \in {"run", "sync"}
        /\ \A u \in Threads \ {t} : pc'[u] = pc[u]
        /\ \A n \in todo' : Live(n)
    BY DEF sfs_sync, sfs_sync_end, Goto, CacheInv, TypeOK, NoUseAfterFree, PCs
  <1>3. \A u \in Threads : (pc'[u] = "reclaim" <=> pc[u] = "reclaim") /\ (Writing(u)' <=> Writing(u))
    BY <1>2 DEF Writing
  <1>4. TypeOK'
    BY <1>1, <1>2 DEF CacheInv, TypeOK
  <1>5. \A x \in Nodes : Counted(x)'
    BY <1>1, <1>3, CountedFrame DEF CacheInv
  <1>6. NoUseAfterFree' /\ OwnersOK' /\ OneNodePerIno' /\ Versions'
    BY <1>1, <1>2, <1>3 DEF CacheInv, NoUseAfterFree, OwnersOK, OneNodePerIno, Versions, Live
  <1>7. Control' /\ TodoOK'
    <2>1. CASE sfs_sync(t)
      <3>1. fs_sem = NoThread /\ fs_sem' = t /\ pc[t] = "run" /\ pc'[t] = "sync"
        BY <2>1 DEF sfs_sync, Goto, CacheInv, TypeOK
      <3> QED
        BY <3>1, <1>1, <1>2, <1>3 DEF CacheInv, Control, TodoOK, Writing
    <2>2. CASE sfs_sync_end(t)
      <3>1. fs_sem' = NoThread /\ pc[t] = "sync" /\ pc'[t] = "run" /\ todo' = {}
        BY <2>2 DEF sfs_sync_end, Goto, CacheInv, TypeOK
      <3> QED
        BY <3>1, <1>1, <1>2, <1>3 DEF CacheInv, Control, TodoOK, Writing
    <2>3. CASE UNCHANGED <<pc, fs_sem>> /\ todo' \subseteq todo
      BY <2>3, <1>1 DEF CacheInv, Control, TodoOK, Writing
    <2> QED
      BY <2>1, <2>2, <2>3
  <1> QED
    BY <1>4, <1>5, <1>6, <1>7 DEF CacheInv

(* A reference is given back; the last one calls sfs_reclaim. *)
LEMMA RefDecInv ==
    ASSUME CacheInv, NEW t \in Threads, ref_dec(t)
    PROVE  CacheInv'
  <1> USE InodeCacheAssumption
  <1>1. PICK n \in Nodes :
          /\ n = held[t] /\ pc[t] = "run" /\ node' = [node EXCEPT ![n] = Dropped(node[n])]
          /\ IF node[n].ref_count = 1
             THEN pc' = [pc EXCEPT ![t] = "reclaim"] /\ work' = [work EXCEPT ![t] = n]
             ELSE UNCHANGED <<pc, work>>
          /\ held' = [held EXCEPT ![t] = NoNode]
          /\ UNCHANGED <<disk, latest, fs_sem, want, todo, stranded>>
    BY DEF ref_dec, Goto, CacheInv, TypeOK
  <1>2. node[n] \in NodeType /\ node[n].ref_count \in Nat /\ node[n].ref_count # 0 /\ Live(n)
    BY <1>1, CountZero DEF CacheInv, TypeOK, NodeType, NoUseAfterFree
  <1>3. Dropped(node[n]) \in NodeType
    <2>1. 0 \in 0 .. MaxVer /\ FALSE \in BOOLEAN
      OBVIOUS
    <2> QED
      BY <2>1, <1>2, UpdateFacts
  <1>4. /\ node' \in [Nodes -> NodeType] /\ node'[n] = Dropped(node[n])
        /\ \A x \in Nodes : x # n => node'[x] = node[x]
    BY <1>1, <1>3, NodeUpdate DEF CacheInv, TypeOK
  <1>5. /\ node'[n].ino = node[n].ino /\ node'[n].ver = node[n].ver /\ node'[n].dirty = node[n].dirty
        /\ node'[n].owner = node[n].owner /\ node'[n].ref_count = node[n].ref_count - 1
        /\ node'[n].reclaim_count = node[n].reclaim_count
    BY <1>2, <1>4 DEF Dropped, NodeType
  <1>6. /\ held' \in [Threads -> Nodes \cup {NoNode}] /\ held'[t] = NoNode
        /\ \A u \in Threads \ {t} : held'[u] = held[u]
    BY <1>1 DEF CacheInv, TypeOK
  <1>7. /\ work' \in [Threads -> Nodes \cup {NoNode}] /\ pc' \in [Threads -> PCs]
        /\ \A u \in Threads \ {t} : work'[u] = work[u] /\ pc'[u] = pc[u]
        /\ IF node[n].ref_count = 1 THEN pc'[t] = "reclaim" /\ work'[t] = n
                                    ELSE pc'[t] = "run" /\ work'[t] = work[t]
    BY <1>1 DEF CacheInv, TypeOK, PCs
  <1>8. TypeOK'
    BY <1>1, <1>4, <1>6, <1>7 DEF CacheInv, TypeOK
  <1>9. ASSUME NEW x \in Nodes PROVE Counted(x)'
    <2>1. CASE x # n
      BY <2>1, <1>1, <1>4, <1>6, <1>7, CountedFrame DEF CacheInv
    <2>2. CASE x = n
      <3>1. Cardinality(Holders(n)') = Cardinality(Holders(n)) - 1
        <4>1. Holders(n)' = Holders(n) \ {t} /\ t \in Holders(n)
          BY <1>1, <1>6 DEF Holders
        <4> QED
          BY <4>1, CountFacts, FS_RemoveElement, ZenonT(40)
      <3>2. CASE node[n].ref_count = 1
        <4>1. Pending(n)' = Pending(n) \cup {t} /\ t \notin Pending(n)
          BY <3>2, <1>1, <1>7 DEF Pending
        <4>2. Cardinality(Pending(n)') = Cardinality(Pending(n)) + 1
          BY <4>1, CountFacts, FS_AddElement
        <4> QED
          BY <4>2, <3>1, <3>2, <2>2, <1>5, CountFacts DEF CacheInv, Counted
      <3>3. CASE node[n].ref_count # 1
        <4>1. Pending(n)' = Pending(n)
          BY <3>3, <1>1 DEF Pending
        <4> QED
          BY <4>1, <3>1, <3>3, <2>2, <1>2, <1>5, CountFacts DEF CacheInv, Counted
      <3> QED
        BY <3>2, <3>3
    <2> QED
      BY <2>1, <2>2
  <1>10. \A x \in Nodes : /\ node'[x].ino = node[x].ino /\ node'[x].ver = node[x].ver
                          /\ node'[x].dirty = node[x].dirty /\ node'[x].owner = node[x].owner
    BY <1>4, <1>5
  <1>11. NoUseAfterFree'
    BY <1>1, <1>2, <1>6, <1>7, <1>10 DEF CacheInv, NoUseAfterFree, Live, TypeOK
  <1>12. work[t] = NoNode /\ fs_sem # t
    BY <1>1 DEF CacheInv, Control, Writing
  <1>13. Control'
    <2>1. ASSUME NEW u \in Threads, pc[u] = "reclaim_write" PROVE node'[work[u]] = node[work[u]]
      BY <2>1, <1>2, <1>4 DEF CacheInv, Control, Writing, TypeOK
    <2> QED
      BY <2>1, <1>1, <1>6, <1>7, <1>10, <1>12 DEF CacheInv, Control, Writing, TypeOK
  <1>14. OwnersOK' /\ TodoOK'
    BY <1>1, <1>7, <1>10, <1>12 DEF CacheInv, OwnersOK, TodoOK, Writing
  <1>15. OneNodePerIno' /\ Versions'
    BY <1>1, <1>10 DEF CacheInv, OneNodePerIno, Versions, Live, TypeOK
  <1> QED
    BY <1>8, <1>9, <1>11, <1>13, <1>14, <1>15 DEF CacheInv

(* sfs_reclaim: too early, at once, or after the disk write. *)
LEMMA ReclaimInv ==
    ASSUME CacheInv, NEW t \in Threads, sfs_reclaim(t)
    PROVE  CacheInv'
  <1> USE InodeCacheAssumption
  <1>1. PICK n \in Nodes :
          /\ n = work[t] /\ pc[t] = "reclaim" /\ fs_sem = NoThread
          /\ UNCHANGED <<disk, latest, held, want, todo, stranded>>
    BY DEF sfs_reclaim, CacheInv, Control, TypeOK
  <1>2. node[n] \in NodeType /\ Live(n) /\ todo = {}
    BY <1>1 DEF CacheInv, TypeOK, NoUseAfterFree, TodoOK, Control
  <1>3. /\ node[n].ref_count \in Nat /\ node[n].reclaim_count \in Nat
        /\ node[n].ino \in Inos
    BY <1>2 DEF NodeType, Live
  <1>4. t \in Pending(n) /\ Counted(n) /\ node[n].reclaim_count > 0
    <2>1. t \in Pending(n)
      BY <1>1 DEF Pending
    <2> QED
      BY <2>1, <1>3, CountFacts DEF CacheInv, Counted
  <1>5. Reclaiming(node[n]) \in NodeType /\ \A r \in NodeType : Claimed(r, t) \in NodeType
    <2>1. 0 \in 0 .. MaxVer /\ FALSE \in BOOLEAN
      OBVIOUS
    <2> QED
      BY <2>1, <1>2, <1>4, UpdateFacts
  <1>6. /\ Reclaiming(node[n]).ino = node[n].ino /\ Reclaiming(node[n]).ver = node[n].ver
        /\ Reclaiming(node[n]).dirty = node[n].dirty /\ Reclaiming(node[n]).owner = node[n].owner
        /\ Reclaiming(node[n]).ref_count = node[n].ref_count
        /\ Reclaiming(node[n]).reclaim_count = node[n].reclaim_count - 1
    BY <1>2 DEF Reclaiming, NodeType
  <1>7. CASE ~MustReclaim(node[n])
    <2>1. /\ node' = [node EXCEPT ![n] = Reclaiming(node[n])] /\ work' = [work EXCEPT ![t] = NoNode]
          /\ pc' = [pc EXCEPT ![t] = "run"] /\ fs_sem' = fs_sem
      BY <1>1, <1>7 DEF sfs_reclaim, Goto
    <2>2. /\ node' \in [Nodes -> NodeType] /\ node'[n] = Reclaiming(node[n])
          /\ \A x \in Nodes : x # n => node'[x] = node[x]
      BY <2>1, <1>5, NodeUpdate DEF CacheInv, TypeOK
    <2>3. /\ work' \in [Threads -> Nodes \cup {NoNode}] /\ work'[t] = NoNode
          /\ pc' \in [Threads -> PCs] /\ pc'[t] = "run"
          /\ \A u \in Threads \ {t} : work'[u] = work[u] /\ pc'[u] = pc[u]
      BY <2>1 DEF CacheInv, TypeOK, PCs
    <2>4. TypeOK'
      BY <2>1, <2>2, <2>3, <1>1 DEF CacheInv, TypeOK
    <2>5. ASSUME NEW x \in Nodes PROVE Counted(x)'
      <3>1. CASE x # n
        BY <3>1, <2>2, <2>3, <1>1, CountedFrame DEF CacheInv
      <3>2. CASE x = n
        <4>1. Cardinality(Pending(n)') = Cardinality(Pending(n)) - 1
          BY <2>3, <1>1, PendingLess
        <4>2. Holders(n)' = Holders(n)
          BY <1>1 DEF Holders
        <4> QED
          BY <4>1, <4>2, <3>2, <2>2, <1>4, <1>6, CountFacts DEF Counted
      <3> QED
        BY <3>1, <3>2
    <2>6. \A x \in Nodes : /\ node'[x].ino = node[x].ino /\ node'[x].ver = node[x].ver
                           /\ node'[x].dirty = node[x].dirty /\ node'[x].owner = node[x].owner
      BY <2>2, <1>6
    <2>7. NoUseAfterFree' /\ OneNodePerIno'
      BY <2>3, <2>6, <1>1 DEF CacheInv, NoUseAfterFree, OneNodePerIno, Live, TypeOK
    <2>8. Control'
      BY <2>1, <2>3, <2>6, <1>1 DEF CacheInv, Control, Writing, TypeOK
    <2>9. OwnersOK' /\ TodoOK'
      BY <2>3, <2>6, <1>1, <1>2 DEF CacheInv, OwnersOK, TodoOK, Writing, TypeOK
    <2>10. Versions'
      BY <2>6, <1>1 DEF CacheInv, Versions, Live, TypeOK
    <2> QED
      BY <2>4, <2>5, <2>7, <2>8, <2>9, <2>10 DEF CacheInv
  <1>8. ASSUME MustReclaim(node[n])
        PROVE  /\ node[n].ref_count = 0 /\ node[n].reclaim_count = 1
               /\ \A u \in Threads \ {t} : work[u] # n
               /\ node[n].owner = NoThread
    <2>1. node[n].ref_count = 0 /\ node[n].reclaim_count = 1
      BY <1>8 DEF MustReclaim
    <2>2. Pending(n) = {t}
      <3>1. Cardinality(Pending(n)) = 1
        BY <2>1, <1>4, CountFacts DEF Counted
      <3>2. \E x : Pending(n) = {x}
        BY <3>1, CountFacts, FS_Singleton
      <3> QED
        BY <3>2, <1>4
    <2>3. \A u \in Threads : held[u] # n
      BY <2>1, CountZero
    <2>4. ASSUME NEW u \in Threads \ {t}, work[u] = n PROVE FALSE
      <3>1. pc[u] # "reclaim"
        BY <2>2, <2>4 DEF Pending
      <3>2. pc[u] = "fsync"
        BY <3>1, <2>4, <1>1 DEF CacheInv, Control, Writing
      <3> QED
        BY <3>2, <2>3, <2>4 DEF CacheInv, Control
    <2>5. node[n].owner = NoThread
      BY <2>4, <1>1, <1>2 DEF CacheInv, OwnersOK, Writing, NodeType
    <2> QED
      BY <2>1, <2>4, <2>5
  <1>9. CASE MustReclaim(node[n]) /\ ~NeedsFlush(node[n])
    <2>1. /\ node' = [node EXCEPT ![n] = Unused] /\ work' = [work EXCEPT ![t] = NoNode]
          /\ pc' = [pc EXCEPT ![t] = "run"] /\ fs_sem' = fs_sem
      BY <1>1, <1>9 DEF sfs_reclaim, Goto
    <2>2. disk[node[n].ino] = latest[node[n].ino]
      BY <1>2, <1>8, <1>9 DEF CacheInv, Versions, NeedsFlush
    <2>3. /\ disk' \in [Inos -> 0 .. MaxVer] /\ disk'[node[n].ino] = latest[node[n].ino]
          /\ \A i \in Inos : i # node[n].ino => disk'[i] = disk[i]
      BY <2>2, <1>1 DEF CacheInv, TypeOK
    <2>4. node[n].ref_count = 0 /\ \A u \in Threads \ {t} : work[u] # n
      BY <1>8, <1>9
    <2>5. fs_sem \in {t, NoThread} /\ fs_sem' = NoThread
      BY <2>1, <1>1
    <2> QED
      <3>1. pc[t] \in {"reclaim", "reclaim_write"} /\ work[t] = n /\ todo = {}
        BY <1>1, <1>2
      <3>2. UNCHANGED <<latest, held, want, todo, stranded>>
        BY <1>1
      <3>3. Drop(t, n)
        BY <2>1, <2>3, <2>4, <2>5, <3>1, <3>2 DEF Drop
      <3> QED
        BY <3>3, DropInv
  <1>10. CASE MustReclaim(node[n]) /\ NeedsFlush(node[n])
    <2>1. /\ node' = [node EXCEPT ![n] = Claimed(Reclaiming(node[n]), t)] /\ work' = work
          /\ pc' = [pc EXCEPT ![t] = "reclaim_write"] /\ fs_sem' = t
      BY <1>1, <1>10 DEF sfs_reclaim, Goto
    <2>2. /\ node' \in [Nodes -> NodeType] /\ node'[n] = Claimed(Reclaiming(node[n]), t)
          /\ \A x \in Nodes : x # n => node'[x] = node[x]
      BY <2>1, <1>5, NodeUpdate DEF CacheInv, TypeOK
    <2>3. /\ node'[n].ino = node[n].ino /\ node'[n].ver = node[n].ver /\ node'[n].owner = t
          /\ node'[n].ref_count = 0 /\ node'[n].reclaim_count = 0
      <3>1. PICK r \in NodeType : r = Reclaiming(node[n])
        BY <1>5
      <3>2. /\ Claimed(r, t).ino = r.ino /\ Claimed(r, t).ver = r.ver /\ Claimed(r, t).owner = t
            /\ Claimed(r, t).ref_count = r.ref_count /\ Claimed(r, t).reclaim_count = r.reclaim_count
        BY DEF Claimed, NodeType
      <3> QED
        BY <3>1, <3>2, <2>2, <1>6, <1>8, <1>10
    <2>4. /\ pc' \in [Threads -> PCs] /\ pc'[t] = "reclaim_write"
          /\ \A u \in Threads \ {t} : work'[u] = work[u] /\ pc'[u] = pc[u]
      BY <2>1 DEF CacheInv, TypeOK, PCs
    <2>5. TypeOK'
      BY <2>1, <2>2, <2>4, <1>1 DEF CacheInv, TypeOK
    <2>6. ASSUME NEW x \in Nodes PROVE Counted(x)'
      <3>1. CASE x # n
        BY <3>1, <2>1, <2>2, <2>4, <1>1, CountedFrame DEF CacheInv
      <3>2. CASE x = n
        <4>1. Cardinality(Pending(n)') = Cardinality(Pending(n)) - 1
          BY <2>4, <1>1, PendingLess
        <4>2. Holders(n)' = Holders(n)
          BY <1>1 DEF Holders
        <4> QED
          BY <4>1, <4>2, <3>2, <2>3, <1>4, <1>8, <1>10, CountFacts DEF Counted
      <3> QED
        BY <3>1, <3>2
    <2>7. \A x \in Nodes : node'[x].ino = node[x].ino /\ node'[x].ver = node[x].ver
      BY <2>2, <2>3
    <2>8. NoUseAfterFree' /\ OneNodePerIno'
      BY <2>1, <2>7, <1>1 DEF CacheInv, NoUseAfterFree, OneNodePerIno, Live, TypeOK
    <2>9. Control'
      BY <2>1, <2>3, <2>4, <2>7, <1>1 DEF CacheInv, Control, Writing, TypeOK
    <2>10. OwnersOK' /\ TodoOK'
      BY <2>1, <2>2, <2>3, <2>4, <1>1, <1>2, <1>8, <1>10 DEF CacheInv, OwnersOK, TodoOK, Writing, TypeOK
    <2>11. Versions'
      BY <2>2, <2>3, <2>7, <1>1 DEF CacheInv, Versions, Live, TypeOK
    <2> QED
      BY <2>5, <2>6, <2>8, <2>9, <2>10, <2>11 DEF CacheInv
  <1> QED
    BY <1>7, <1>9, <1>10

---------------------------------------------------------------------------
LEMMA CacheNextInv == CacheInv /\ [CacheNext]_cachevars => CacheInv'
  <1> SUFFICES ASSUME CacheInv, [CacheNext]_cachevars PROVE CacheInv'
    OBVIOUS
  <1>1. CASE UNCHANGED cachevars
    <2>1. TypeOK'
      BY <1>1 DEF cachevars, CacheInv, TypeOK
    <2>2. \A n \in Nodes : Counted(n)'
      BY <1>1, CountedFrame DEF cachevars, CacheInv
    <2>3. NoUseAfterFree' /\ Control' /\ OwnersOK' /\ TodoOK' /\ OneNodePerIno' /\ Versions'
      BY <1>1 DEF cachevars, CacheInv, NoUseAfterFree, Control, OwnersOK, TodoOK, OneNodePerIno, Versions,
                  Live, Writing
    <2> QED
      BY <2>1, <2>2, <2>3 DEF CacheInv
  <1>2. ASSUME NEW t \in Threads, sfs_fsync(t) PROVE CacheInv'
    <2>1. held[t] \in Nodes /\ pc[t] = "run" /\ FlushBegin(t, held[t], "fsync")
          /\ UNCHANGED <<disk, latest, fs_sem, held, want, todo, stranded>>
      BY <1>2 DEF sfs_fsync, CacheInv, TypeOK
    <2>2. work[t] = NoNode
      BY <2>1 DEF CacheInv, Control, Writing
    <2> QED
      BY <2>1, <2>2, FlushBeginInv
  <1>3. ASSUME NEW t \in Threads, sfs_sync_node(t) PROVE CacheInv'
    <2>1. PICK n \in todo : /\ pc[t] = "sync" /\ todo' = todo \ {n}
                            /\ UNCHANGED <<disk, latest, fs_sem, held, want, stranded>>
                            /\ \/ FlushBegin(t, n, "sync_write")
                               \/ UNCHANGED <<node, work, pc>>
      BY <1>3 DEF sfs_sync_node
    <2>2. n \in Nodes /\ work[t] = NoNode /\ todo' \subseteq todo
      BY <2>1 DEF CacheInv, TypeOK, Control, Writing
    <2> QED
      BY <2>1, <2>2, FlushBeginInv, SyncInv
  <1>4. ASSUME NEW t \in Threads, NEW ok \in BOOLEAN, sfs_fsync_end(t, ok) PROVE CacheInv'
    BY <1>4, FlushEndInv, ReclaimEndInv
  <1>5. ASSUME NEW t \in Threads, Finish(t) PROVE CacheInv'
    BY <1>3, <1>4, <1>5, LoadDoneInv, LoadMissInv, SyncInv, ReclaimInv DEF Finish
  <1> QED
    BY <1>1, <1>2, <1>5, LoadHitInv, LoadMissInv, RefIncInv, ModifyInv, SyncInv, RefDecInv DEF CacheNext

(* The invariant holds always. *)
THEOREM CacheInvariance == CacheSpec => []CacheInv
  BY CacheInitInv, CacheNextInv, PTL DEF CacheSpec

(* No thread ever uses a freed inode: a reclaim that lost the race for fs_sem
   against sfs_load_inode finds the new reference, and of several reclaims of
   one node only the last frees it. *)
THEOREM NoUseAfterFreeCorrect == CacheSpec => []NoUseAfterFree
  <1>1. CacheInv => NoUseAfterFree
    BY DEF CacheInv
  <1> QED
    BY <1>1, CacheInvariance, PTL

(* ref_count and reclaim_count of every inode count the references and the
   calls of sfs_reclaim that are to come: the asserts of inode.c and of
   sfs_reclaim hold. *)
THEOREM ReclaimCountCorrect == CacheSpec => []ReclaimCount
  <1>1. CacheInv => ReclaimCount
    BY DEF CacheInv, ReclaimCount, Counted, Holders, Pending
  <1> QED
    BY <1>1, CacheInvariance, PTL

(* No modification is lost, and no file has two inodes, whatever fails. *)
THEOREM NoLostUpdateCorrect == CacheSpec => []NoLostUpdate
  <1>1. ASSUME CacheInv PROVE NoLostUpdate
    <2>1. ASSUME NEW i \in Inos, NEW n \in Nodes, node[n].ino = i
          PROVE  /\ node[n].ver = latest[i]
                 /\ node[n].dirty \/ node[n].owner # NoThread \/ disk[i] = latest[i]
      BY <1>1, <2>1, InodeCacheAssumption DEF CacheInv, Versions, Live
    <2>2. \A i \in Inos : (\A n \in Nodes : node[n].ino # i) => disk[i] = latest[i]
      BY <1>1 DEF CacheInv, Versions
    <2> QED
      BY <1>1, <2>1, <2>2 DEF CacheInv, NoLostUpdate
  <1> QED
    BY <1>1, CacheInvariance, PTL

============================================================================
