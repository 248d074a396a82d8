-------------------------- MODULE FileTableProofs --------------------------
(***************************************************************************)
(* The open file tables, for every number of processes, tables,            *)
(* descriptors and inodes, through open, close, dup, fork, exec and exit.  *)
(* Every descriptor and current directory keeps its inode alive, whatever  *)
(* happens.  Every process has a table of its own in every behaviour       *)
(* without the step StaleRelease, and the open counts are exact in every   *)
(* behaviour without that step and without MissingCall.                    *)
(***************************************************************************)
EXTENDS FileTable, FiniteSetTheorems, TLAPS

FileTables == [files_count : 0 .. 1, pwd : Nodes \cup {NoNode}, fd_array : [Fds -> FileStates]]

---------------------------------------------------------------------------
(* Counting.                                                               *)

UseSet(arr, n) == {d \in Fds : Opened(arr, d) /\ arr[d].node = n}

Pwds(n) == {f \in Tables : table[f].pwd = n}

(* The descriptors of one array are finitely many. *)
LEMMA UsesFacts ==
    ASSUME NEW arr, NEW n
    PROVE  /\ IsFiniteSet(UseSet(arr, n))
           /\ Uses(arr, n) = Cardinality(UseSet(arr, n)) /\ Uses(arr, n) \in Nat
  <1>1. IsFiniteSet(Fds)
    BY FileTableAssumption, FS_Interval DEF Fds
  <1>2. IsFiniteSet(UseSet(arr, n))
    BY <1>1, FS_Subset DEF UseSet
  <1>3. Uses(arr, n) = Cardinality(UseSet(arr, n))
    BY DEF Uses, UseSet
  <1> QED
    BY <1>2, <1>3, FS_CardinalityType

(* So are all descriptors, and the current directories. *)
LEMMA CountFacts ==
    ASSUME NEW n
    PROVE  /\ IsFiniteSet(Descriptors(n)) /\ Cardinality(Descriptors(n)) \in Nat
           /\ IsFiniteSet(Pwds(n)) /\ Cardinality(Pwds(n)) \in Nat
  <1>1. IsFiniteSet(Fds) /\ IsFiniteSet(Tables)
    BY FileTableAssumption, FS_Interval DEF Fds
  <1>2. IsFiniteSet(Tables \X Fds)
    BY <1>1, FS_Product
  <1>3. Descriptors(n) \subseteq Tables \X Fds
    BY DEF Descriptors
  <1>4. Pwds(n) \subseteq Tables
    BY DEF Pwds
  <1>5. IsFiniteSet(Descriptors(n)) /\ IsFiniteSet(Pwds(n))
    BY <1>1, <1>2, <1>3, <1>4, FS_Subset
  <1> QED
    BY <1>5, FS_CardinalityType

CountsOK == \A n \in Nodes : Cardinality(Descriptors(n)) \in Nat /\ Cardinality(Pwds(n)) \in Nat

(* The same as a state predicate, which holds after a step as well. *)
LEMMA CountNats == CountsOK
  BY CountFacts DEF CountsOK

(* The descriptors of one table among those of all. *)
LEMMA SplitCount ==
    ASSUME NEW f \in Tables, NEW n, NEW R, NEW arr, IsFiniteSet(R),
           \A e \in R : e \in (Tables \ {f}) \X Fds
    PROVE  LET All == R \cup ({f} \X UseSet(arr, n))
           IN  IsFiniteSet(All) /\ Cardinality(All) = Cardinality(R) + Uses(arr, n)
  <1>1. PICK U : U = UseSet(arr, n)
    OBVIOUS
  <1>2. IsFiniteSet(U) /\ Uses(arr, n) = Cardinality(U) /\ Cardinality(U) \in Nat
    BY <1>1, UsesFacts
  <1>3. IsFiniteSet({f}) /\ Cardinality({f}) = 1
    BY FS_Singleton
  <1>4. /\ IsFiniteSet({f} \X U) /\ Cardinality({f} \X U) = Cardinality({f}) * Cardinality(U)
    BY <1>2, <1>3, FS_Product
  <1>5. R \cap ({f} \X U) = {}
    OBVIOUS
  <1>6. /\ IsFiniteSet(R \cup ({f} \X U))
        /\ Cardinality(R \cup ({f} \X U))
             = Cardinality(R) + Cardinality({f} \X U) - Cardinality(R \cap ({f} \X U))
    BY <1>4, FS_Union
  <1>7. Cardinality({}) = 0 /\ Cardinality(R) \in Nat
    BY FS_EmptySet, FS_CardinalityType
  <1>8. Cardinality({f} \X U) = Cardinality(U)
    BY <1>2, <1>3, <1>4
  <1>9. Cardinality(R \cup ({f} \X U)) = Cardinality(R) + Cardinality(U)
    <2>1. Cardinality(R \cap ({f} \X U)) = 0
      BY <1>5, <1>7
    <2> QED
      BY <1>2, <1>6, <1>7, <1>8, <2>1
  <1> QED
    BY <1>1, <1>2, <1>6, <1>9

(* The numbers of descriptors and of current directories when table f becomes new. *)
Recount(f, new, n) ==
    /\ Cardinality(Descriptors(n)')
         = Cardinality(Descriptors(n)) - (Uses(table[f].fd_array, n) - Uses(new.fd_array, n))
    /\ Cardinality(Pwds(n)')
         = Cardinality(Pwds(n)) - (IF table[f].pwd = n THEN 1 ELSE 0) + (IF new.pwd = n THEN 1 ELSE 0)

(* One table is replaced: what that does to the numbers of descriptors and of
   current directories. *)
LEMMA ReplaceCount ==
    ASSUME DOMAIN table = Tables, NEW f \in Tables, NEW new,
           table' = [table EXCEPT ![f] = new], NEW n
    PROVE  Recount(f, new, n)
  <1>1. PICK R : R = {e \in Descriptors(n) : e[1] # f}
    OBVIOUS
  <1>2. IsFiniteSet(R) /\ Cardinality(R) \in Nat
    BY <1>1, CountFacts, FS_Subset, FS_CardinalityType
  <1>3. \A e \in R : e \in (Tables \ {f}) \X Fds
    BY <1>1 DEF Descriptors
  <1>4. PICK a : a = table[f].fd_array
    OBVIOUS
  <1>5. Descriptors(n) = R \cup ({f} \X UseSet(a, n))
    BY <1>1, <1>4 DEF Descriptors, UseSet
  <1>6. table'[f] = new /\ \A g \in Tables \ {f} : table'[g] = table[g]
    OBVIOUS
  <1>7. Descriptors(n)' = R \cup ({f} \X UseSet(new.fd_array, n))
    <2>1. ASSUME NEW g \in Tables, NEW d \in Fds
          PROVE  <<g, d>> \in Descriptors(n)' <=> <<g, d>> \in R \cup ({f} \X UseSet(new.fd_array, n))
      <3>1. CASE g = f
        BY <3>1, <1>3, <1>6 DEF Descriptors, UseSet
      <3>2. CASE g # f
        BY <3>2, <1>1, <1>6 DEF Descriptors, UseSet
      <3> QED
        BY <3>1, <3>2
    <2>2. \A e \in Descriptors(n)' : e \in Tables \X Fds
      BY DEF Descriptors
    <2>3. \A e \in R \cup ({f} \X UseSet(new.fd_array, n)) : e \in Tables \X Fds
      BY <1>3 DEF UseSet
    <2> QED
      BY <2>1, <2>2, <2>3
  <1>8. Cardinality(Descriptors(n)) = Cardinality(R) + Uses(a, n)
    BY <1>2, <1>3, <1>5, SplitCount
  <1>9. Cardinality(Descriptors(n)') = Cardinality(R) + Uses(new.fd_array, n)
    BY <1>2, <1>3, <1>7, SplitCount
  <1>10. Uses(a, n) \in Nat /\ Uses(new.fd_array, n) \in Nat
    BY UsesFacts
  <1>11. PICK Q : Q = Pwds(n) \ {f}
    OBVIOUS
  <1>12. IsFiniteSet(Q) /\ Cardinality(Q) \in Nat /\ f \notin Q
    BY <1>11, CountFacts, FS_Subset, FS_CardinalityType
  <1>13. Pwds(n) = (IF table[f].pwd = n THEN Q \cup {f} ELSE Q)
    BY <1>11 DEF Pwds
  <1>14. Pwds(n)' = (IF new.pwd = n THEN Q \cup {f} ELSE Q)
    BY <1>6, <1>11 DEF Pwds
  <1>15. Cardinality(Q \cup {f}) = Cardinality(Q) + 1
    BY <1>12, FS_AddElement
  <1>16. Cardinality(Pwds(n)) = Cardinality(Q) + (IF table[f].pwd = n THEN 1 ELSE 0)
    BY <1>12, <1>13, <1>15
  <1>17. Cardinality(Pwds(n)') = Cardinality(Q) + (IF new.pwd = n THEN 1 ELSE 0)
    BY <1>12, <1>14, <1>15
  <1> QED
    BY <1>2, <1>4, <1>8, <1>9, <1>10, <1>12, <1>16, <1>17 DEF Recount

FdDelta(a, d, r, n) ==
    Uses([a EXCEPT ![d] = r], n)
      = Uses(a, n) - (IF Opened(a, d) /\ a[d].node = n THEN 1 ELSE 0)
                   + (IF r.status = "OPENED" /\ r.node = n THEN 1 ELSE 0)

(* One descriptor changes from or to an open one. *)
LEMMA UsesChange ==
    ASSUME NEW a, DOMAIN a = Fds, NEW d \in Fds, NEW r, NEW n
    PROVE  FdDelta(a, d, r, n)
  <1>1. PICK b : b = [a EXCEPT ![d] = r]
    OBVIOUS
  <1>2. PICK Q : Q = UseSet(a, n) \ {d}
    OBVIOUS
  <1>3. IsFiniteSet(Q) /\ Cardinality(Q) \in Nat /\ d \notin Q
    BY <1>2, UsesFacts, FS_Subset, FS_CardinalityType
  <1>4. UseSet(a, n) = (IF Opened(a, d) /\ a[d].node = n THEN Q \cup {d} ELSE Q)
    BY <1>2 DEF UseSet
  <1>5. UseSet(b, n) = (IF r.status = "OPENED" /\ r.node = n THEN Q \cup {d} ELSE Q)
    BY <1>1, <1>2 DEF UseSet, Opened
  <1>6. Cardinality(Q \cup {d}) = Cardinality(Q) + 1
    BY <1>3, FS_AddElement
  <1>7. Uses(a, n) = Cardinality(UseSet(a, n)) /\ Uses(b, n) = Cardinality(UseSet(b, n))
    BY UsesFacts
  <1> QED
    BY <1>1, <1>3, <1>4, <1>5, <1>6, <1>7 DEF FdDelta

---------------------------------------------------------------------------
(* References, whatever becomes of the tables.  A stale filesp lets a fork *)
(* that fails give back the table of another process, which then works on  *)
(* with a table that is free, and may be allocated again: its counts and   *)
(* those of its descriptors can take any value.                            *)

AnyFile == [status : {"NONE", "OPENED"}, node : Nodes \cup {NoNode}, acc : {"R", "W", "RW"},
            open_count : Int]

AnyTable == [files_count : Int, pwd : Nodes \cup {NoNode}, fd_array : [Fds -> AnyFile]]

(* Open descriptors lead to inodes. *)
LeadsToNodes(new) ==
    /\ new \in AnyTable
    /\ \A d \in Fds : Opened(new.fd_array, d) => new.fd_array[d].node \in Nodes

(* The types of what is not in the tables; a live process has a table. *)
ProcTypes ==
    /\ state \in [Procs -> {"none", "run", "vop", "zombie"}]
    /\ filesp \in [Procs -> Tables \cup {NoTable}]
    /\ using \in [Procs -> Fds \cup {-1}]
    /\ panicked \in BOOLEAN
    /\ \A p \in Procs : /\ Alive(p) => filesp[p] \in Tables
                        /\ state[p] = "vop" => using[p] \in Fds

(* What every step keeps, also one that takes away a table. *)
RefsInv ==
    /\ ProcTypes
    /\ table \in [Tables -> AnyTable] /\ \A f \in Tables : LeadsToNodes(table[f])
    /\ ref_count \in [Nodes -> Int]
    /\ RefsEnough

(* Table f becomes new, and the references follow; some may be left over. *)
RefsFollow(f, new) ==
    /\ table' = [table EXCEPT ![f] = new]
    /\ ref_count' \in [Nodes -> Int]
    /\ \A n \in Nodes :
          ref_count'[n] >= ref_count[n] - (Uses(table[f].fd_array, n) - Uses(new.fd_array, n))
                              - (IF table[f].pwd = n THEN 1 ELSE 0) + (IF new.pwd = n THEN 1 ELSE 0)

(* An inode has references enough when a table is replaced. *)
LEMMA RefsCount ==
    ASSUME DOMAIN table = Tables, ref_count \in [Nodes -> Int], RefsEnough,
           NEW f \in Tables, NEW new, RefsFollow(f, new)
    PROVE  RefsEnough'
  <1> SUFFICES ASSUME NEW n \in Nodes PROVE ref_count'[n] >= Owners(n)'
    BY DEF RefsEnough
  <1>1. Recount(f, new, n)
    BY ReplaceCount DEF RefsFollow
  <1>2. PICK a : a = table[f].fd_array
    OBVIOUS
  <1>3. PICK u \in Nat : u = Uses(a, n)
    BY UsesFacts
  <1>4. PICK v \in Nat : v = Uses(new.fd_array, n)
    BY UsesFacts
  <1>5. PICK i \in {0, 1} : i = IF table[f].pwd = n THEN 1 ELSE 0
    OBVIOUS
  <1>6. PICK j \in {0, 1} : j = IF new.pwd = n THEN 1 ELSE 0
    OBVIOUS
  <1>7. PICK c \in Nat : c = Cardinality(Descriptors(n))
    BY CountFacts
  <1>8. PICK e \in Nat : e = Cardinality(Pwds(n))
    BY CountFacts
  <1>9. PICK b \in Nat : b = Base(n)
    BY DEF Base
  <1>10. PICK x \in Int : x = ref_count[n]
    OBVIOUS
  <1>11. PICK y \in Int : y = ref_count'[n]
    BY DEF RefsFollow
  <1>12. x >= c + e + b
    BY <1>7, <1>8, <1>9, <1>10 DEF RefsEnough, Owners, Pwds
  <1>13. y >= x - (u - v) - i + j
    BY <1>2, <1>3, <1>4, <1>5, <1>6, <1>10, <1>11 DEF RefsFollow
  <1>14. Cardinality(Descriptors(n)') = c - (u - v) /\ Cardinality(Pwds(n)') = e - i + j
    BY <1>1, <1>2, <1>3, <1>4, <1>5, <1>6, <1>7, <1>8 DEF Recount
  <1>15. Owners(n)' = Cardinality(Descriptors(n)') + Cardinality(Pwds(n)') + b
    BY <1>9 DEF Owners, Pwds, Base
  <1> QED
    BY <1>11, <1>12, <1>13, <1>14, <1>15

(* One table is replaced. *)
LEMMA RefsStep ==
    ASSUME RefsInv, NEW f \in Tables, NEW new, LeadsToNodes(new), RefsFollow(f, new), ProcTypes'
    PROVE  RefsInv'
  <1>1. RefsEnough'
    BY RefsCount DEF RefsInv
  <1>2. table' = [table EXCEPT ![f] = new] /\ table \in [Tables -> AnyTable]
    BY DEF RefsInv, RefsFollow
  <1>3. new \in AnyTable
    BY DEF LeadsToNodes
  <1>4. table' \in [Tables -> AnyTable] /\ \A g \in Tables : table'[g] = IF g = f THEN new ELSE table[g]
    BY <1>2, <1>3
  <1>5. \A g \in Tables : LeadsToNodes(table'[g])
    BY <1>4 DEF RefsInv
  <1>6. (\A g \in Tables : LeadsToNodes(table[g]))'
    BY <1>5 DEF LeadsToNodes, Opened
  <1> QED
    BY <1>1, <1>4, <1>6 DEF RefsInv, RefsFollow

(* No table changes, and no reference is given back. *)
LEMMA RefsSame ==
    ASSUME RefsInv, table' = table, ProcTypes',
           ref_count' \in [Nodes -> Int], \A n \in Nodes : ref_count'[n] >= ref_count[n]
    PROVE  RefsInv'
  <1>1. \A n \in Nodes : Owners(n)' = Owners(n)
    BY DEF Owners, Descriptors, Base, Opened
  <1>2. ASSUME NEW n \in Nodes PROVE ref_count'[n] >= Owners(n)
    <2>1. PICK x \in Int : x = Owners(n)
      <3>1. Owners(n) = Cardinality(Descriptors(n)) + Cardinality(Pwds(n)) + Base(n)
        BY DEF Owners, Pwds
      <3>2. Cardinality(Descriptors(n)) \in Nat /\ Cardinality(Pwds(n)) \in Nat /\ Base(n) \in Nat
        BY CountFacts DEF Base
      <3> QED
        BY <3>1, <3>2
    <2>2. ref_count[n] >= x /\ ref_count[n] \in Int /\ ref_count'[n] \in Int /\ ref_count'[n] >= ref_count[n]
      BY <2>1 DEF RefsInv, RefsEnough
    <2> QED
      BY <2>1, <2>2
  <1>3. RefsEnough'
    BY <1>1, <1>2 DEF RefsEnough
  <1>4. table' \in [Tables -> AnyTable] /\ (\A g \in Tables : LeadsToNodes(table[g]))'
    BY DEF RefsInv, LeadsToNodes, Opened
  <1> QED
    BY <1>3, <1>4 DEF RefsInv

(* The processes, when nothing happens to them. *)
LEMMA SameProcs ==
    ASSUME ProcTypes, UNCHANGED <<state, filesp, using>>, panicked' \in BOOLEAN
    PROVE  ProcTypes'
  BY DEF ProcTypes, Alive

FdSet(p, d, r) == table' = [table EXCEPT ![filesp[p]].fd_array[d] = r]

(* The references follow the descriptor d of process p that becomes r. *)
FdRefs(p, d, r) ==
    /\ ref_count' \in [Nodes -> Int]
    /\ \A n \in Nodes :
          ref_count'[n] >= ref_count[n] - (IF Opened(Arr(p), d) /\ Arr(p)[d].node = n THEN 1 ELSE 0)
                                        + (IF r.status = "OPENED" /\ r.node = n THEN 1 ELSE 0)

(* A table with one descriptor changed. *)
WithFd(tab, d, r) == [tab EXCEPT !.fd_array = [tab.fd_array EXCEPT ![d] = r]]

(* The uses of a table in which one descriptor changes. *)
LEMMA FdFollows ==
    ASSUME NEW tab, LeadsToNodes(tab), NEW d \in Fds, NEW r \in AnyFile,
           r.status = "OPENED" => r.node \in Nodes
    PROVE  /\ LeadsToNodes(WithFd(tab, d, r))
           /\ WithFd(tab, d, r).pwd = tab.pwd /\ \A n : FdDelta(tab.fd_array, d, r, n)
           /\ WithFd(tab, d, r).fd_array = [tab.fd_array EXCEPT ![d] = r]
  <1>1. tab \in AnyTable /\ tab.fd_array \in [Fds -> AnyFile]
    BY DEF LeadsToNodes, AnyTable
  <1>2. PICK a \in [Fds -> AnyFile] : a = [tab.fd_array EXCEPT ![d] = r]
    BY <1>1
  <1>3. WithFd(tab, d, r) = [tab EXCEPT !.fd_array = a]
    BY <1>2 DEF WithFd
  <1>4. /\ WithFd(tab, d, r) \in AnyTable
        /\ WithFd(tab, d, r).pwd = tab.pwd /\ WithFd(tab, d, r).fd_array = a
    BY <1>1, <1>3 DEF AnyTable
  <1>5. ASSUME NEW e \in Fds, Opened(a, e) PROVE a[e].node \in Nodes
    BY <1>1, <1>2, <1>5 DEF Opened, LeadsToNodes
  <1>6. PICK b \in [Fds -> AnyFile] : b = tab.fd_array
    BY <1>1
  <1>7. ASSUME NEW n PROVE FdDelta(b, d, r, n)
    BY UsesChange
  <1> QED
    BY <1>2, <1>4, <1>5, <1>6, <1>7 DEF LeadsToNodes

(* A process changes one of its descriptors. *)
LEMMA RefsFd ==
    ASSUME RefsInv, NEW p \in Procs, Alive(p), NEW d \in Fds, NEW r \in AnyFile,
           r.status = "OPENED" => r.node \in Nodes, FdSet(p, d, r), FdRefs(p, d, r), ProcTypes'
    PROVE  RefsInv'
  <1>1. PICK f \in Tables : f = filesp[p]
    BY DEF RefsInv, ProcTypes
  <1>2. PICK tab : tab = table[f]
    OBVIOUS
  <1>3. LeadsToNodes(tab) /\ Arr(p) = tab.fd_array
    BY <1>1, <1>2 DEF RefsInv, Arr
  <1>4. PICK new : new = WithFd(tab, d, r)
    OBVIOUS
  <1>5. /\ LeadsToNodes(new) /\ new.pwd = tab.pwd
        /\ \A n : FdDelta(tab.fd_array, d, r, n)
        /\ new.fd_array = [tab.fd_array EXCEPT ![d] = r]
    BY <1>3, <1>4, FdFollows
  <1>6. table' = [table EXCEPT ![f] = new]
    BY <1>1, <1>2, <1>4 DEF WithFd, FdSet
  <1>7. ASSUME NEW n \in Nodes
        PROVE  ref_count'[n] >= ref_count[n] - (Uses(tab.fd_array, n) - Uses(new.fd_array, n))
                                   - (IF tab.pwd = n THEN 1 ELSE 0) + (IF new.pwd = n THEN 1 ELSE 0)
    <2>1. PICK less \in {0, 1} : less = IF Opened(tab.fd_array, d) /\ tab.fd_array[d].node = n THEN 1 ELSE 0
      OBVIOUS
    <2>2. PICK more \in {0, 1} : more = IF r.status = "OPENED" /\ r.node = n THEN 1 ELSE 0
      OBVIOUS
    <2>3. ref_count'[n] >= ref_count[n] - less + more
      BY <1>3, <2>1, <2>2 DEF FdRefs
    <2>4. PICK u \in Nat : u = Uses(tab.fd_array, n)
      BY UsesFacts
    <2>5. PICK v \in Nat : v = Uses(new.fd_array, n)
      BY UsesFacts
    <2>6. v = u - less + more
      BY <1>5, <2>1, <2>2, <2>4, <2>5 DEF FdDelta
    <2>7. ref_count[n] \in Int /\ ref_count'[n] \in Int
      BY DEF RefsInv, FdRefs
    <2>8. PICK i \in {0, 1} : i = IF tab.pwd = n THEN 1 ELSE 0
      OBVIOUS
    <2>9. ref_count'[n] >= ref_count[n] - (u - v) - i + i
      BY <2>1, <2>2, <2>3, <2>6, <2>7, <2>8
    <2> QED
      BY <1>5, <2>4, <2>5, <2>8, <2>9
  <1>8. RefsFollow(f, new)
    BY <1>2, <1>6, <1>7 DEF RefsFollow, FdRefs
  <1> QED
    BY <1>5, <1>8, RefsStep

(* A descriptor that is not open becomes one that leads to n, and the inode is
   counted once more. *)
LEMMA RefsOpened ==
    ASSUME RefsInv, NEW p \in Procs, Running(p), NEW d \in Fds, Arr(p)[d].status = "NONE",
           NEW r \in AnyFile, NEW n \in Nodes, r.node = n, FdSet(p, d, r),
           ref_count' = [ref_count EXCEPT ![n] = @ + 1], UNCHANGED <<state, filesp, using, panicked>>
    PROVE  RefsInv'
  <1>1. Alive(p) /\ ref_count \in [Nodes -> Int]
    BY DEF Running, Alive, RefsInv
  <1>2. ProcTypes'
    BY SameProcs DEF RefsInv, ProcTypes
  <1>3. ASSUME NEW x \in Nodes, NEW more \in {0, 1}, more = 1 => x = n
        PROVE  ref_count'[x] >= ref_count[x] - 0 + more
    BY <1>1, <1>3
  <1>4. ASSUME NEW x \in Nodes
        PROVE  ref_count'[x] >= ref_count[x] - (IF Opened(Arr(p), d) /\ Arr(p)[d].node = x THEN 1 ELSE 0)
                                             + (IF r.status = "OPENED" /\ r.node = x THEN 1 ELSE 0)
    <2>1. PICK more \in {0, 1} : more = IF r.status = "OPENED" /\ r.node = x THEN 1 ELSE 0
      OBVIOUS
    <2>2. ~Opened(Arr(p), d)
      BY DEF Opened
    <2> QED
      BY <1>3, <2>1, <2>2
  <1>5. FdRefs(p, d, r)
    BY <1>1, <1>4 DEF FdRefs
  <1> QED
    BY <1>1, <1>2, <1>5, RefsFd

(* file_open. *)
LEMMA RefsOpen ==
    ASSUME RefsInv, NEW p \in Procs, NEW n \in Nodes \cup {NoNode}, NEW acc \in Modes, NEW flags,
           file_open(p, n, acc, flags)
    PROVE  RefsInv'
  <1>1. UNCHANGED <<state, filesp, using>> /\ Running(p) /\ ref_count \in [Nodes -> Int] /\ panicked \in BOOLEAN
    BY DEF file_open, RefsInv, ProcTypes
  <1>2. CASE Unsupported(n, acc, flags)
    <2>1. table' = table /\ ref_count' = ref_count /\ panicked' \in BOOLEAN
      BY <1>2 DEF file_open
    <2>2. ProcTypes'
      BY <1>1, <2>1, SameProcs DEF RefsInv
    <2> QED
      BY <1>1, <2>1, <2>2, RefsSame
  <1>3. CASE ~Unsupported(n, acc, flags)
    <2>1. n \in Nodes
      BY <1>3 DEF Unsupported
    <2>2. ref_count' = [ref_count EXCEPT ![n] = @ + 1] /\ UNCHANGED panicked
      BY <1>3 DEF file_open
    <2>3. CASE table' = table
      <3>1. ProcTypes'
        BY <1>1, <2>2, SameProcs DEF RefsInv
      <3> QED
        BY <1>1, <2>1, <2>2, <2>3, <3>1, RefsSame
    <2>4. CASE \E d \in Fds :
                  /\ fd_array_alloc(p, d)
                  /\ table' = [table EXCEPT ![filesp[p]].fd_array[d] =
                                  [status |-> "OPENED", node |-> n, acc |-> acc, open_count |-> 1]]
      <3>1. PICK r : r = [status |-> "OPENED", node |-> n, acc |-> acc, open_count |-> 1]
        OBVIOUS
      <3>2. PICK d \in Fds : fd_array_alloc(p, d) /\ table' = [table EXCEPT ![filesp[p]].fd_array[d] = r]
        BY <2>4, <3>1
      <3>3. r \in AnyFile /\ r.node = n
        BY <2>1, <3>1, FileTableAssumption DEF AnyFile
      <3>4. Arr(p)[d].status = "NONE" /\ FdSet(p, d, r)
        BY <3>2 DEF fd_array_alloc, FdSet
      <3> QED
        BY <1>1, <2>1, <2>2, <3>3, <3>4, RefsOpened
    <2> QED
      BY <1>3, <2>3, <2>4 DEF file_open
  <1> QED
    BY <1>2, <1>3

(* file_close. *)
LEMMA RefsClose ==
    ASSUME RefsInv, NEW p \in Procs, NEW d \in Fds, file_close(p, d)
    PROVE  RefsInv'
  <1>1. PICK n : n = Arr(p)[d].node
    OBVIOUS
  <1>2. /\ Running(p) /\ Alive(p) /\ Opened(Arr(p), d) /\ UNCHANGED <<state, filesp, using, panicked>>
        /\ table' = [table EXCEPT ![filesp[p]].fd_array[d] = Closed]
        /\ ref_count' = [ref_count EXCEPT ![n] = @ - 1]
    BY <1>1 DEF file_close, fd_array_close, Running, Alive
  <1>3. PICK r \in AnyFile : r = Closed
    <2>1. Closed \in AnyFile
      BY DEF Closed, AnyFile
    <2> QED
      BY <2>1
  <1>4. r.status = "NONE" /\ FdSet(p, d, r)
    BY <1>2, <1>3 DEF Closed, FdSet
  <1>5. ref_count \in [Nodes -> Int]
    BY DEF RefsInv
  <1>6. ASSUME NEW x \in Nodes
        PROVE  ref_count'[x] >= ref_count[x] - (IF Opened(Arr(p), d) /\ Arr(p)[d].node = x THEN 1 ELSE 0)
                                             + (IF r.status = "OPENED" /\ r.node = x THEN 1 ELSE 0)
    <2>1. ref_count'[x] = ref_count[x] - (IF n = x THEN 1 ELSE 0)
      BY <1>2, <1>5
    <2>2. /\ (IF Opened(Arr(p), d) /\ Arr(p)[d].node = x THEN 1 ELSE 0) = (IF n = x THEN 1 ELSE 0)
          /\ (IF r.status = "OPENED" /\ r.node = x THEN 1 ELSE 0) = 0
      BY <1>1, <1>2, <1>4
    <2> QED
      BY <1>5, <2>1, <2>2
  <1>7. FdRefs(p, d, r)
    <2>1. n \in Nodes
      BY <1>1, <1>2 DEF RefsInv, ProcTypes, LeadsToNodes, Arr
    <2>2. ref_count' \in [Nodes -> Int]
      BY <1>2, <1>5, <2>1
    <2> QED
      BY <1>6, <2>2 DEF FdRefs
  <1>8. ProcTypes'
    BY <1>2, SameProcs DEF RefsInv, ProcTypes
  <1> QED
    BY <1>2, <1>4, <1>7, <1>8, RefsFd

(* file_dup. *)
LEMMA RefsDup ==
    ASSUME RefsInv, NEW p \in Procs, NEW d \in Fds, NEW e \in 0 .. NFds, file_dup(p, d, e)
    PROVE  RefsInv'
  <1>1. /\ Running(p) /\ Alive(p) /\ Opened(Arr(p), d) /\ UNCHANGED <<state, filesp, using, panicked>>
        /\ ref_count' = [ref_count EXCEPT ![Arr(p)[d].node] = @ + 1]
    BY DEF file_dup, Running, Alive
  <1>2. PICK f \in Tables : f = filesp[p]
    BY <1>1 DEF RefsInv, ProcTypes
  <1>3. LeadsToNodes(table[f]) /\ Arr(p) = table[f].fd_array
    BY <1>2 DEF RefsInv, Arr
  <1>4. Arr(p) \in [Fds -> AnyFile] /\ Arr(p)[d].node \in Nodes
    BY <1>1, <1>3 DEF LeadsToNodes, AnyTable
  <1>5. PICK r : r = [Arr(p)[d] EXCEPT !.open_count = 1]
    OBVIOUS
  <1>6. r \in AnyFile /\ r.node = Arr(p)[d].node
    <2>1. Arr(p)[d] \in AnyFile
      BY <1>4
    <2> QED
      BY <1>5, <2>1 DEF AnyFile
  <1>7. PICK g \in Fds :
          /\ IF e = NFds THEN fd_array_alloc(p, g) ELSE g = e /\ Arr(p)[g].status = "NONE"
          /\ table' = [table EXCEPT ![filesp[p]].fd_array[g] = r]
    BY <1>5 DEF file_dup
  <1>8. Arr(p)[g].status = "NONE" /\ FdSet(p, g, r)
    BY <1>7 DEF fd_array_alloc, FdSet
  <1> QED
    BY <1>1, <1>4, <1>6, <1>8, RefsOpened

(* The use of a descriptor changes, and no reference. *)
LEMMA RefsUse ==
    ASSUME RefsInv, NEW p \in Procs, Alive(p), NEW d \in Fds, NEW c \in Int,
           table' = [table EXCEPT ![filesp[p]].fd_array[d].open_count = c],
           ref_count' = ref_count, ProcTypes'
    PROVE  RefsInv'
  <1>1. PICK f \in Tables : f = filesp[p]
    BY DEF RefsInv, ProcTypes
  <1>2. LeadsToNodes(table[f]) /\ Arr(p) = table[f].fd_array /\ table \in [Tables -> AnyTable]
    BY <1>1 DEF RefsInv, Arr
  <1>3. PICK a \in [Fds -> AnyFile] : a = Arr(p)
    BY <1>2 DEF LeadsToNodes, AnyTable
  <1>4. PICK r : r = [a[d] EXCEPT !.open_count = c]
    OBVIOUS
  <1>5. r \in AnyFile /\ r.node = a[d].node /\ r.status = a[d].status
    <2>1. a[d] \in AnyFile
      OBVIOUS
    <2> QED
      BY <1>4, <2>1 DEF AnyFile
  <1>6. r.status = "OPENED" => r.node \in Nodes
    BY <1>2, <1>3, <1>5 DEF LeadsToNodes, Opened
  <1>7. FdSet(p, d, r)
    <2>1. [table[f].fd_array[d] EXCEPT !.open_count = c] = r
      BY <1>2, <1>3, <1>4
    <2> QED
      BY <1>1, <2>1 DEF FdSet
  <1>8. ASSUME NEW n \in Nodes
        PROVE  ref_count'[n] >= ref_count[n] - (IF Opened(Arr(p), d) /\ Arr(p)[d].node = n THEN 1 ELSE 0)
                                             + (IF r.status = "OPENED" /\ r.node = n THEN 1 ELSE 0)
    <2>1. PICK i \in {0, 1} : i = IF Opened(Arr(p), d) /\ Arr(p)[d].node = n THEN 1 ELSE 0
      OBVIOUS
    <2>2. i = IF r.status = "OPENED" /\ r.node = n THEN 1 ELSE 0
      BY <1>3, <1>5, <2>1 DEF Opened
    <2>3. ref_count'[n] >= ref_count[n] - i + i
      BY DEF RefsInv
    <2> QED
      BY <2>1, <2>2, <2>3
  <1>9. FdRefs(p, d, r)
    BY <1>8 DEF RefsInv, FdRefs
  <1> QED
    BY <1>5, <1>6, <1>7, <1>9, RefsFd

(* A call acquires the file ... *)
LEMMA RefsOp ==
    ASSUME RefsInv, NEW p \in Procs, NEW d \in Fds, NEW op, file_op(p, d, op)
    PROVE  RefsInv'
  <1>1. Alive(p) /\ ref_count' = ref_count /\ filesp' = filesp /\ ref_count \in [Nodes -> Int]
    BY DEF file_op, Running, Alive, RefsInv
  <1>2. CASE op \in Ops(Arr(p)[d].node)
    <2>1. PICK f \in Tables : f = filesp[p]
      BY <1>1 DEF RefsInv, ProcTypes
    <2>2. Arr(p)[d].open_count \in Int
      BY <2>1 DEF RefsInv, LeadsToNodes, AnyTable, AnyFile, Arr
    <2>3. PICK c \in Int : c = Arr(p)[d].open_count + 1
      BY <2>2
    <2>4. table' = [table EXCEPT ![filesp[p]].fd_array[d].open_count = c]
      BY <1>2, <2>3 DEF file_op, Arr
    <2>5. ProcTypes'
      BY <1>1, <1>2 DEF RefsInv, ProcTypes, file_op, Alive, Running
    <2> QED
      BY <1>1, <2>4, <2>5, RefsUse
  <1>3. CASE op \notin Ops(Arr(p)[d].node)
    <2>1. table' = table /\ UNCHANGED <<state, filesp, using>> /\ panicked' \in BOOLEAN
      BY <1>3 DEF file_op
    <2>2. ProcTypes'
      BY <2>1, SameProcs DEF RefsInv
    <2> QED
      BY <1>1, <2>1, <2>2, RefsSame
  <1> QED
    BY <1>2, <1>3

(* ... and releases it. *)
LEMMA RefsOpEnd ==
    ASSUME RefsInv, NEW p \in Procs, file_op_end(p)
    PROVE  RefsInv'
  <1>1. Alive(p) /\ ref_count' = ref_count /\ filesp' = filesp
    BY DEF file_op_end, Alive
  <1>2. PICK f \in Tables : f = filesp[p]
    BY <1>1 DEF RefsInv, ProcTypes
  <1>3. PICK d \in Fds : d = using[p]
    BY DEF RefsInv, ProcTypes, file_op_end
  <1>4. Arr(p)[d].open_count \in Int
    BY <1>2 DEF RefsInv, LeadsToNodes, AnyTable, AnyFile, Arr
  <1>5. PICK c \in Int : c = Arr(p)[d].open_count - 1
    BY <1>4
  <1>6. table' = [table EXCEPT ![filesp[p]].fd_array[d].open_count = c]
    BY <1>3, <1>5 DEF file_op_end, Arr
  <1>7. ProcTypes'
    BY <1>1 DEF RefsInv, ProcTypes, file_op_end, Alive
  <1> QED
    BY <1>1, <1>6, <1>7, RefsUse

---------------------------------------------------------------------------
(* The same for the steps of processes that come and go. *)

(* An empty table has no descriptors and no current directory. *)
LEMMA NewTableUses ==
    /\ LeadsToNodes(NewTable) /\ NewTable.pwd = NoNode
    /\ \A n \in Nodes : Uses(NewTable.fd_array, n) = 0
  <1>1. NewTable.pwd = NoNode /\ NewTable.fd_array = [d \in Fds |-> Closed]
    BY DEF NewTable
  <1>2. Closed \in AnyFile /\ Closed.status = "NONE"
    BY DEF Closed, AnyFile
  <1>3. NewTable \in AnyTable
    BY <1>2 DEF NewTable, AnyTable
  <1>4. \A d \in Fds : ~Opened(NewTable.fd_array, d)
    BY <1>1, <1>2 DEF Opened
  <1>5. ASSUME NEW n \in Nodes PROVE Uses(NewTable.fd_array, n) = 0
    <2>1. PICK a : a = NewTable.fd_array
      OBVIOUS
    <2>2. UseSet(a, n) = {}
      BY <1>4, <2>1 DEF UseSet
    <2>3. Uses(a, n) = Cardinality(UseSet(a, n))
      BY UsesFacts
    <2> QED
      BY <2>1, <2>2, <2>3, FS_EmptySet
  <1> QED
    BY <1>1, <1>3, <1>4, <1>5 DEF LeadsToNodes

(* put_files, of a table that may be free, or another's. *)
LEMMA RefsPut ==
    ASSUME RefsInv, NEW f \in Tables \cup {NoTable}, put_files(f), ProcTypes'
    PROVE  RefsInv'
  <1>1. ref_count \in [Nodes -> Int] /\ table \in [Tables -> AnyTable]
    BY DEF RefsInv
  <1>2. CASE f = NoTable
    <2>1. table' = [g \in Tables |-> table[g]] /\ ref_count' = ref_count
      BY <1>2, FileTableAssumption DEF put_files
    <2>2. table' = table
      BY <1>1, <2>1
    <2> QED
      BY <1>1, <2>1, <2>2, RefsSame
  <1>3. CASE f \in Tables /\ table[f].files_count # 1
    <2>1. PICK new : new = [table[f] EXCEPT !.files_count = @ - 1]
      OBVIOUS
    <2>2. /\ table' = [g \in Tables |-> IF g = f THEN [table[g] EXCEPT !.files_count = @ - 1] ELSE table[g]]
          /\ ref_count' = ref_count
      BY <1>3 DEF put_files
    <2>3. table' = [table EXCEPT ![f] = new]
      BY <1>1, <2>1, <2>2
    <2>4. LeadsToNodes(table[f]) /\ table[f] \in AnyTable
      BY <1>3 DEF RefsInv, LeadsToNodes
    <2>5. new \in AnyTable /\ new.fd_array = table[f].fd_array /\ new.pwd = table[f].pwd
      BY <2>1, <2>4 DEF AnyTable
    <2>6. LeadsToNodes(new)
      BY <2>4, <2>5 DEF LeadsToNodes
    <2>7. ASSUME NEW n \in Nodes
          PROVE  ref_count'[n] >= ref_count[n] - (Uses(table[f].fd_array, n) - Uses(new.fd_array, n))
                              - (IF table[f].pwd = n THEN 1 ELSE 0) + (IF new.pwd = n THEN 1 ELSE 0)
      <3>1. PICK u \in Nat : u = Uses(new.fd_array, n)
        BY UsesFacts
      <3>2. PICK i \in {0, 1} : i = IF new.pwd = n THEN 1 ELSE 0
        OBVIOUS
      <3>3. ref_count'[n] >= ref_count[n] - (u - u) - i + i
        BY <1>1, <2>2
      <3> QED
        BY <2>5, <3>1, <3>2, <3>3
    <2>8. RefsFollow(f, new)
      BY <1>1, <2>2, <2>3, <2>7 DEF RefsFollow
    <2> QED
      BY <1>3, <2>6, <2>8, RefsStep
  <1>4. CASE f \in Tables /\ table[f].files_count = 1
    <2>1. PICK new : new = NewTable
      OBVIOUS
    <2>2. PICK old : old = table[f]
      OBVIOUS
    <2>3. table' = [table EXCEPT ![f] = new] /\ ref_count' = DropRefs(ref_count, old, new)
      BY <1>4, <2>1, <2>2, FileTableAssumption DEF put_files
    <2>4. ASSUME NEW n \in Nodes
          PROVE  /\ ref_count'[n] \in Int
                 /\ ref_count'[n] >= ref_count[n] - (Uses(old.fd_array, n) - Uses(new.fd_array, n))
                              - (IF old.pwd = n THEN 1 ELSE 0) + (IF new.pwd = n THEN 1 ELSE 0)
      <3>1. PICK u \in Nat : u = Uses(old.fd_array, n)
        BY UsesFacts
      <3>2. PICK v \in Nat : v = Uses(new.fd_array, n)
        BY UsesFacts
      <3>3. PICK i \in {0, 1} : i = IF old.pwd = n THEN 1 ELSE 0
        OBVIOUS
      <3>4. new.pwd # n
        BY <2>1, NewTableUses, FileTableAssumption
      <3>5. ref_count'[n] = ref_count[n] - (u - v) - i
        BY <2>3, <3>1, <3>2, <3>3, <3>4 DEF DropRefs
      <3>6. PICK x \in Int : x = ref_count[n]
        BY <1>1
      <3>7. ref_count'[n] \in Int /\ ref_count'[n] >= x - (u - v) - i + 0
        BY <3>5, <3>6
      <3> QED
        BY <3>1, <3>2, <3>3, <3>4, <3>6, <3>7
    <2>5. ref_count' \in [Nodes -> Int]
      <3>1. ref_count' = [n \in Nodes |-> ref_count'[n]]
        BY <2>3 DEF DropRefs
      <3> QED
        BY <2>4, <3>1
    <2>6. RefsFollow(f, new)
      BY <2>2, <2>3, <2>4, <2>5 DEF RefsFollow
    <2> QED
      BY <1>4, <2>1, <2>6, NewTableUses, RefsStep
  <1> QED
    BY <1>2, <1>3, <1>4

(* do_fork: the table that the copy overwrites may be in use. *)
LEMMA RefsFork ==
    ASSUME RefsInv, NEW p \in Procs, NEW q \in Procs, do_fork(p, q)
    PROVE  RefsInv'
  <1>1. Alive(p) /\ ref_count \in [Nodes -> Int] /\ UNCHANGED <<using, panicked>>
    BY DEF do_fork, Running, Alive, RefsInv
  <1>2. PICK g \in Tables : dup_files(filesp[p], g) /\ filesp' = [filesp EXCEPT ![q] = g]
    BY DEF do_fork
  <1>3. PICK f \in Tables : f = filesp[p]
    BY <1>1 DEF RefsInv, ProcTypes
  <1>4. PICK new : new = table[f]
    OBVIOUS
  <1>5. LeadsToNodes(new) /\ table' = [table EXCEPT ![g] = new]
    BY <1>2, <1>3, <1>4 DEF RefsInv, dup_files
  <1>6. ASSUME NEW n \in Nodes
        PROVE  /\ ref_count'[n] \in Int
               /\ ref_count'[n] >= ref_count[n] - (Uses(table[g].fd_array, n) - Uses(new.fd_array, n))
                              - (IF table[g].pwd = n THEN 1 ELSE 0) + (IF new.pwd = n THEN 1 ELSE 0)
    <2>1. PICK u \in Nat : u = Uses(table[g].fd_array, n)
      <3>1. PICK a : a = table[g].fd_array
        OBVIOUS
      <3>2. Uses(a, n) \in Nat
        BY UsesFacts
      <3> QED
        BY <3>1, <3>2
    <2>2. PICK v \in Nat : v = Uses(new.fd_array, n)
      BY UsesFacts
    <2>3. PICK i \in {0, 1} : i = IF table[g].pwd = n THEN 1 ELSE 0
      OBVIOUS
    <2>4. PICK j \in {0, 1} : j = IF new.pwd = n THEN 1 ELSE 0
      OBVIOUS
    <2>5. ref_count'[n] = ref_count[n] + v + j
      BY <1>2, <1>3, <1>4, <2>2, <2>4 DEF dup_files
    <2>6. PICK x \in Int : x = ref_count[n]
      BY <1>1
    <2>7. ref_count'[n] \in Int /\ ref_count'[n] >= x - (u - v) - i + j
      BY <2>5, <2>6
    <2> QED
      BY <2>1, <2>2, <2>3, <2>4, <2>6, <2>7
  <1>7. ref_count' \in [Nodes -> Int]
    <2>1. ref_count' = [n \in Nodes |-> ref_count'[n]]
      BY <1>2 DEF dup_files
    <2> QED
      BY <1>6, <2>1
  <1>8. RefsFollow(g, new)
    BY <1>5, <1>6, <1>7 DEF RefsFollow
  <1>9. ProcTypes'
    BY <1>1, <1>2 DEF RefsInv, ProcTypes, do_fork, Alive
  <1> QED
    BY <1>5, <1>8, <1>9, RefsStep

(* When descriptor 2 is free there is a first one that is. *)
LEMMA FirstFree ==
    ASSUME NEW arr, arr[2].status = "NONE"
    PROVE  \E c \in Fds : arr[c].status = "NONE" /\ \A e \in 0 .. c - 1 : arr[e].status # "NONE"
  <1>1. 0 \in Fds /\ 1 \in Fds /\ 2 \in Fds
    BY FileTableAssumption DEF Fds
  <1>2. CASE arr[0].status = "NONE"
    BY <1>1, <1>2
  <1>3. CASE arr[0].status # "NONE" /\ arr[1].status = "NONE"
    <2>1. \A e \in 0 .. 1 - 1 : e = 0
      OBVIOUS
    <2> QED
      BY <1>1, <1>3, <2>1
  <1>4. CASE arr[0].status # "NONE" /\ arr[1].status # "NONE"
    <2>1. \A e \in 0 .. 2 - 1 : e = 0 \/ e = 1
      OBVIOUS
    <2> QED
      BY <1>1, <1>4, <2>1
  <1> QED
    BY <1>2, <1>3, <1>4

(* files_closeall and the descriptor of the program. *)
LEMMA RefsExec ==
    ASSUME RefsInv, NEW p \in Procs, Running(p), NEW n \in Files, ExecOpen(p, n), ProcTypes'
    PROVE  RefsInv'
  <1>1. Alive(p) /\ n \in Nodes /\ ref_count \in [Nodes -> Int]
    BY DEF Running, Alive, Nodes, RefsInv
  <1>2. PICK f \in Tables : f = filesp[p]
    BY <1>1 DEF RefsInv, ProcTypes
  <1>3. PICK old : old = table[f]
    OBVIOUS
  <1>4. LeadsToNodes(old) /\ old \in AnyTable /\ old.fd_array \in [Fds -> AnyFile]
    BY <1>3 DEF RefsInv, LeadsToNodes, AnyTable
  <1>5. PICK arr : arr = CloseAll(old.fd_array, 2 .. NFds - 1)
    OBVIOUS
  <1>6. Closed \in AnyFile /\ Closed.status = "NONE"
    BY DEF Closed, AnyFile
  <1>7. /\ arr \in [Fds -> AnyFile]
        /\ \A e \in Fds : arr[e] = IF e \in 2 .. NFds - 1 /\ Opened(old.fd_array, e) THEN Closed
                                                                                  ELSE old.fd_array[e]
    BY <1>4, <1>5, <1>6 DEF CloseAll
  <1>8. PICK mid : mid = [old EXCEPT !.fd_array = arr]
    OBVIOUS
  <1>9. mid \in AnyTable /\ mid.pwd = old.pwd /\ mid.fd_array = arr
    BY <1>4, <1>7, <1>8 DEF AnyTable
  <1>10. LeadsToNodes(mid)
    <2>1. ASSUME NEW e \in Fds, Opened(arr, e) PROVE arr[e].node \in Nodes
      <3>1. arr[e] = old.fd_array[e] /\ Opened(old.fd_array, e)
        BY <1>6, <1>7, <2>1 DEF Opened
      <3> QED
        BY <1>4, <3>1 DEF LeadsToNodes
    <2> QED
      BY <1>9, <2>1 DEF LeadsToNodes
  <1>11. PICK d : d = CHOOSE k \in Fds : /\ mid.fd_array[k].status = "NONE"
                                        /\ \A e \in 0 .. k - 1 : mid.fd_array[e].status # "NONE"
    OBVIOUS
  <1>12. d \in Fds /\ arr[d].status = "NONE"
    <2>1. 2 \in Fds /\ 2 \in 2 .. NFds - 1
      BY FileTableAssumption DEF Fds
    <2>2. old.fd_array[2].status \in {"NONE", "OPENED"}
      BY <1>4, <2>1 DEF AnyFile
    <2>3. arr[2].status = "NONE"
      BY <1>6, <1>7, <2>1, <2>2 DEF Opened
    <2>4. \E c \in Fds : arr[c].status = "NONE" /\ \A e \in 0 .. c - 1 : arr[e].status # "NONE"
      BY <2>3, FirstFree
    <2> QED
      BY <1>9, <1>11, <2>4
  <1>13. PICK r : r = [status |-> "OPENED", node |-> n, acc |-> "R", open_count |-> 1]
    OBVIOUS
  <1>14. r \in AnyFile /\ r.status = "OPENED" /\ r.node = n
    BY <1>1, <1>13 DEF AnyFile
  <1>15. PICK new : new = WithFd(mid, d, r)
    OBVIOUS
  <1>16. /\ LeadsToNodes(new) /\ new.pwd = old.pwd
         /\ new.fd_array = [arr EXCEPT ![d] = r] /\ \A x : FdDelta(arr, d, r, x)
    BY <1>1, <1>9, <1>10, <1>12, <1>14, <1>15, FdFollows
  <1>17. /\ table' = [table EXCEPT ![f] = new]
         /\ ref_count' = [DropRefs(ref_count, old, mid) EXCEPT ![n] = @ + 1]
    <2>1. /\ table' = [table EXCEPT ![f] = [mid EXCEPT !.fd_array[d] = r]]
          /\ ref_count' = [DropRefs(ref_count, old, mid) EXCEPT ![n] = @ + 1]
      BY <1>2, <1>3, <1>5, <1>8, <1>11, <1>13 DEF ExecOpen
    <2> QED
      BY <1>15, <2>1 DEF WithFd
  <1>18. ASSUME NEW x \in Nodes
         PROVE  /\ ref_count'[x] \in Int
                /\ ref_count'[x] >= ref_count[x] - (Uses(old.fd_array, x) - Uses(new.fd_array, x))
                                        - (IF old.pwd = x THEN 1 ELSE 0) + (IF new.pwd = x THEN 1 ELSE 0)
    <2>1. PICK more \in {0, 1} : more = IF x = n THEN 1 ELSE 0
      OBVIOUS
    <2>2. PICK u \in Nat : u = Uses(old.fd_array, x)
      BY UsesFacts
    <2>3. PICK w \in Nat : w = Uses(arr, x)
      BY UsesFacts
    <2>4. PICK v \in Nat : v = Uses(new.fd_array, x)
      BY UsesFacts
    <2>5. v = w + more
      <3>1. /\ (IF Opened(arr, d) /\ arr[d].node = x THEN 1 ELSE 0) = 0
            /\ (IF r.status = "OPENED" /\ r.node = x THEN 1 ELSE 0) = more
        BY <1>12, <1>14, <2>1 DEF Opened
      <3>2. v = w - 0 + more
        BY <1>16, <2>3, <2>4, <3>1 DEF FdDelta
      <3> QED
        BY <2>1, <3>2
    <2>6. PICK y : y = ref_count[x] - (u - w)
      OBVIOUS
    <2>7. PICK b : b = DropRefs(ref_count, old, mid)
      OBVIOUS
    <2>8. y \in Int
      BY <1>1, <2>6
    <2>9. DOMAIN b = Nodes /\ b[x] = y
      <3>1. b[x] = ref_count[x] - (Uses(old.fd_array, x) - Uses(arr, x)) - 0
        BY <1>9, <2>7 DEF DropRefs
      <3>2. b[x] = y - 0
        BY <2>2, <2>3, <2>6, <3>1
      <3> QED
        BY <2>7, <2>8, <3>2 DEF DropRefs
    <2>10. ref_count'[x] = y + more
      <3>1. ref_count'[x] = IF x = n THEN b[x] + 1 ELSE b[x]
        BY <1>1, <1>17, <2>7, <2>9
      <3> QED
        BY <2>1, <2>8, <2>9, <3>1
    <2>11. PICK i \in {0, 1} : i = IF old.pwd = x THEN 1 ELSE 0
      OBVIOUS
    <2>12. ref_count[x] \in Int
      BY <1>1
    <2>13. ref_count'[x] \in Int /\ ref_count'[x] >= ref_count[x] - (u - v) - i + i
      BY <2>1, <2>5, <2>6, <2>8, <2>10, <2>12
    <2> QED
      BY <1>16, <2>2, <2>4, <2>11, <2>13
  <1>19. ref_count' \in [Nodes -> Int]
    <2>1. ref_count' = [x \in Nodes |-> ref_count'[x]]
      BY <1>17 DEF DropRefs
    <2> QED
      BY <1>18, <2>1
  <1>20. RefsFollow(f, new)
    BY <1>3, <1>17, <1>18, <1>19 DEF RefsFollow
  <1> QED
    BY <1>16, <1>20, RefsStep

(* Every step keeps the references. *)
LEMMA RefsNext == ASSUME RefsInv, [Next]_vars PROVE RefsInv'
  <1>1. ASSUME NEW p \in Procs, NEW q \in Procs, do_fork_no_files(p, q)
        PROVE  RefsInv'
    <2>1. put_files(filesp[q]) /\ UNCHANGED <<state, filesp, using>> /\ filesp[q] \in Tables \cup {NoTable}
      BY <1>1 DEF do_fork_no_files, RefsInv, ProcTypes
    <2>2. panicked' \in BOOLEAN
      BY <2>1 DEF put_files, RefsInv, ProcTypes
    <2>3. ProcTypes'
      BY <2>1, <2>2, SameProcs DEF RefsInv
    <2> QED
      BY <2>1, <2>3, RefsPut
  <1>2. ASSUME NEW p \in Procs, do_exit(p) \/ do_execve_no_file(p)
        PROVE  RefsInv'
    <2>1. /\ put_files(filesp[p]) /\ UNCHANGED <<filesp, using>> /\ state' = [state EXCEPT ![p] = "zombie"]
          /\ filesp[p] \in Tables \cup {NoTable}
      BY <1>2 DEF do_exit, do_execve_no_file, ExitWith, RefsInv, ProcTypes
    <2>2. panicked' \in BOOLEAN
      BY <2>1 DEF put_files, RefsInv, ProcTypes
    <2>3. ProcTypes'
      BY <2>1, <2>2 DEF RefsInv, ProcTypes, Alive
    <2> QED
      BY <2>1, <2>3, RefsPut
  <1>3. ASSUME NEW p \in Procs, do_wait(p)
        PROVE  RefsInv'
    <2>1. ProcTypes'
      BY <1>3 DEF do_wait, RefsInv, ProcTypes, Alive
    <2>2. table' = table /\ ref_count' = ref_count /\ ref_count \in [Nodes -> Int]
      BY <1>3 DEF do_wait, RefsInv
    <2> QED
      BY <2>1, <2>2, RefsSame
  <1>4. ASSUME NEW p \in Procs, NEW n \in Files, do_execve(p, n) \/ do_execve_bad_image(p, n)
        PROVE  RefsInv'
    <2>1. Running(p) /\ ExecOpen(p, n)
      BY <1>4 DEF do_execve, do_execve_bad_image
    <2>2. ProcTypes'
      BY <1>4 DEF do_execve, do_execve_bad_image, RefsInv, ProcTypes, Alive
    <2> QED
      BY <2>1, <2>2, RefsExec
  <1>5. CASE UNCHANGED vars
    <2>1. ProcTypes'
      BY <1>5, SameProcs DEF RefsInv, ProcTypes, vars
    <2>2. table' = table /\ ref_count' = ref_count /\ ref_count \in [Nodes -> Int]
      BY <1>5 DEF vars, RefsInv
    <2> QED
      BY <2>1, <2>2, RefsSame
  <1>6. ASSUME NEW p \in Procs, NEW n \in Nodes \cup {NoNode}, NEW acc \in Modes, NEW flags \in SUBSET Flags,
               file_open(p, n, acc, flags)
        PROVE  RefsInv'
    BY <1>6, RefsOpen
  <1>7. ASSUME NEW p \in Procs, NEW d \in Fds, NEW e \in 0 .. NFds, file_dup(p, d, e)
        PROVE  RefsInv'
    BY <1>7, RefsDup
  <1>8. ASSUME NEW p \in Procs, NEW d \in Fds, NEW op, file_close(p, d) \/ file_op(p, d, op)
        PROVE  RefsInv'
    BY <1>8, RefsClose, RefsOp
  <1>9. ASSUME NEW p \in Procs, file_op_end(p)
        PROVE  RefsInv'
    BY <1>9, RefsOpEnd
  <1>10. ASSUME NEW p \in Procs, NEW q \in Procs, do_fork(p, q)
         PROVE  RefsInv'
    BY <1>10, RefsFork
  <1> QED
    BY <1>1, <1>2, <1>3, <1>4, <1>5, <1>6, <1>7, <1>8, <1>9, <1>10 DEF Next

(* The first process has the root for its current directory, and nothing open. *)
LEMMA RefsInit == Init => RefsInv
  <1> SUFFICES ASSUME Init PROVE RefsInv
    OBVIOUS
  <1>1. PICK f \in Tables :
       /\ state = [p \in Procs |-> IF p = InitProc THEN "run" ELSE "none"]
       /\ filesp = [p \in Procs |-> IF p = InitProc THEN f ELSE NoTable]
       /\ using = [p \in Procs |-> -1]
       /\ table = [g \in Tables |-> IF g = f THEN [NewTable EXCEPT !.files_count = 1, !.pwd = Root]
                                             ELSE NewTable]
       /\ ref_count = [n \in Nodes |-> Base(n) + (IF n = Root THEN 1 ELSE 0)]
       /\ open_count = [n \in Nodes |-> 0]
       /\ panicked = FALSE
    BY DEF Init
  <1>2. PICK first : first = [NewTable EXCEPT !.files_count = 1, !.pwd = Root]
    OBVIOUS
  <1>3. LeadsToNodes(NewTable) /\ NewTable.pwd = NoNode /\ NewTable \in AnyTable
    BY NewTableUses DEF LeadsToNodes
  <1>4. first \in AnyTable /\ first.pwd = Root /\ first.fd_array = NewTable.fd_array
    <2>1. PICK a : a = [NewTable EXCEPT !.files_count = 1]
      OBVIOUS
    <2>2. a \in AnyTable /\ a.fd_array = NewTable.fd_array
      BY <1>3, <2>1 DEF AnyTable
    <2>3. first = [a EXCEPT !.pwd = Root] /\ Root \in Nodes \cup {NoNode}
      BY <1>2, <2>1 DEF Nodes
    <2> QED
      BY <2>2, <2>3 DEF AnyTable
  <1>5. /\ table = [g \in Tables |-> IF g = f THEN first ELSE NewTable] /\ table \in [Tables -> AnyTable]
        /\ \A g \in Tables : table[g].fd_array = NewTable.fd_array
    BY <1>1, <1>2, <1>3, <1>4
  <1>6. \A g \in Tables, d \in Fds : ~Opened(table[g].fd_array, d)
    BY <1>5 DEF NewTable, Closed, Opened
  <1>7. \A g \in Tables : LeadsToNodes(table[g])
    BY <1>5, <1>6 DEF LeadsToNodes
  <1>8. ASSUME NEW n \in Nodes PROVE ref_count[n] = Owners(n) /\ ref_count[n] \in Int
    <2>1. Descriptors(n) = {} /\ Cardinality({}) = 0
      BY <1>6, FS_EmptySet DEF Descriptors
    <2>2. Pwds(n) = IF n = Root THEN {f} ELSE {}
      BY <1>3, <1>4, <1>5, FileTableAssumption DEF Pwds
    <2>3. Cardinality(Pwds(n)) = IF n = Root THEN 1 ELSE 0
      BY <2>2, FS_EmptySet, FS_Singleton
    <2>4. Owners(n) = 0 + Cardinality(Pwds(n)) + Base(n)
      BY <2>1 DEF Owners, Pwds
    <2>5. ref_count[n] = Base(n) + (IF n = Root THEN 1 ELSE 0) /\ Base(n) \in Int
      BY <1>1 DEF Base
    <2> QED
      BY <2>3, <2>4, <2>5
  <1>9. ref_count \in [Nodes -> Int] /\ RefsEnough
    BY <1>1, <1>8 DEF RefsEnough
  <1>10. ProcTypes
    BY <1>1 DEF ProcTypes, Alive
  <1> QED
    BY <1>5, <1>7, <1>9, <1>10 DEF RefsInv

---------------------------------------------------------------------------
(* Steps that replace one table.                                           *)

(* A table that is not allocated is as new. *)
FreeOK == \A f \in Tables : table[f].files_count = 0 => table[f] = NewTable

OpensOK == \A n \in Nodes : open_count[n] = Cardinality(Descriptors(n))

(* The inductive invariant, as long as no table is taken away. *)
Inv == RefsInv /\ OwnTable /\ FreeOK /\ InUse /\ OpensOK

RefsNatural == ref_count \in [Nodes -> Nat]

(* The references are natural numbers. *)
LEMMA RefsNat == RefsInv => RefsNatural
  <1>1. ASSUME RefsInv, NEW n \in Nodes PROVE ref_count[n] \in Nat
    <2>1. Owners(n) = Cardinality(Descriptors(n)) + Cardinality(Pwds(n)) + Base(n)
      BY DEF Owners, Pwds
    <2>2. Cardinality(Descriptors(n)) \in Nat /\ Cardinality(Pwds(n)) \in Nat /\ Base(n) \in Nat
      BY CountFacts DEF Base
    <2>3. ref_count[n] >= Owners(n) /\ ref_count[n] \in Int
      BY <1>1 DEF RefsInv, RefsEnough
    <2> QED
      BY <2>1, <2>2, <2>3
  <1> QED
    BY <1>1 DEF RefsInv, RefsNatural

(* Table f becomes new, and the open counts follow. *)
Replaced(f, new) ==
    /\ table' = [table EXCEPT ![f] = new]
    /\ open_count' \in [Nodes -> Int]
    /\ \A n \in Nodes :
          open_count'[n] = open_count[n] - (Uses(table[f].fd_array, n) - Uses(new.fd_array, n))

(* The open counts stay right when a table is replaced. *)
LEMMA CountsStep ==
    ASSUME Inv, NEW f \in Tables, NEW new, Replaced(f, new)
    PROVE  OpensOK' /\ open_count' \in [Nodes -> Nat]
  <1>1. /\ table \in [Tables -> FileTables] /\ table' = [table EXCEPT ![f] = new]
        /\ open_count \in [Nodes -> Nat]
    BY DEF Inv, OwnTable, TypeOK, FileTables, Replaced
  <1>2. ASSUME NEW n \in Nodes
        PROVE  open_count'[n] = Cardinality(Descriptors(n)') /\ open_count'[n] \in Nat
    <2>1. Recount(f, new, n)
      BY <1>1, ReplaceCount
    <2>2. PICK a : a = table[f].fd_array
      OBVIOUS
    <2>3. PICK u \in Nat : u = Uses(a, n)
      BY UsesFacts
    <2>4. PICK v \in Nat : v = Uses(new.fd_array, n)
      BY UsesFacts
    <2>5. open_count'[n] = open_count[n] - (u - v) /\ open_count[n] = Cardinality(Descriptors(n))
      BY <2>2, <2>3, <2>4 DEF Replaced, Inv, OpensOK
    <2>6. Cardinality(Descriptors(n)') = Cardinality(Descriptors(n)) - (u - v)
      BY <2>1, <2>2, <2>3, <2>4 DEF Recount
    <2>7. Cardinality(Descriptors(n)') \in Nat
      <3>1. CountsOK'
        BY CountNats, PTL
      <3> QED
        BY <3>1 DEF CountsOK
    <2> QED
      BY <2>5, <2>6, <2>7
  <1> QED
    BY <1>2 DEF Replaced, OpensOK

(* Descriptor d of an array is used as a process at st with the call on u says. *)
UsedBy(arr, st, u) ==
    \A d \in Fds : arr[d].open_count =
       (IF Opened(arr, d) THEN 1 ELSE 0) + (IF st = "vop" /\ u = d THEN 1 ELSE 0)

(* Well-formed contents of a table. *)
TableOK(new) ==
    /\ new \in FileTables
    /\ new.files_count = 0 => new = NewTable
    /\ \A d \in Fds : Opened(new.fd_array, d) => new.fd_array[d].node \in Nodes

(* A process whose table is not f goes on as before. *)
LEMMA ReplacedInv ==
    ASSUME Inv, RefsInv', NEW f \in Tables, NEW new, TableOK(new), Replaced(f, new),
           \A p \in Procs : Alive(p)' =>
              IF filesp'[p] = f
              THEN new.files_count = 1 /\ UsedBy(new.fd_array, state'[p], using'[p])
              ELSE state'[p] = state[p] /\ filesp'[p] = filesp[p] /\ using'[p] = using[p],
           \A p, q \in Procs : Alive(p)' /\ Alive(q)' /\ filesp'[p] = filesp'[q] => p = q
    PROVE  Inv'
  <1>1. /\ table \in [Tables -> FileTables] /\ table' = [table EXCEPT ![f] = new]
        /\ table'[f] = new /\ \A g \in Tables \ {f} : table'[g] = table[g]
    BY DEF Inv, OwnTable, TypeOK, FileTables, Replaced
  <1>2. OpensOK' /\ open_count' \in [Nodes -> Nat] /\ ref_count' \in [Nodes -> Nat]
    <2>1. RefsNatural'
      BY RefsNat, PTL
    <2> QED
      BY <2>1, CountsStep DEF RefsNatural
  <1>3. table' \in [Tables -> FileTables]
    BY <1>1 DEF TableOK
  <1>4. TypeOK'
    BY <1>2, <1>3 DEF TypeOK, FileTables, RefsInv, ProcTypes
  <1>5. FreeOK'
    BY <1>1 DEF Inv, FreeOK, TableOK
  <1>6. ASSUME NEW p \in Procs, Alive(p)'
        PROVE  /\ filesp'[p] # NoTable /\ table'[filesp'[p]].files_count = 1
               /\ UsedBy(table'[filesp'[p]].fd_array, state'[p], using'[p])
    <2>1. CASE filesp'[p] = f
      BY <2>1, <1>1, <1>6, FileTableAssumption
    <2>2. CASE filesp'[p] # f
      <3>1. state'[p] = state[p] /\ filesp'[p] = filesp[p] /\ using'[p] = using[p]
        BY <1>6, <2>2
      <3>2. Alive(p)
        BY <1>6, <3>1 DEF Alive
      <3>3. filesp[p] # NoTable /\ filesp[p] \in Tables /\ table[filesp[p]].files_count = 1
        BY <3>2 DEF Inv, OwnTable, TypeOK
      <3>4. UsedBy(table[filesp[p]].fd_array, state[p], using[p])
        BY <3>2 DEF Inv, InUse, UsedBy, Arr
      <3>5. table'[filesp[p]] = table[filesp[p]]
        BY <3>1, <3>3, <2>2, <1>1
      <3> QED
        BY <3>1, <3>3, <3>4, <3>5
    <2> QED
      BY <2>1, <2>2
  <1>7. OwnTable'
    BY <1>4, <1>6 DEF OwnTable
  <1>8. InUse'
    BY <1>6 DEF InUse, UsedBy, Arr
  <1> QED
    BY <1>2, <1>5, <1>7, <1>8 DEF Inv

(* What a running process finds. *)
LEMMA RunningFacts ==
    ASSUME Inv, NEW p \in Procs, Alive(p)
    PROVE  /\ filesp[p] \in Tables /\ TableOK(table[filesp[p]]) /\ table[filesp[p]].files_count = 1
           /\ Arr(p) = table[filesp[p]].fd_array /\ Arr(p) \in [Fds -> FileStates]
           /\ UsedBy(Arr(p), state[p], using[p])
           /\ \A q \in Procs : Alive(q) /\ filesp[q] = filesp[p] => q = p
  <1>1. filesp[p] \in Tables /\ table[filesp[p]].files_count = 1
    BY DEF Inv, OwnTable, TypeOK
  <1>2. table[filesp[p]] \in FileTables
    BY <1>1 DEF Inv, OwnTable, TypeOK, FileTables
  <1>3. TableOK(table[filesp[p]])
    BY <1>1, <1>2 DEF Inv, RefsInv, LeadsToNodes, FreeOK, TableOK
  <1>4. UsedBy(Arr(p), state[p], using[p])
    BY DEF Inv, InUse, UsedBy
  <1>5. Arr(p) \in [Fds -> FileStates]
    BY <1>2 DEF Arr, FileTables
  <1> QED
    BY <1>1, <1>3, <1>4, <1>5 DEF Arr, Inv, OwnTable

(* A process changes its own table. *)
LEMMA OwnStep ==
    ASSUME Inv, RefsInv', NEW p \in Procs, Alive(p), NEW new, TableOK(new), new.files_count = 1,
           Replaced(filesp[p], new), filesp' = filesp,
           NEW st \in {"run", "vop", "zombie"}, NEW u \in Fds \cup {-1},
           state' = [state EXCEPT ![p] = st], using' = [using EXCEPT ![p] = u],
           st # "zombie" => UsedBy(new.fd_array, st, u)
    PROVE  Inv'
  <1>1. PICK f \in Tables : f = filesp[p]
    BY RunningFacts
  <1>2. /\ state \in [Procs -> {"none", "run", "vop", "zombie"}]
        /\ filesp \in [Procs -> Tables \cup {NoTable}] /\ using \in [Procs -> Fds \cup {-1}]
    BY DEF Inv, OwnTable, TypeOK
  <1>3. ASSUME NEW q \in Procs, Alive(q)'
        PROVE  /\ Alive(q)
               /\ IF filesp'[q] = f
                  THEN new.files_count = 1 /\ UsedBy(new.fd_array, state'[q], using'[q])
                  ELSE state'[q] = state[q] /\ filesp'[q] = filesp[q] /\ using'[q] = using[q]
    <2>1. CASE q = p
      BY <2>1, <1>1, <1>2, <1>3 DEF Alive
    <2>2. CASE q # p
      <3>1. state'[q] = state[q] /\ filesp'[q] = filesp[q] /\ using'[q] = using[q]
        BY <2>2, <1>2
      <3>2. Alive(q)
        BY <1>3, <3>1 DEF Alive
      <3>3. filesp[q] # f
        BY <1>1, <2>2, <3>2, RunningFacts
      <3> QED
        BY <3>1, <3>2, <3>3
    <2> QED
      BY <2>1, <2>2
  <1>4. \A q, r \in Procs : Alive(q)' /\ Alive(r)' /\ filesp'[q] = filesp'[r] => q = r
    BY <1>3 DEF Inv, OwnTable
  <1>5. Replaced(f, new)
    BY <1>1
  <1> QED
    BY <1>3, <1>4, <1>5, ReplacedInv

---------------------------------------------------------------------------
(* The calls on files.                                                     *)

(* Changing a descriptor leaves the rest of the table alone. *)
LEMMA WithFdFacts ==
    ASSUME NEW tab, TableOK(tab), tab.files_count = 1, NEW d \in Fds, NEW r \in FileStates,
           r.status = "OPENED" => r.node \in Nodes
    PROVE  /\ TableOK(WithFd(tab, d, r))
           /\ WithFd(tab, d, r).files_count = 1 /\ WithFd(tab, d, r).pwd = tab.pwd
           /\ WithFd(tab, d, r).fd_array = [tab.fd_array EXCEPT ![d] = r]
  <1>1. tab \in FileTables /\ tab.fd_array \in [Fds -> FileStates]
    BY DEF TableOK, FileTables
  <1>2. PICK a \in [Fds -> FileStates] : a = [tab.fd_array EXCEPT ![d] = r]
    BY <1>1
  <1>3. WithFd(tab, d, r) = [tab EXCEPT !.fd_array = a]
    BY <1>2 DEF WithFd
  <1>4. /\ WithFd(tab, d, r) \in FileTables
        /\ WithFd(tab, d, r).files_count = 1 /\ WithFd(tab, d, r).pwd = tab.pwd
        /\ WithFd(tab, d, r).fd_array = a
    BY <1>1, <1>3 DEF FileTables
  <1>5. ASSUME NEW e \in Fds, Opened(a, e) PROVE a[e].node \in Nodes
    BY <1>1, <1>2, <1>5 DEF Opened, TableOK
  <1> QED
    BY <1>2, <1>4, <1>5 DEF TableOK

(* The open counts follow the descriptor d of process p that becomes r. *)
FdCounted(p, d, r) ==
    /\ open_count' \in [Nodes -> Int]
    /\ \A n \in Nodes :
          open_count'[n] = open_count[n] - (IF Opened(Arr(p), d) /\ Arr(p)[d].node = n THEN 1 ELSE 0)
                                         + (IF r.status = "OPENED" /\ r.node = n THEN 1 ELSE 0)

(* A process changes one of its descriptors. *)
LEMMA FdStep ==
    ASSUME Inv, RefsInv', NEW p \in Procs, Alive(p), NEW d \in Fds, NEW r \in FileStates,
           r.status = "OPENED" => r.node \in Nodes,
           FdSet(p, d, r), FdCounted(p, d, r),
           filesp' = filesp,
           NEW st \in {"run", "vop"}, NEW u \in Fds \cup {-1},
           state' = [state EXCEPT ![p] = st], using' = [using EXCEPT ![p] = u],
           UsedBy([Arr(p) EXCEPT ![d] = r], st, u)
    PROVE  Inv'
  <1>1. PICK f \in Tables : f = filesp[p]
    BY RunningFacts
  <1>2. PICK tab : tab = table[f]
    OBVIOUS
  <1>3. /\ TableOK(tab) /\ tab.files_count = 1 /\ Arr(p) = tab.fd_array
        /\ tab.fd_array \in [Fds -> FileStates]
    BY <1>1, <1>2, RunningFacts
  <1>4. PICK new : new = WithFd(tab, d, r)
    OBVIOUS
  <1>5. /\ TableOK(new) /\ new.files_count = 1
        /\ new.fd_array = [tab.fd_array EXCEPT ![d] = r]
    BY <1>3, <1>4, WithFdFacts
  <1>6. table' = [table EXCEPT ![f] = new]
    BY <1>1, <1>2, <1>4 DEF WithFd, FdSet
  <1>7. open_count \in [Nodes -> Nat]
    BY DEF Inv, OwnTable, TypeOK
  <1>8. ASSUME NEW n \in Nodes
        PROVE  open_count'[n] = open_count[n] - (Uses(tab.fd_array, n) - Uses(new.fd_array, n))
    <2>1. PICK less \in {0, 1} : less = IF Opened(Arr(p), d) /\ Arr(p)[d].node = n THEN 1 ELSE 0
      OBVIOUS
    <2>2. PICK more \in {0, 1} : more = IF r.status = "OPENED" /\ r.node = n THEN 1 ELSE 0
      OBVIOUS
    <2>3. open_count'[n] = open_count[n] - less + more
      BY <2>1, <2>2 DEF FdCounted
    <2>4. Uses(new.fd_array, n) = Uses(tab.fd_array, n) - less + more
      <3>1. PICK a \in [Fds -> FileStates] : a = tab.fd_array
        BY <1>3
      <3>2. FdDelta(a, d, r, n)
        BY UsesChange
      <3> QED
        BY <1>3, <1>5, <2>1, <2>2, <3>1, <3>2 DEF FdDelta
    <2>5. Uses(tab.fd_array, n) \in Nat /\ Uses(new.fd_array, n) \in Nat
      BY UsesFacts
    <2>6. open_count[n] \in Nat /\ open_count'[n] \in Int
      BY <1>7 DEF FdCounted
    <2>7. Uses(tab.fd_array, n) - Uses(new.fd_array, n) = less - more
      BY <2>1, <2>2, <2>4, <2>5
    <2> QED
      BY <2>1, <2>2, <2>3, <2>6, <2>7
  <1>9. Replaced(f, new)
    BY <1>2, <1>6, <1>8 DEF Replaced, FdCounted
  <1>10. UsedBy(new.fd_array, st, u)
    BY <1>3, <1>5
  <1>11. Replaced(filesp[p], new) /\ st \in {"run", "vop", "zombie"} /\ TableOK(new) /\ new.files_count = 1
    BY <1>1, <1>5, <1>9
  <1> QED
    BY <1>10, <1>11, OwnStep

(* UsedBy when one descriptor changes. *)
LEMMA UsedByChange ==
    ASSUME NEW a \in [Fds -> FileStates], NEW d \in Fds, NEW r \in FileStates, NEW st, NEW u, NEW st2, NEW u2,
           UsedBy(a, st, u),
           r.open_count = (IF r.status = "OPENED" THEN 1 ELSE 0) + (IF st2 = "vop" /\ u2 = d THEN 1 ELSE 0),
           \A e \in Fds \ {d} : (st2 = "vop" /\ u2 = e) <=> (st = "vop" /\ u = e)
    PROVE  UsedBy([a EXCEPT ![d] = r], st2, u2)
  <1> DEFINE b == [a EXCEPT ![d] = r]
  <1> SUFFICES ASSUME NEW e \in Fds
               PROVE  b[e].open_count = (IF Opened(b, e) THEN 1 ELSE 0) + (IF st2 = "vop" /\ u2 = e THEN 1 ELSE 0)
    BY DEF UsedBy
  <1>1. CASE e = d
    BY <1>1 DEF Opened
  <1>2. CASE e # d
    BY <1>2 DEF Opened, UsedBy
  <1> QED
    BY <1>1, <1>2

(* Nothing but the references and the state of the machine changes. *)
LEMMA SameInv ==
    ASSUME Inv, RefsInv', UNCHANGED <<state, filesp, using, table, open_count>>
    PROVE  Inv'
  <1>1. ref_count' \in [Nodes -> Nat] /\ panicked' \in BOOLEAN
    <2>1. RefsNatural'
      BY RefsNat, PTL
    <2> QED
      BY <2>1 DEF RefsInv, ProcTypes, RefsNatural
  <1>2. OwnTable'
    BY <1>1 DEF Inv, OwnTable, TypeOK, Alive
  <1>3. FreeOK' /\ InUse'
    BY DEF Inv, FreeOK, InUse, Alive, Arr, Opened
  <1>4. OpensOK'
    BY DEF Inv, OpensOK, Descriptors
  <1> QED
    BY <1>2, <1>3, <1>4 DEF Inv

(* A running process opens or closes one of its descriptors. *)
LEMMA RunFdStep ==
    ASSUME Inv, RefsInv', NEW p \in Procs, Running(p), NEW d \in Fds, NEW r \in FileStates,
           r.status = "OPENED" => r.node \in Nodes,
           r.open_count = IF r.status = "OPENED" THEN 1 ELSE 0,
           table' = [table EXCEPT ![filesp[p]].fd_array[d] = r], FdCounted(p, d, r),
           UNCHANGED <<state, filesp, using, panicked>>
    PROVE  Inv'
  <1>1. state[p] = "run" /\ Alive(p)
    BY DEF Running, Alive
  <1>2. PICK u \in Fds \cup {-1} : u = using[p]
    BY DEF Inv, OwnTable, TypeOK
  <1>3. /\ state' = [state EXCEPT ![p] = "run"] /\ using' = [using EXCEPT ![p] = u]
        /\ filesp' = filesp
    BY <1>1, <1>2 DEF Inv, OwnTable, TypeOK
  <1>4. PICK a \in [Fds -> FileStates] : a = Arr(p)
    BY <1>1, RunningFacts
  <1>5. UsedBy(a, "run", u)
    BY <1>1, <1>2, <1>4, RunningFacts
  <1>6. UsedBy([a EXCEPT ![d] = r], "run", u)
    <2>1. r.open_count = (IF r.status = "OPENED" THEN 1 ELSE 0) + (IF "run" = "vop" /\ u = d THEN 1 ELSE 0)
      OBVIOUS
    <2> QED
      BY <1>5, <2>1, UsedByChange
  <1>7. UsedBy([Arr(p) EXCEPT ![d] = r], "run", u)
    BY <1>4, <1>6
  <1>8. "run" \in {"run", "vop"}
    OBVIOUS
  <1>9. FdSet(p, d, r)
    BY DEF FdSet
  <1> QED
    BY <1>1, <1>2, <1>3, <1>7, <1>8, <1>9, FdStep

(* The open count of node n when a descriptor is opened for it. *)
LEMMA OpenCounted ==
    ASSUME Inv, NEW p \in Procs, NEW d \in Fds, NEW n \in Nodes, NEW r,
           ~Opened(Arr(p), d), r.status = "OPENED", r.node = n,
           open_count' = [open_count EXCEPT ![n] = @ + 1]
    PROVE  FdCounted(p, d, r)
  <1>1. open_count \in [Nodes -> Nat]
    BY DEF Inv, OwnTable, TypeOK
  <1>2. open_count' \in [Nodes -> Int]
    BY <1>1
  <1>3. ASSUME NEW x \in Nodes
        PROVE  open_count'[x] = open_count[x] - 0 + (IF n = x THEN 1 ELSE 0)
    BY <1>1
  <1> QED
    BY <1>2, <1>3 DEF FdCounted

(* file_open. *)
LEMMA OpenInv ==
    ASSUME Inv, RefsInv', NEW p \in Procs, NEW n \in Nodes \cup {NoNode}, NEW acc \in Modes, NEW flags,
           file_open(p, n, acc, flags)
    PROVE  Inv'
  <1>1. PICK d \in Fds :
          /\ fd_array_alloc(p, d)
          /\ IF Unsupported(n, acc, flags)
             THEN /\ AnyCall
                  /\ panicked' = TRUE
                  /\ UNCHANGED <<table, ref_count, open_count>>
             ELSE \/ /\ MustNotExist(flags) /\ Leaks < MaxLeaks
                     /\ ref_count' = [ref_count EXCEPT ![n] = @ + 1]
                     /\ UNCHANGED <<table, open_count, panicked>>
                  \/ /\ ~MustNotExist(flags) /\ ~Refused(n, acc, flags)
                     /\ ref_count' = [ref_count EXCEPT ![n] = @ + 1]
                     /\ open_count' = [open_count EXCEPT ![n] = @ + 1]
                     /\ table' = [table EXCEPT ![filesp[p]].fd_array[d] =
                                      [status |-> "OPENED", node |-> n, acc |-> acc, open_count |-> 1]]
                     /\ UNCHANGED panicked
    BY DEF file_open
  <1>2. UNCHANGED <<state, filesp, using>> /\ Running(p)
    BY DEF file_open
  <1>3. CASE Unsupported(n, acc, flags) \/ MustNotExist(flags)
    <2>1. UNCHANGED <<state, filesp, using, table, open_count>>
      BY <1>1, <1>2, <1>3
    <2> QED
      BY <2>1, SameInv
  <1>4. CASE ~Unsupported(n, acc, flags) /\ ~MustNotExist(flags)
    <2>1. n \in Nodes
      BY <1>4 DEF Unsupported
    <2>2. PICK r : r = [status |-> "OPENED", node |-> n, acc |-> acc, open_count |-> 1]
      OBVIOUS
    <2>3. /\ r \in FileStates /\ r.status = "OPENED" /\ r.node = n /\ r.open_count = 1
      BY <2>1, <2>2, FileTableAssumption DEF FileStates
    <2>4. /\ open_count' = [open_count EXCEPT ![n] = @ + 1]
          /\ table' = [table EXCEPT ![filesp[p]].fd_array[d] = r]
          /\ UNCHANGED <<state, filesp, using, panicked>>
      BY <1>1, <1>2, <1>4, <2>2
    <2>5. ~Opened(Arr(p), d)
      BY <1>1 DEF fd_array_alloc, Opened
    <2>6. FdCounted(p, d, r)
      BY <2>1, <2>3, <2>4, <2>5, OpenCounted
    <2> QED
      BY <1>2, <2>1, <2>3, <2>4, <2>6, RunFdStep
  <1> QED
    BY <1>3, <1>4

(* file_close. *)
LEMMA CloseInv ==
    ASSUME Inv, RefsInv', NEW p \in Procs, NEW d \in Fds, file_close(p, d)
    PROVE  Inv'
  <1>1. PICK n : n = Arr(p)[d].node
    OBVIOUS
  <1>2. /\ Running(p) /\ Alive(p) /\ Opened(Arr(p), d) /\ UNCHANGED <<state, filesp, using, panicked>>
        /\ table' = [table EXCEPT ![filesp[p]].fd_array[d] = Closed]
        /\ open_count' = [open_count EXCEPT ![n] = @ - 1]
    BY <1>1 DEF file_close, fd_array_close, Running, Alive
  <1>3. n \in Nodes
    BY <1>1, <1>2, RunningFacts DEF TableOK
  <1>4. /\ Closed \in FileStates /\ Closed.status = "NONE" /\ Closed.open_count = 0
    BY DEF Closed, FileStates
  <1>5. open_count \in [Nodes -> Nat]
    BY DEF Inv, OwnTable, TypeOK
  <1>6. ASSUME NEW x \in Nodes
        PROVE  open_count'[x] = open_count[x] - (IF n = x THEN 1 ELSE 0) + 0
    BY <1>2, <1>5
  <1>7. open_count' \in [Nodes -> Int]
    BY <1>2, <1>3, <1>5
  <1>8. FdCounted(p, d, Closed)
    <2>1. ASSUME NEW x \in Nodes
          PROVE  /\ (IF Opened(Arr(p), d) /\ Arr(p)[d].node = x THEN 1 ELSE 0) = (IF n = x THEN 1 ELSE 0)
                 /\ (IF Closed.status = "OPENED" /\ Closed.node = x THEN 1 ELSE 0) = 0
      BY <1>1, <1>2, <1>4
    <2> QED
      BY <1>6, <1>7, <2>1 DEF FdCounted
  <1>9. PICK r \in FileStates : r = Closed
    BY <1>4
  <1> QED
    <2>1. /\ r.status # "OPENED" /\ r.open_count = (IF r.status = "OPENED" THEN 1 ELSE 0)
          /\ table' = [table EXCEPT ![filesp[p]].fd_array[d] = r] /\ FdCounted(p, d, r)
      BY <1>2, <1>4, <1>8, <1>9
    <2> QED
      BY <1>2, <2>1, RunFdStep

(* file_dup: the new descriptor has a count of its own. *)
LEMMA DupInv ==
    ASSUME Inv, RefsInv', NEW p \in Procs, NEW d \in Fds, NEW e \in 0 .. NFds, file_dup(p, d, e)
    PROVE  Inv'
  <1>1. PICK a : a = Arr(p)
    OBVIOUS
  <1>2. PICK n : n = a[d].node
    OBVIOUS
  <1>3. PICK r : r = [a[d] EXCEPT !.open_count = 1]
    OBVIOUS
  <1>4. PICK g \in Fds :
          /\ IF e = NFds THEN fd_array_alloc(p, g) ELSE g = e /\ Arr(p)[g].status = "NONE"
          /\ table' = [table EXCEPT ![filesp[p]].fd_array[g] = r]
    BY <1>1, <1>3 DEF file_dup
  <1>5. /\ Running(p) /\ Alive(p) /\ Opened(Arr(p), d) /\ UNCHANGED <<state, filesp, using, panicked>>
        /\ open_count' = [open_count EXCEPT ![n] = @ + 1]
    BY <1>1, <1>2 DEF file_dup, Running, Alive
  <1>6. n \in Nodes /\ a[d] \in FileStates /\ a[d].status = "OPENED"
    BY <1>1, <1>2, <1>5, RunningFacts DEF TableOK, Opened
  <1>7. /\ r \in FileStates /\ r.status = "OPENED" /\ r.node = n /\ r.open_count = 1
    BY <1>2, <1>3, <1>6 DEF FileStates
  <1>8. ~Opened(Arr(p), g)
    BY <1>4 DEF fd_array_alloc, Opened
  <1>9. FdCounted(p, g, r)
    BY <1>5, <1>6, <1>7, <1>8, OpenCounted
  <1> QED
    BY <1>4, <1>5, <1>6, <1>7, <1>9, RunFdStep

(* The use of a descriptor changes, and no inode is opened or closed. *)
LEMMA UseStep ==
    ASSUME Inv, RefsInv', NEW p \in Procs, Alive(p), NEW d \in Fds, NEW c \in 0 .. 2,
           table' = [table EXCEPT ![filesp[p]].fd_array[d].open_count = c],
           UNCHANGED <<filesp, open_count>>,
           NEW st \in {"run", "vop"}, NEW u \in Fds \cup {-1},
           state' = [state EXCEPT ![p] = st], using' = [using EXCEPT ![p] = u],
           c = (IF Opened(Arr(p), d) THEN 1 ELSE 0) + (IF st = "vop" /\ u = d THEN 1 ELSE 0),
           \A e \in Fds \ {d} : (st = "vop" /\ u = e) <=> (state[p] = "vop" /\ using[p] = e)
    PROVE  Inv'
  <1>1. PICK a \in [Fds -> FileStates] : a = Arr(p)
    BY RunningFacts
  <1>2. PICK r : r = [a[d] EXCEPT !.open_count = c]
    OBVIOUS
  <1>3. a[d] \in FileStates /\ (Opened(a, d) => a[d].node \in Nodes)
    BY <1>1, RunningFacts DEF TableOK
  <1>4. /\ r \in FileStates /\ r.status = a[d].status /\ r.node = a[d].node /\ r.open_count = c
    BY <1>2, <1>3 DEF FileStates
  <1>5. FdSet(p, d, r)
    <2>1. PICK f \in Tables : f = filesp[p]
      BY RunningFacts
    <2>2. table \in [Tables -> FileTables] /\ a = table[f].fd_array
      BY <1>1, <2>1 DEF Inv, OwnTable, TypeOK, FileTables, Arr
    <2>3. [table[f].fd_array[d] EXCEPT !.open_count = c] = r
      BY <1>2, <2>2
    <2> QED
      BY <2>1, <2>3 DEF FdSet
  <1>6. FdCounted(p, d, r)
    <2>1. open_count \in [Nodes -> Nat]
      BY DEF Inv, OwnTable, TypeOK
    <2>2. ASSUME NEW n \in Nodes, NEW less \in {0, 1}
          PROVE  open_count'[n] = open_count[n] - less + less
      BY <2>1
    <2> QED
      BY <1>1, <1>4, <2>1, <2>2 DEF FdCounted, Opened
  <1>7. PICK st0 : st0 = state[p]
    OBVIOUS
  <1>8. PICK u0 : u0 = using[p]
    OBVIOUS
  <1>9. UsedBy(a, st0, u0)
    BY <1>1, <1>7, <1>8, RunningFacts
  <1>10. r.open_count = (IF r.status = "OPENED" THEN 1 ELSE 0) + (IF st = "vop" /\ u = d THEN 1 ELSE 0)
    BY <1>1, <1>4 DEF Opened
  <1>11. UsedBy([a EXCEPT ![d] = r], st, u)
    <2>1. \A e \in Fds \ {d} : (st = "vop" /\ u = e) <=> (st0 = "vop" /\ u0 = e)
      BY <1>7, <1>8
    <2> QED
      BY <1>4, <1>9, <1>10, <2>1, UsedByChange
  <1>12. UsedBy([Arr(p) EXCEPT ![d] = r], st, u)
    BY <1>1, <1>11
  <1>13. r.status = "OPENED" => r.node \in Nodes
    BY <1>3, <1>4 DEF Opened
  <1>14. filesp' = filesp /\ r \in FileStates
    BY <1>4
  <1> QED
    BY <1>5, <1>6, <1>12, <1>13, <1>14, FdStep, ZenonT(40)

(* A call acquires the file ... *)
LEMMA OpInv ==
    ASSUME Inv, RefsInv', NEW p \in Procs, NEW d \in Fds, NEW op, file_op(p, d, op)
    PROVE  Inv'
  <1>1. Running(p) /\ Alive(p) /\ state[p] = "run" /\ Opened(Arr(p), d)
    BY DEF file_op, Running, Alive
  <1>2. Arr(p)[d].open_count = 1 /\ Arr(p) = table[filesp[p]].fd_array
    BY <1>1, RunningFacts DEF UsedBy
  <1>3. CASE op \in Ops(Arr(p)[d].node)
    <2>1. /\ table' = [table EXCEPT ![filesp[p]].fd_array[d].open_count = 2]
          /\ UNCHANGED <<filesp, open_count>>
          /\ state' = [state EXCEPT ![p] = "vop"] /\ using' = [using EXCEPT ![p] = d]
      BY <1>2, <1>3 DEF file_op
    <2>2. /\ 2 = (IF Opened(Arr(p), d) THEN 1 ELSE 0) + (IF "vop" = "vop" /\ d = d THEN 1 ELSE 0)
          /\ \A e \in Fds \ {d} : ("vop" = "vop" /\ d = e) <=> (state[p] = "vop" /\ using[p] = e)
          /\ 2 \in 0 .. 2 /\ "vop" \in {"run", "vop"} /\ d \in Fds \cup {-1}
      BY <1>1
    <2> QED
      BY <1>1, <2>1, <2>2, UseStep, ZenonT(40)
  <1>4. CASE op \notin Ops(Arr(p)[d].node)
    <2>1. UNCHANGED <<state, filesp, using, table, open_count>>
      BY <1>4 DEF file_op
    <2> QED
      BY <2>1, SameInv
  <1> QED
    BY <1>3, <1>4

(* ... and releases it. *)
LEMMA OpEndInv ==
    ASSUME Inv, RefsInv', NEW p \in Procs, file_op_end(p)
    PROVE  Inv'
  <1>1. Alive(p) /\ state[p] = "vop" /\ UNCHANGED <<filesp, open_count>>
    BY DEF file_op_end, Alive
  <1>2. PICK d \in Fds : d = using[p]
    BY <1>1 DEF Inv, RefsInv, ProcTypes
  <1>3. PICK c \in {0, 1} : c = IF Opened(Arr(p), d) THEN 1 ELSE 0
    OBVIOUS
  <1>4. Arr(p)[d].open_count = c + 1 /\ Arr(p) = table[filesp[p]].fd_array
    BY <1>1, <1>2, <1>3, RunningFacts DEF UsedBy
  <1>5. Arr(p)[d].open_count - 1 = c
    BY <1>3, <1>4, SMTT(30)
  <1>6. /\ table' = [table EXCEPT ![filesp[p]].fd_array[d].open_count = c]
        /\ state' = [state EXCEPT ![p] = "run"] /\ using' = [using EXCEPT ![p] = -1]
    BY <1>2, <1>4, <1>5 DEF file_op_end
  <1>7. /\ c = (IF Opened(Arr(p), d) THEN 1 ELSE 0) + (IF "run" = "vop" /\ -1 = d THEN 1 ELSE 0)
        /\ \A e \in Fds \ {d} : ("run" = "vop" /\ -1 = e) <=> (state[p] = "vop" /\ using[p] = e)
        /\ c \in 0 .. 2 /\ "run" \in {"run", "vop"} /\ -1 \in Fds \cup {-1}
    BY <1>2, <1>3
  <1> QED
    BY <1>1, <1>6, <1>7, UseStep, ZenonT(40)

---------------------------------------------------------------------------
(* Processes that come and go.                                             *)

(* An empty table. *)
LEMMA NewTableFacts ==
    TableOK(NewTable) /\ NewTable.files_count = 0 /\ \A n \in Nodes : Uses(NewTable.fd_array, n) = 0
  <1>1. NewTable.files_count = 0 /\ NewTable.fd_array = [d \in Fds |-> Closed]
    BY DEF NewTable
  <1>2. Closed \in FileStates /\ Closed.status = "NONE"
    BY DEF Closed, FileStates
  <1>3. NewTable \in FileTables
    BY <1>2 DEF NewTable, FileTables
  <1>4. \A d \in Fds : ~Opened(NewTable.fd_array, d)
    BY <1>1, <1>2 DEF Opened
  <1> QED
    BY <1>1, <1>3, <1>4, NewTableUses DEF TableOK

(* do_fork: the child gets a copy in a table that nobody has. *)
LEMMA ForkInv ==
    ASSUME Inv, RefsInv', NEW p \in Procs, NEW q \in Procs, do_fork(p, q)
    PROVE  Inv'
  <1>1. Running(p) /\ Alive(p) /\ state[p] = "run" /\ state[q] = "none" /\ UNCHANGED <<using, panicked>>
    BY DEF do_fork, Running, Alive
  <1>2. PICK g \in Tables : /\ table[g].files_count = 0 /\ dup_files(filesp[p], g)
                            /\ filesp' = [filesp EXCEPT ![q] = g]
    BY DEF do_fork
  <1>3. PICK new : new = table[filesp[p]]
    OBVIOUS
  <1>4. /\ TableOK(new) /\ new.files_count = 1 /\ Arr(p) = new.fd_array /\ filesp[p] \in Tables
        /\ UsedBy(new.fd_array, "run", using[p])
    BY <1>1, <1>3, RunningFacts
  <1>5. table[g] = NewTable
    BY <1>2 DEF Inv, FreeOK
  <1>6. open_count \in [Nodes -> Nat]
    BY DEF Inv, OwnTable, TypeOK
  <1>7. Replaced(g, new)
    <2>1. ASSUME NEW n \in Nodes
          PROVE  /\ open_count'[n] = open_count[n] - (Uses(table[g].fd_array, n) - Uses(new.fd_array, n))
                 /\ open_count'[n] \in Int
      <3>1. open_count'[n] = open_count[n] + Uses(new.fd_array, n)
        BY <1>2, <1>3 DEF dup_files
      <3>2. Uses(table[g].fd_array, n) = 0
        BY <1>5, NewTableFacts
      <3>3. Uses(new.fd_array, n) \in Nat /\ open_count[n] \in Nat
        BY <1>6, UsesFacts
      <3> QED
        BY <3>1, <3>2, <3>3
    <2>2. open_count' \in [Nodes -> Int]
      <3>1. open_count' = [n \in Nodes |-> open_count'[n]]
        BY <1>2 DEF dup_files
      <3> QED
        BY <2>1, <3>1
    <2>3. table' = [table EXCEPT ![g] = new]
      BY <1>2, <1>3 DEF dup_files
    <2> QED
      BY <2>1, <2>2, <2>3 DEF Replaced
  <1>8. /\ state \in [Procs -> {"none", "run", "vop", "zombie"}]
        /\ filesp \in [Procs -> Tables \cup {NoTable}] /\ using \in [Procs -> Fds \cup {-1}]
        /\ state' = [state EXCEPT ![q] = "run"]
    BY DEF Inv, OwnTable, TypeOK, do_fork
  <1>9. ASSUME NEW r \in Procs, Alive(r)', r # q
         PROVE  /\ Alive(r) /\ filesp'[r] # g
                /\ state'[r] = state[r] /\ filesp'[r] = filesp[r] /\ using'[r] = using[r]
    <2>1. state'[r] = state[r] /\ filesp'[r] = filesp[r] /\ using'[r] = using[r]
      BY <1>1, <1>2, <1>8, <1>9
    <2>2. Alive(r)
      BY <1>9, <2>1 DEF Alive
    <2>3. table[filesp[r]].files_count = 1
      BY <2>2, RunningFacts
    <2> QED
      BY <1>2, <2>1, <2>2, <2>3
  <1>10. filesp'[q] = g /\ state'[q] = "run" /\ UsedBy(new.fd_array, state'[q], using'[q])
    BY <1>2, <1>4, <1>8 DEF UsedBy
  <1>11. \A r \in Procs : Alive(r)' =>
            IF filesp'[r] = g
            THEN new.files_count = 1 /\ UsedBy(new.fd_array, state'[r], using'[r])
            ELSE state'[r] = state[r] /\ filesp'[r] = filesp[r] /\ using'[r] = using[r]
    BY <1>4, <1>9, <1>10
  <1>12. \A r, t \in Procs : Alive(r)' /\ Alive(t)' /\ filesp'[r] = filesp'[t] => r = t
    BY <1>9, <1>10 DEF Inv, OwnTable
  <1> QED
    BY <1>4, <1>7, <1>11, <1>12, ReplacedInv

(* do_fork without memory, for a process that has no table to give back. *)
LEMMA ForkFailsInv ==
    ASSUME Inv, RefsInv', NEW p \in Procs, NEW q \in Procs, do_fork_no_files(p, q), filesp[q] = NoTable
    PROVE  Inv' /\ panicked' = panicked
  <1>1. /\ UNCHANGED <<open_count, panicked>> /\ UNCHANGED <<state, filesp, using>>
        /\ table' = [g \in Tables |-> IF g = NoTable THEN [table[g] EXCEPT !.files_count = @ - 1] ELSE table[g]]
    BY DEF do_fork_no_files, put_files
  <1>2. UNCHANGED <<state, filesp, using, table, open_count>>
    BY <1>1, FileTableAssumption DEF Inv, OwnTable, TypeOK
  <1> QED
    BY <1>1, <1>2, SameInv

(* A process that can run has no file in use by a call, so that the assert of
   files_destroy holds. *)
LEMMA ExitInv ==
    ASSUME Inv, RefsInv', NEW p \in Procs, Running(p), ExitWith(p, TRUE)
    PROVE  Inv' /\ panicked' = FALSE
  <1>1. Alive(p) /\ state[p] = "run"
    BY DEF Running, Alive
  <1>2. PICK f \in Tables : f = filesp[p]
    BY <1>1, RunningFacts
  <1>3. PICK old : old = table[f]
    OBVIOUS
  <1>4. TableOK(old) /\ old.files_count = 1 /\ UsedBy(old.fd_array, "run", using[p])
    BY <1>1, <1>2, <1>3, RunningFacts
  <1>5. /\ table' = [table EXCEPT ![f] = NewTable]
        /\ open_count' = DropOpens(open_count, old, NewTable)
        /\ panicked' = \E d \in Fds : old.fd_array[d].open_count > 1
    BY <1>2, <1>3, <1>4, FileTableAssumption DEF ExitWith, put_files
  <1>6. panicked' = FALSE
    <2>1. \A d \in Fds : old.fd_array[d].open_count \in {0, 1}
      BY <1>4 DEF UsedBy
    <2> QED
      BY <1>5, <2>1
  <1>7. open_count \in [Nodes -> Nat]
    BY DEF Inv, OwnTable, TypeOK
  <1>8. PICK new : new = NewTable
    OBVIOUS
  <1>9. Replaced(f, new)
    <2>1. ASSUME NEW n \in Nodes
          PROVE  /\ open_count'[n] = open_count[n] - (Uses(old.fd_array, n) - Uses(new.fd_array, n))
                 /\ open_count'[n] \in Int
      <3>1. Uses(old.fd_array, n) \in Nat /\ Uses(new.fd_array, n) \in Nat
        BY UsesFacts
      <3>2. open_count'[n] = open_count[n] - (Uses(old.fd_array, n) - Uses(new.fd_array, n))
        BY <1>5, <1>8 DEF DropOpens
      <3> QED
        BY <1>7, <3>1, <3>2
    <2>2. open_count' \in [Nodes -> Int]
      <3>1. open_count' = [n \in Nodes |-> open_count'[n]]
        BY <1>5 DEF DropOpens
      <3> QED
        BY <2>1, <3>1
    <2> QED
      BY <1>3, <1>5, <1>8, <2>1, <2>2 DEF Replaced
  <1>10. /\ state \in [Procs -> {"none", "run", "vop", "zombie"}] /\ state' = [state EXCEPT ![p] = "zombie"]
         /\ filesp' = filesp /\ using' = using
    BY DEF Inv, OwnTable, TypeOK, ExitWith
  <1>11. ASSUME NEW r \in Procs, Alive(r)'
         PROVE  /\ Alive(r) /\ filesp'[r] # f
                /\ state'[r] = state[r] /\ filesp'[r] = filesp[r] /\ using'[r] = using[r]
    <2>1. r # p
      BY <1>10, <1>11 DEF Alive
    <2>2. state'[r] = state[r] /\ filesp'[r] = filesp[r] /\ using'[r] = using[r]
      BY <1>10, <2>1
    <2>3. Alive(r)
      BY <1>11, <2>2 DEF Alive
    <2> QED
      BY <1>1, <1>2, <2>1, <2>2, <2>3, RunningFacts
  <1>12. \A r, t \in Procs : Alive(r)' /\ Alive(t)' /\ filesp'[r] = filesp'[t] => r = t
    BY <1>11 DEF Inv, OwnTable
  <1>13. TableOK(new)
    BY <1>8, NewTableFacts
  <1>14. Inv'
    BY <1>9, <1>11, <1>12, <1>13, ReplacedInv
  <1> QED
    BY <1>6, <1>14

(* do_wait frees a process that has no use for its table, whether or not the
   memory keeps the name of it. *)
LEMMA WaitInv ==
    ASSUME Inv, RefsInv', NEW p \in Procs, do_wait(p)
    PROVE  Inv'
  <1>1. /\ state[p] = "zombie" /\ state' = [state EXCEPT ![p] = "none"]
        /\ using' = using /\ table' = table /\ open_count' = open_count
    BY DEF do_wait
  <1>2. ASSUME NEW q \in Procs, Alive(q)'
        PROVE  Alive(q) /\ state'[q] = state[q] /\ filesp'[q] = filesp[q]
    <2>1. q # p
      BY <1>1, <1>2 DEF Alive, Inv, OwnTable, TypeOK
    <2> QED
      BY <1>1, <1>2, <2>1 DEF Alive, Inv, OwnTable, TypeOK, do_wait
  <1>3. RefsNatural'
    BY RefsNat, PTL
  <1>4. TypeOK'
    BY <1>1, <1>3 DEF RefsInv, ProcTypes, Inv, OwnTable, TypeOK, RefsNatural
  <1>5. OwnTable'
    BY <1>1, <1>2, <1>4 DEF Inv, OwnTable
  <1>6. FreeOK' /\ OpensOK'
    BY <1>1 DEF Inv, FreeOK, OpensOK, Descriptors
  <1>7. InUse'
    BY <1>1, <1>2 DEF Inv, InUse, Arr
  <1> QED
    BY <1>5, <1>6, <1>7 DEF Inv

(* files_closeall and the descriptor of the program: what exec makes of the
   table of the process. *)
ExecDone(p, new) ==
    /\ TableOK(new) /\ new.files_count = 1 /\ Replaced(filesp[p], new)
    /\ \A u \in Fds \cup {-1} : UsedBy(new.fd_array, "run", u)

(* A descriptor is free after files_closeall, and the counts are right when
   the program has been opened. *)
LEMMA ExecFacts ==
    ASSUME Inv, NEW p \in Procs, Running(p), NEW n \in Files, ExecOpen(p, n)
    PROVE  \E new : ExecDone(p, new)
  <1>1. Alive(p) /\ state[p] = "run" /\ n \in Nodes
    BY DEF Running, Alive, Nodes
  <1>2. PICK f \in Tables : f = filesp[p]
    BY <1>1, RunningFacts
  <1>3. PICK old : old = table[f]
    OBVIOUS
  <1>4. /\ TableOK(old) /\ old.files_count = 1 /\ UsedBy(old.fd_array, "run", using[p])
        /\ old.fd_array \in [Fds -> FileStates] /\ old \in FileTables
    BY <1>1, <1>2, <1>3, RunningFacts DEF TableOK, Arr
  <1>5. PICK arr : arr = CloseAll(old.fd_array, 2 .. NFds - 1)
    OBVIOUS
  <1>6. Closed \in FileStates /\ Closed.status = "NONE" /\ Closed.open_count = 0
    BY DEF Closed, FileStates
  <1>7. /\ arr \in [Fds -> FileStates]
        /\ \A e \in Fds : arr[e] = IF e \in 2 .. NFds - 1 /\ Opened(old.fd_array, e) THEN Closed
                                                                                  ELSE old.fd_array[e]
    BY <1>4, <1>5, <1>6 DEF CloseAll
  <1>8. PICK mid : mid = [old EXCEPT !.fd_array = arr]
    OBVIOUS
  <1>9. /\ mid \in FileTables /\ mid.files_count = 1 /\ mid.fd_array = arr
    BY <1>4, <1>7, <1>8 DEF FileTables
  <1>10. TableOK(mid)
    <2>1. ASSUME NEW e \in Fds, Opened(arr, e) PROVE arr[e].node \in Nodes
      <3>1. arr[e] = old.fd_array[e] /\ Opened(old.fd_array, e)
        BY <1>6, <1>7, <2>1 DEF Opened
      <3> QED
        BY <1>4, <3>1 DEF TableOK
    <2> QED
      BY <1>9, <2>1 DEF TableOK
  <1>11. UsedBy(arr, "run", -1)
    BY <1>4, <1>6, <1>7 DEF UsedBy, Opened
  <1>12. PICK d : d = CHOOSE k \in Fds : /\ mid.fd_array[k].status = "NONE"
                                        /\ \A e \in 0 .. k - 1 : mid.fd_array[e].status # "NONE"
    OBVIOUS
  <1>13. d \in Fds /\ arr[d].status = "NONE"
    <2>1. 0 \in Fds /\ 1 \in Fds /\ 2 \in Fds /\ 2 \in 2 .. NFds - 1
      BY FileTableAssumption DEF Fds
    <2>2. arr[2].status = "NONE"
      <3>1. old.fd_array[2].status \in {"NONE", "OPENED"}
        BY <1>4, <2>1 DEF FileStates
      <3> QED
        BY <1>6, <1>7, <2>1, <3>1 DEF Opened
    <2>3. \E c \in Fds : arr[c].status = "NONE" /\ \A e \in 0 .. c - 1 : arr[e].status # "NONE"
      BY <2>2, FirstFree
    <2> QED
      BY <1>9, <1>12, <2>3
  <1>14. PICK r : r = [status |-> "OPENED", node |-> n, acc |-> "R", open_count |-> 1]
    OBVIOUS
  <1>15. r \in FileStates /\ r.status = "OPENED" /\ r.node = n /\ r.open_count = 1
    BY <1>1, <1>14 DEF FileStates
  <1>16. PICK new : new = WithFd(mid, d, r)
    OBVIOUS
  <1>17. /\ TableOK(new) /\ new.files_count = 1
         /\ new.fd_array = [arr EXCEPT ![d] = r]
    BY <1>1, <1>9, <1>10, <1>13, <1>15, <1>16, WithFdFacts
  <1>18. /\ table' = [table EXCEPT ![f] = new]
         /\ open_count' = [DropOpens(open_count, old, mid) EXCEPT ![n] = @ + 1]
    <2>1. /\ table' = [table EXCEPT ![f] = [mid EXCEPT !.fd_array[d] = r]]
           /\ open_count' = [DropOpens(open_count, old, mid) EXCEPT ![n] = @ + 1]
      BY <1>2, <1>3, <1>5, <1>8, <1>12, <1>14 DEF ExecOpen
    <2> QED
      BY <1>16, <2>1 DEF WithFd
  <1>19. UsedBy(new.fd_array, "run", -1)
    <2>1. /\ r.open_count = (IF r.status = "OPENED" THEN 1 ELSE 0) + (IF "run" = "vop" /\ -1 = d THEN 1 ELSE 0)
          /\ \A e \in Fds \ {d} : ("run" = "vop" /\ -1 = e) <=> ("run" = "vop" /\ -1 = e)
      BY <1>15
    <2>2. arr \in [Fds -> FileStates] /\ d \in Fds /\ r \in FileStates
      BY <1>7, <1>13, <1>15
    <2>3. UsedBy([arr EXCEPT ![d] = r], "run", -1)
      BY <1>11, <2>1, <2>2, UsedByChange
    <2> QED
      BY <1>17, <2>3
  <1>20. Replaced(f, new)
    <2>1. open_count \in [Nodes -> Nat]
      BY DEF Inv, OwnTable, TypeOK
    <2>2. ASSUME NEW x \in Nodes
          PROVE  /\ open_count'[x] = open_count[x] - (Uses(old.fd_array, x) - Uses(new.fd_array, x))
                 /\ open_count'[x] \in Int
      <3>1. PICK more \in {0, 1} : more = IF x = n THEN 1 ELSE 0
        OBVIOUS
      <3>2. Uses(new.fd_array, x) = Uses(arr, x) + more
        <4>1. /\ (IF Opened(arr, d) /\ arr[d].node = x THEN 1 ELSE 0) = 0
              /\ (IF r.status = "OPENED" /\ r.node = x THEN 1 ELSE 0) = more
          BY <1>13, <1>15, <3>1 DEF Opened
        <4>2. PICK less \in {0, 1} : less = IF Opened(arr, d) /\ arr[d].node = x THEN 1 ELSE 0
          OBVIOUS
        <4>3. Uses(new.fd_array, x) = Uses(arr, x) - less + more
          <5>1. FdDelta(arr, d, r, x)
            BY <1>7, <1>13, <1>15, UsesChange
          <5> QED
            BY <1>17, <4>1, <4>2, <5>1 DEF FdDelta
        <4>4. Uses(arr, x) \in Nat
          BY UsesFacts
        <4> QED
          BY <3>1, <4>1, <4>2, <4>3, <4>4
      <3>3. PICK u \in Nat : u = Uses(old.fd_array, x)
        BY UsesFacts
      <3>4. PICK w \in Nat : w = Uses(arr, x)
        BY UsesFacts
      <3>5. PICK a : a = DropOpens(open_count, old, mid)
        OBVIOUS
      <3>6. PICK y \in Int : y = open_count[x]
        BY <2>1
      <3>7. DOMAIN a = Nodes /\ a[x] = y - (u - w)
        BY <1>9, <3>3, <3>4, <3>5, <3>6 DEF DropOpens
      <3>8. open_count'[x] = IF x = n THEN a[x] + 1 ELSE a[x]
        BY <1>1, <1>18, <3>5, <3>7
      <3>9. open_count'[x] = y - (u - w) + more
        BY <3>1, <3>7, <3>8
      <3>10. open_count'[x] \in Int /\ y - (u - w) + more = y - (u - (w + more))
        BY <3>1, <3>9
      <3> QED
        BY <3>2, <3>3, <3>4, <3>6, <3>9, <3>10
    <2>3. open_count' \in [Nodes -> Int]
      <3>1. open_count' = [x \in Nodes |-> open_count'[x]]
        BY <1>18 DEF DropOpens
      <3> QED
        BY <2>2, <3>1
    <2> QED
      BY <1>3, <1>18, <2>2, <2>3 DEF Replaced
  <1>21. \A u \in Fds \cup {-1} : UsedBy(new.fd_array, "run", u)
    BY <1>19 DEF UsedBy
  <1> QED
    BY <1>2, <1>17, <1>20, <1>21 DEF ExecDone

(* do_execve, also when load_icode fails. *)
LEMMA ExecInv ==
    ASSUME Inv, RefsInv', NEW p \in Procs, NEW n \in Files, do_execve(p, n) \/ do_execve_bad_image(p, n)
    PROVE  Inv'
  <1>1. Running(p) /\ Alive(p) /\ state[p] = "run" /\ ExecOpen(p, n) /\ UNCHANGED <<filesp, using, panicked>>
    BY DEF do_execve, do_execve_bad_image, Running, Alive
  <1>2. PICK new : ExecDone(p, new)
    BY <1>1, ExecFacts
  <1>3. PICK u \in Fds \cup {-1} : u = using[p]
    BY DEF Inv, OwnTable, TypeOK
  <1>4. state \in [Procs -> {"none", "run", "vop", "zombie"}] /\ using \in [Procs -> Fds \cup {-1}]
    BY DEF Inv, OwnTable, TypeOK
  <1>5. PICK st \in {"run", "zombie"} : state' = [state EXCEPT ![p] = st]
    BY <1>1, <1>4 DEF do_execve, do_execve_bad_image
  <1>6. /\ using' = [using EXCEPT ![p] = u] /\ filesp' = filesp
    BY <1>1, <1>3, <1>4 DEF Inv, OwnTable, TypeOK
  <1>7. /\ TableOK(new) /\ new.files_count = 1 /\ Replaced(filesp[p], new)
        /\ st # "zombie" => UsedBy(new.fd_array, st, u)
    BY <1>2, <1>3, <1>5 DEF ExecDone
  <1>8. st \in {"run", "vop", "zombie"} /\ u \in Fds \cup {-1}
    BY <1>3, <1>5
  <1> QED
    <2>1. Alive(p) /\ state' = [state EXCEPT ![p] = st]
      BY <1>1, <1>5
    <2> QED
      BY <1>6, <1>7, <1>8, <2>1, OwnStep

---------------------------------------------------------------------------
(* The theorems.                                                           *)

(* The first process starts with an empty table. *)
LEMMA InitInv == Init => Inv /\ ~panicked
  <1> SUFFICES ASSUME Init PROVE Inv /\ ~panicked
    OBVIOUS
  <1>1. PICK f \in Tables :
       /\ state = [p \in Procs |-> IF p = InitProc THEN "run" ELSE "none"]
       /\ filesp = [p \in Procs |-> IF p = InitProc THEN f ELSE NoTable]
       /\ using = [p \in Procs |-> -1]
       /\ table = [g \in Tables |-> IF g = f THEN [NewTable EXCEPT !.files_count = 1, !.pwd = Root]
                                             ELSE NewTable]
       /\ ref_count = [n \in Nodes |-> Base(n) + (IF n = Root THEN 1 ELSE 0)]
       /\ open_count = [n \in Nodes |-> 0]
       /\ panicked = FALSE
    BY DEF Init
  <1>2. PICK first : first = [NewTable EXCEPT !.files_count = 1, !.pwd = Root]
    OBVIOUS
  <1>3. /\ NewTable \in FileTables
        /\ NewTable.fd_array = [d \in Fds |-> Closed] /\ Closed.status = "NONE" /\ Closed.open_count = 0
    BY NewTableFacts DEF TableOK, NewTable, Closed
  <1>4. /\ first \in FileTables /\ first.files_count = 1 /\ first.fd_array = NewTable.fd_array
    <2>1. PICK a : a = [NewTable EXCEPT !.files_count = 1]
      OBVIOUS
    <2>2. a \in FileTables /\ a.files_count = 1 /\ a.fd_array = NewTable.fd_array
      BY <1>3, <2>1 DEF FileTables
    <2>3. first = [a EXCEPT !.pwd = Root] /\ Root \in Nodes \cup {NoNode}
      BY <1>2, <2>1 DEF Nodes
    <2> QED
      BY <2>2, <2>3 DEF FileTables
  <1>5. /\ table = [g \in Tables |-> IF g = f THEN first ELSE NewTable] /\ table \in [Tables -> FileTables]
        /\ \A g \in Tables : table[g].fd_array = [d \in Fds |-> Closed]
    BY <1>1, <1>2, <1>3, <1>4
  <1>6. \A g \in Tables, d \in Fds : ~Opened(table[g].fd_array, d) /\ table[g].fd_array[d].open_count = 0
    BY <1>3, <1>5 DEF Opened
  <1>7. \A n \in Nodes : Cardinality(Descriptors(n)) = 0
    BY <1>6, FS_EmptySet DEF Descriptors
  <1>8. TypeOK
    <2>1. ref_count \in [Nodes -> Nat] /\ open_count \in [Nodes -> Nat]
      BY <1>1, RefsInit, RefsNat DEF RefsNatural
    <2> QED
      BY <1>1, <1>5, <2>1 DEF TypeOK, FileTables
  <1>9. OwnTable
    BY <1>1, <1>4, <1>5, <1>8, FileTableAssumption DEF OwnTable, Alive
  <1>10. FreeOK
    BY <1>4, <1>5 DEF FreeOK
  <1>11. InUse
    BY <1>1, <1>6, FileTableAssumption DEF InUse, Alive, Arr
  <1>12. OpensOK
    BY <1>1, <1>7 DEF OpensOK
  <1> QED
    BY <1>1, <1>9, <1>10, <1>11, <1>12, RefsInit DEF Inv

(* A fork that finds no memory for a table gives back the one that the memory
   of the new proc_struct happens to name (proc.c, bad_fork_cleanup_fs). *)
StaleRelease == \E p, q \in Procs : do_fork_no_files(p, q) /\ filesp[q] # NoTable

(* A process calls an operation that its inode lacks. *)
MissingCall ==
    \E p \in Procs :
       \/ \E n \in Nodes \cup {NoNode}, acc \in Modes, flags \in SUBSET Flags :
             file_open(p, n, acc, flags) /\ Unsupported(n, acc, flags)
       \/ \E d \in Fds, op \in {"read", "write", "tryseek", "fstat", "fsync", "getdirentry"} :
             file_op(p, d, op) /\ op \notin Ops(Arr(p)[d].node)

(* What a step keeps when it is neither. *)
Kept == Inv' /\ (~panicked /\ ~MissingCall => ~panicked')

(* Every step but the first keeps the invariant, and no assert fails in one
   that is not the second. *)
LEMMA NextInv ==
    ASSUME Inv, [Next]_vars, [~StaleRelease]_vars
    PROVE  Kept
  <1>0. RefsInv'
    BY RefsNext DEF Inv
  <1>1. ASSUME NEW p \in Procs, NEW n \in Nodes \cup {NoNode}, NEW acc \in Modes, NEW flags \in SUBSET Flags,
               file_open(p, n, acc, flags)
        PROVE  Kept
    <2>1. Unsupported(n, acc, flags) => MissingCall
      BY <1>1 DEF MissingCall
    <2>2. ~Unsupported(n, acc, flags) => panicked' = panicked
      BY <1>1 DEF file_open
    <2> QED
      BY <1>0, <1>1, <2>1, <2>2, OpenInv DEF Kept
  <1>2. ASSUME NEW p \in Procs, NEW d \in Fds, file_close(p, d)
        PROVE  Kept
    BY <1>0, <1>2, CloseInv DEF file_close, Kept
  <1>3. ASSUME NEW p \in Procs, NEW d \in Fds,
               NEW op \in {"read", "write", "tryseek", "fstat", "fsync", "getdirentry"}, file_op(p, d, op)
        PROVE  Kept
    <2>1. op \notin Ops(Arr(p)[d].node) => MissingCall
      BY <1>3 DEF MissingCall
    <2>2. op \in Ops(Arr(p)[d].node) => panicked' = panicked
      BY <1>3 DEF file_op
    <2> QED
      BY <1>0, <1>3, <2>1, <2>2, OpInv DEF Kept
  <1>4. ASSUME NEW p \in Procs, file_op_end(p)
        PROVE  Kept
    BY <1>0, <1>4, OpEndInv DEF file_op_end, Kept
  <1>5. ASSUME NEW p \in Procs, NEW d \in Fds, NEW e \in 0 .. NFds, file_dup(p, d, e)
        PROVE  Kept
    BY <1>0, <1>5, DupInv DEF file_dup, Kept
  <1>6. ASSUME NEW p \in Procs, NEW q \in Procs, do_fork(p, q)
        PROVE  Kept
    BY <1>0, <1>6, ForkInv DEF do_fork, Kept
  <1>7. ASSUME UNCHANGED vars
        PROVE  Kept
    <2>1. UNCHANGED <<state, filesp, using, table, open_count>> /\ panicked' = panicked
      BY <1>7 DEF vars
    <2> QED
      BY <1>0, <2>1, SameInv DEF Kept
  <1>8. ASSUME NEW p \in Procs, NEW q \in Procs, do_fork_no_files(p, q)
        PROVE  Kept
    <2>1. CASE filesp[q] = NoTable
      BY <1>0, <1>8, <2>1, ForkFailsInv DEF Kept
    <2>2. CASE filesp[q] # NoTable
      <3>1. StaleRelease
        BY <1>8, <2>2 DEF StaleRelease
      <3> QED
        BY <1>7, <3>1
    <2> QED
      BY <2>1, <2>2
  <1>9. ASSUME NEW p \in Procs, do_exit(p) \/ do_execve_no_file(p)
        PROVE  Kept
    <2>1. Running(p) /\ ExitWith(p, TRUE)
      BY <1>9 DEF do_exit, do_execve_no_file
    <2> QED
      BY <1>0, <2>1, ExitInv DEF Kept
  <1>10. ASSUME NEW p \in Procs, do_wait(p)
         PROVE  Kept
    BY <1>0, <1>10, WaitInv DEF do_wait, Kept
  <1>11. ASSUME NEW p \in Procs, NEW n \in Files, do_execve(p, n) \/ do_execve_bad_image(p, n)
         PROVE  Kept
    BY <1>0, <1>11, ExecInv DEF do_execve, do_execve_bad_image, Kept
  <1> QED
    BY <1>1, <1>2, <1>3, <1>4, <1>5, <1>6, <1>7, <1>8, <1>9, <1>10, <1>11 DEF Next

(* Whatever processes open, duplicate, inherit, close or leave behind, no inode
   has fewer references than descriptors and current directories lead to it,
   so vop_ref_dec never reclaims one in use.  There is no condition: it holds
   also when alloc_proc leaves an old table in filesp and a failing fork gives
   that table back, because files_destroy drops a table's references together
   with its descriptors. *)
THEOREM RefsEnoughCorrect == Spec => []RefsEnough
  <1>1. RefsInv /\ [Next]_vars => RefsInv'
    BY RefsNext
  <1>2. RefsInv => RefsEnough
    BY DEF RefsInv
  <1> QED
    BY <1>1, <1>2, RefsInit, PTL DEF Spec

(* The invariant holds in every behaviour in which no failing fork gives back
   a stale table. *)
THEOREM Invariance == Spec /\ [][~StaleRelease]_vars => []Inv
  <1>1. Inv /\ [Next]_vars /\ [~StaleRelease]_vars => Inv'
    BY NextInv DEF Kept
  <1> QED
    BY <1>1, InitInv, PTL DEF Spec

(* Every live process has an allocated file table of its own: fork copies,
   exit gives back, and no process reaches another's descriptors.  Nothing is
   assumed of what kmalloc returns, only that the stale table it may leave in
   filesp is never given back by a fork that fails. *)
THEOREM OwnTableCorrect == Spec /\ [][~StaleRelease]_vars => []OwnTable
  <1>1. Inv => OwnTable
    BY DEF Inv
  <1> QED
    BY <1>1, Invariance, PTL

(* In every behaviour in which no failing fork gives back a stale table and no
   process calls an operation that its inode lacks, the open counts of inodes
   and descriptors are exact and no assert of file.c, fs.c or inode.h fails. *)
THEOREM OpensExactCorrect ==
    Spec /\ [][~StaleRelease]_vars /\ [][~MissingCall]_vars => []OpensExact
  <1>1. ASSUME Inv, ~panicked, [Next]_vars, [~StaleRelease]_vars, [~MissingCall]_vars
        PROVE  Inv' /\ ~panicked'
    <2>1. Kept
      BY <1>1, NextInv
    <2>2. ~panicked /\ UNCHANGED vars => ~panicked'
      BY DEF vars
    <2> QED
      BY <1>1, <2>1, <2>2 DEF Kept
  <1>2. ASSUME Inv, ~panicked PROVE OpensExact
    <2>1. ASSUME NEW n \in Nodes PROVE open_count[n] = Cardinality(Descriptors(n)) /\ ref_count[n] >= open_count[n]
      <3>1. open_count[n] = Cardinality(Descriptors(n)) /\ ref_count[n] >= Owners(n) /\ ref_count[n] \in Int
        BY <1>2 DEF Inv, OpensOK, RefsInv, RefsEnough
      <3>2. Owners(n) = Cardinality(Descriptors(n)) + Cardinality(Pwds(n)) + Base(n)
        BY DEF Owners, Pwds
      <3>3. Cardinality(Descriptors(n)) \in Nat /\ Cardinality(Pwds(n)) \in Nat /\ Base(n) \in Nat
        BY CountFacts DEF Base
      <3> QED
        BY <3>1, <3>2, <3>3
    <2> QED
      BY <1>2, <2>1 DEF Inv, OpensExact
  <1>3. Inv /\ ~panicked => OpensExact
    BY <1>2
  <1>4. Inv /\ ~panicked /\ [Next]_vars /\ [~StaleRelease]_vars /\ [~MissingCall]_vars => (Inv /\ ~panicked)'
    BY <1>1
  <1> QED
    BY <1>3, <1>4, InitInv, PTL DEF Spec

============================================================================
