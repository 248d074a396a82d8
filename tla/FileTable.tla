----------------------------- MODULE FileTable -----------------------------
(***************************************************************************)
(* The open file tables of the processes (kern/fs/file.c, fs.c), the       *)
(* opening and closing of inodes below them (kern/fs/vfs/vfsfile.c,        *)
(* inode.c), and what fork, exec and exit do to them (proc.c).             *)
(*                                                                         *)
(* Every process has a table of its own: no caller of do_fork passes       *)
(* CLONE_FS.  table[f] is a struct files_struct: files_count, pwd and the  *)
(* array of struct file with status, node, acc (readable, writable) and    *)
(* open_count; a table that is not allocated has files_count 0.            *)
(*                                                                         *)
(* A path is represented by the inode it leads to, NoNode when there is    *)
(* none.  Positions and contents are left out; the disk does not fail.     *)
(***************************************************************************)
EXTENDS Integers, FiniteSets, Functions

CONSTANTS
    Procs, InitProc,    \* places for a struct proc_struct; the place of init
    Tables,             \* the memory for tables
    NFds,               \* FILES_STRUCT_NENTRY
    Files, Root, Stdin, \* regular files, the root directory, a device
    NoNode, NoTable,
    Modes,              \* the access modes that are used
    Flags,              \* the other flags of open that are used
    MaxLeaks,           \* bound on the references that are lost
    AnyCall,            \* TRUE: processes call operations that an inode lacks
    StaleMemory         \* TRUE: kmalloc returns memory with its old contents

Nodes == Files \cup {Root, Stdin}
Fds == 0 .. NFds - 1

ASSUME FileTableAssumption ==
    /\ InitProc \in Procs /\ NoNode \notin Nodes /\ NoTable \notin Tables
    /\ IsFiniteSet(Tables) /\ NFds \in Nat /\ NFds > 2 /\ MaxLeaks \in Nat
    /\ Modes \subseteq {"R", "W", "RW"} /\ Flags \subseteq {"CREAT", "EXCL", "TRUNC", "APPEND"}

VARIABLES
    state,              \* state[p]: "none", "run", "vop" or "zombie"
    filesp,             \* filesp[p]: the table of p
    using,              \* using[p]: the descriptor of the call p is in, or -1
    table,
    ref_count, open_count,
    panicked

vars == <<state, filesp, using, table, ref_count, open_count, panicked>>

Closed == [status |-> "NONE", node |-> NoNode, acc |-> "R", open_count |-> 0]
NewTable == [files_count |-> 0, pwd |-> NoNode, fd_array |-> [d \in Fds |-> Closed]]

(* The references held by the list of devices and by bootfs_node. *)
Base(n) == IF n \in {Root, Stdin} THEN 1 ELSE 0

Init ==
    \E f \in Tables :
       /\ state = [p \in Procs |-> IF p = InitProc THEN "run" ELSE "none"]
       /\ filesp = [p \in Procs |-> IF p = InitProc THEN f ELSE NoTable]
       /\ using = [p \in Procs |-> -1]
       /\ table = [g \in Tables |-> IF g = f THEN [NewTable EXCEPT !.files_count = 1, !.pwd = Root]
                                             ELSE NewTable]
       /\ ref_count = [n \in Nodes |-> Base(n) + (IF n = Root THEN 1 ELSE 0)]
       /\ open_count = [n \in Nodes |-> 0]
       /\ panicked = FALSE

---------------------------------------------------------------------------
(* The operations in the inode_ops of every type of inode. *)
Ops(n) ==
    CASE n \in Files -> {"read", "write", "fstat", "fsync", "tryseek", "truncate"}
      [] n = Root    -> {"fstat", "fsync", "getdirentry"}
      [] n = Stdin   -> {"read", "write", "fstat", "tryseek"}

Opened(arr, d) == arr[d].status = "OPENED"

(* How many descriptors of an array refer to node n. *)
Uses(arr, n) == Cardinality({d \in Fds : Opened(arr, d) /\ arr[d].node = n})

(* vfs_close of the node of every descriptor in D. *)
CloseAll(arr, D) == [d \in Fds |-> IF d \in D /\ Opened(arr, d) THEN Closed ELSE arr[d]]

(* The references that are lost when table old becomes new. *)
DropRefs(rc, old, new) ==
    [n \in Nodes |-> rc[n] - (Uses(old.fd_array, n) - Uses(new.fd_array, n))
                           - (IF old.pwd = n /\ new.pwd # n THEN 1 ELSE 0)]

DropOpens(oc, old, new) ==
    [n \in Nodes |-> oc[n] - (Uses(old.fd_array, n) - Uses(new.fd_array, n))]

(* put_files and files_destroy, whose assert fails for a file that is in use. *)
put_files(f) ==
    IF f # NoTable /\ table[f].files_count = 1
    THEN /\ table' = [table EXCEPT ![f] = NewTable]
         /\ ref_count' = DropRefs(ref_count, table[f], NewTable)
         /\ open_count' = DropOpens(open_count, table[f], NewTable)
         /\ panicked' = \E d \in Fds : table[f].fd_array[d].open_count > 1
    ELSE /\ table' = [g \in Tables |-> IF g = f THEN [table[g] EXCEPT !.files_count = @ - 1]
                                                ELSE table[g]]
         /\ UNCHANGED <<ref_count, open_count, panicked>>

(* The descriptors of all processes that are open for node n. *)
Descriptors(n) == {e \in Tables \X Fds : /\ Opened(table[e[1]].fd_array, e[2])
                                         /\ table[e[1]].fd_array[e[2]].node = n}

(* The references to node n that somebody can still give back. *)
Owners(n) ==
    Cardinality(Descriptors(n)) + Cardinality({f \in Tables : table[f].pwd = n}) + Base(n)

Leaks == FoldFunction(+, 0, [n \in Nodes |-> ref_count[n] - Owners(n)])

---------------------------------------------------------------------------
Running(p) == state[p] = "run" /\ ~panicked
Arr(p) == table[filesp[p]].fd_array

(* fd_array_alloc: the first free entry. *)
fd_array_alloc(p, d) ==
    /\ Arr(p)[d].status = "NONE"
    /\ \A e \in 0 .. d - 1 : Arr(p)[e].status # "NONE"

(* vop_open of the directory and of stdin refuse some modes. *)
Refused(n, acc, flags) ==
    \/ n = Root /\ (acc # "R" \/ "APPEND" \in flags)
    \/ n = Stdin /\ (acc # "R" \/ flags # {})

Truncates(flags) == flags \cap {"TRUNC", "CREAT"} # {}

MustNotExist(flags) == {"EXCL", "CREAT"} \subseteq flags

(* An operation is called that the inode_ops lack: vop_create, which no inode
   has, or vop_truncate of a directory. *)
Unsupported(n, acc, flags) ==
    \/ n = NoNode
    \/ ~MustNotExist(flags) /\ ~Refused(n, acc, flags) /\ Truncates(flags) /\ "truncate" \notin Ops(n)

(* file_open of a path that leads to node n.  When the file must not exist,
   vfs_open returns without giving back the reference of the lookup. *)
file_open(p, n, acc, flags) ==
    /\ Running(p)
    /\ "TRUNC" \in flags => acc # "R"
    /\ n = NoNode => "CREAT" \in flags
    /\ \E d \in Fds :
          /\ fd_array_alloc(p, d)
          /\ IF Unsupported(n, acc, flags)
             THEN /\ AnyCall
                  /\ panicked' = TRUE
                  /\ UNCHANGED <<table, ref_count, open_count>>
             ELSE \/ /\ MustNotExist(flags) /\ Leaks < MaxLeaks
                     /\ ref_count' = [ref_count EXCEPT ![n] = @ + 1]
                     /\ UNCHANGED <<table, open_count, panicked>>
                  \/ /\ ~MustNotExist(flags) /\ ~Refused(n, acc, flags)
                     /\ ref_count' = [ref_count EXCEPT ![n] = @ + 1]
                     /\ open_count' = [open_count EXCEPT ![n] = @ + 1]
                     /\ table' = [table EXCEPT ![filesp[p]].fd_array[d] =
                                      [status |-> "OPENED", node |-> n, acc |-> acc, open_count |-> 1]]
                     /\ UNCHANGED panicked
    /\ UNCHANGED <<state, filesp, using>>

(* Mutant: the file stays open in the inode. *)
fd_array_close_leaves_inode(p, d) ==
    /\ table' = [table EXCEPT ![filesp[p]].fd_array[d] = Closed]
    /\ ref_count' = [ref_count EXCEPT ![Arr(p)[d].node] = @ - 1]
    /\ UNCHANGED open_count

(* fd_array_close and fd_array_free. *)
fd_array_close(p, d) ==
    /\ table' = [table EXCEPT ![filesp[p]].fd_array[d] = Closed]
    /\ ref_count' = [ref_count EXCEPT ![Arr(p)[d].node] = @ - 1]
    /\ open_count' = [open_count EXCEPT ![Arr(p)[d].node] = @ - 1]

file_close(p, d) ==
    /\ Running(p) /\ Opened(Arr(p), d)
    /\ fd_array_close(p, d)
    /\ UNCHANGED <<state, filesp, using, panicked>>

(* file_read, file_write, file_seek, file_fstat, file_fsync and
   file_getdirentry: the file is acquired while the operation of the inode
   runs, which may sleep. *)
file_op(p, d, op) ==
    /\ Running(p) /\ Opened(Arr(p), d)
    /\ op = "read" => Arr(p)[d].acc # "W"
    /\ op = "write" => Arr(p)[d].acc # "R"
    /\ IF op \in Ops(Arr(p)[d].node)
       THEN /\ table' = [table EXCEPT ![filesp[p]].fd_array[d].open_count = @ + 1]
            /\ state' = [state EXCEPT ![p] = "vop"]
            /\ using' = [using EXCEPT ![p] = d]
            /\ UNCHANGED panicked
       ELSE /\ AnyCall
            /\ panicked' = TRUE
            /\ UNCHANGED <<table, state, using>>
    /\ UNCHANGED <<filesp, ref_count, open_count>>

(* Mutant: the file is not released. *)
file_op_end_keeps(p) ==
    /\ state[p] = "vop" /\ ~panicked
    /\ state' = [state EXCEPT ![p] = "run"]
    /\ using' = [using EXCEPT ![p] = -1]
    /\ UNCHANGED <<filesp, table, ref_count, open_count, panicked>>

(* fd_array_release. *)
file_op_end(p) ==
    /\ state[p] = "vop" /\ ~panicked
    /\ table' = [table EXCEPT ![filesp[p]].fd_array[using[p]].open_count = @ - 1]
    /\ state' = [state EXCEPT ![p] = "run"]
    /\ using' = [using EXCEPT ![p] = -1]
    /\ UNCHANGED <<filesp, ref_count, open_count, panicked>>

(* file_dup(d, e), e = NFds for NO_FD. *)
file_dup(p, d, e) ==
    /\ Running(p) /\ Opened(Arr(p), d)
    /\ LET n == Arr(p)[d].node
       IN  /\ \E g \in Fds :
                 /\ IF e = NFds THEN fd_array_alloc(p, g) ELSE g = e /\ Arr(p)[g].status = "NONE"
                 /\ table' = [table EXCEPT ![filesp[p]].fd_array[g] = [Arr(p)[d] EXCEPT !.open_count = 1]]
           /\ ref_count' = [ref_count EXCEPT ![n] = @ + 1]
           /\ open_count' = [open_count EXCEPT ![n] = @ + 1]
    /\ UNCHANGED <<state, filesp, using, panicked>>

---------------------------------------------------------------------------
(* Mutant: the child shares the inodes without counting them. *)
dup_files_uncounted(f, g) ==
    /\ table' = [table EXCEPT ![g] = table[f]]
    /\ UNCHANGED <<ref_count, open_count>>

(* dup_files of table f into the new table g. *)
dup_files(f, g) ==
    /\ table' = [table EXCEPT ![g] = table[f]]
    /\ ref_count' = [n \in Nodes |-> ref_count[n] + Uses(table[f].fd_array, n)
                                        + (IF table[f].pwd = n THEN 1 ELSE 0)]
    /\ open_count' = [n \in Nodes |-> open_count[n] + Uses(table[f].fd_array, n)]

(* Mutant: the child gets its parent's table, which is not counted. *)
do_fork_shares(p, q) ==
    /\ Running(p) /\ state[q] = "none"
    /\ filesp' = [filesp EXCEPT ![q] = filesp[p]]
    /\ state' = [state EXCEPT ![q] = "run"]
    /\ UNCHANGED <<using, table, ref_count, open_count, panicked>>

(* do_fork with copy_files. *)
do_fork(p, q) ==
    /\ Running(p) /\ state[q] = "none"
    /\ \E g \in Tables :
          /\ table[g].files_count = 0
          /\ dup_files(filesp[p], g)
          /\ filesp' = [filesp EXCEPT ![q] = g]
    /\ state' = [state EXCEPT ![q] = "run"]
    /\ UNCHANGED <<using, panicked>>

(* do_fork when files_create finds no memory: bad_fork_cleanup_fs calls
   put_files, though alloc_proc has not set filesp. *)
do_fork_no_files(p, q) ==
    /\ Running(p) /\ state[q] = "none"
    /\ \A g \in Tables : table[g].files_count # 0
    /\ put_files(filesp[q])
    /\ UNCHANGED <<state, filesp, using>>

(* do_exit: the table is given back only if mm is set. *)
ExitWith(p, has_mm) ==
    /\ state' = [state EXCEPT ![p] = "zombie"]
    /\ \/ has_mm /\ put_files(filesp[p])
       \/ ~has_mm /\ UNCHANGED <<table, ref_count, open_count, panicked>>
    /\ UNCHANGED <<filesp, using>>

do_exit(p) == Running(p) /\ p # InitProc /\ ExitWith(p, TRUE)

(* do_wait frees the proc_struct; what its memory contains when it is
   allocated again depends on kmalloc. *)
do_wait(p) ==
    /\ state[p] = "zombie" /\ ~panicked
    /\ state' = [state EXCEPT ![p] = "none"]
    /\ filesp' = IF StaleMemory THEN filesp ELSE [filesp EXCEPT ![p] = NoTable]
    /\ UNCHANGED <<using, table, ref_count, open_count, panicked>>

(* do_execve: files_closeall, then the program is opened, in the first free
   entry, and read.  load_icode does not close it. *)
ExecOpen(p, n) ==
    LET old == table[filesp[p]]
        new == [old EXCEPT !.fd_array = CloseAll(old.fd_array, 2 .. NFds - 1)]
        d == CHOOSE d \in Fds : /\ new.fd_array[d].status = "NONE"
                                /\ \A e \in 0 .. d - 1 : new.fd_array[e].status # "NONE"
    IN  /\ table' = [table EXCEPT ![filesp[p]] = [new EXCEPT !.fd_array[d] =
                         [status |-> "OPENED", node |-> n, acc |-> "R", open_count |-> 1]]]
        /\ ref_count' = [DropRefs(ref_count, old, new) EXCEPT ![n] = @ + 1]
        /\ open_count' = [DropOpens(open_count, old, new) EXCEPT ![n] = @ + 1]

do_execve(p, n) ==
    /\ Running(p) /\ p # InitProc
    /\ ExecOpen(p, n)
    /\ UNCHANGED <<state, filesp, using, panicked>>

(* The program cannot be opened: do_exit, with the old mm. *)
do_execve_no_file(p) == Running(p) /\ p # InitProc /\ ExitWith(p, TRUE)

(* load_icode fails: do_exit, when mm is gone. *)
do_execve_bad_image(p, n) ==
    /\ Running(p) /\ p # InitProc
    /\ ExecOpen(p, n)
    /\ state' = [state EXCEPT ![p] = "zombie"]
    /\ UNCHANGED <<filesp, using, panicked>>

Next ==
    \/ \E p \in Procs :
          \/ \E n \in Nodes \cup {NoNode}, acc \in Modes, flags \in SUBSET Flags : file_open(p, n, acc, flags)
          \/ \E d \in Fds : file_close(p, d)
          \/ \E d \in Fds, op \in {"read", "write", "tryseek", "fstat", "fsync", "getdirentry"} :
                file_op(p, d, op)
          \/ file_op_end(p)
          \/ \E d \in Fds, e \in 0 .. NFds : file_dup(p, d, e)
          \/ \E q \in Procs : do_fork(p, q) \/ do_fork_no_files(p, q)
          \/ do_exit(p) \/ do_wait(p) \/ do_execve_no_file(p)
          \/ \E n \in Files : do_execve(p, n) \/ do_execve_bad_image(p, n)

Spec == Init /\ [][Next]_vars

---------------------------------------------------------------------------
FileStates == [status : {"NONE", "OPENED"}, node : Nodes \cup {NoNode}, acc : {"R", "W", "RW"},
               open_count : 0 .. 2]

(* The type of every variable. *)
TypeOK ==
    /\ state \in [Procs -> {"none", "run", "vop", "zombie"}]
    /\ filesp \in [Procs -> Tables \cup {NoTable}]
    /\ using \in [Procs -> Fds \cup {-1}]
    /\ table \in [Tables -> [files_count : 0 .. 1, pwd : Nodes \cup {NoNode}, fd_array : [Fds -> FileStates]]]
    /\ ref_count \in [Nodes -> Nat] /\ open_count \in [Nodes -> Nat]
    /\ panicked \in BOOLEAN

Alive(p) == state[p] \in {"run", "vop"}

(* Every live process has an allocated table, and shares it with nobody.
   (The type invariant is included.) *)
OwnTable ==
    /\ TypeOK
    /\ \A p \in Procs : Alive(p) => filesp[p] # NoTable /\ table[filesp[p]].files_count = 1
    /\ \A p, q \in Procs : Alive(p) /\ Alive(q) /\ filesp[p] = filesp[q] => p = q

(* No inode has fewer references than owners, so none is reclaimed while a
   descriptor or a current directory leads to it. *)
RefsEnough == \A n \in Nodes : ref_count[n] >= Owners(n)

(* The same, with equality: no reference is lost. *)
RefsExact == \A n \in Nodes : ref_count[n] = Owners(n)

(* The use of a descriptor by a call is counted while the call lasts, and
   only then. *)
InUse ==
    \A p \in Procs : Alive(p) =>
       \A d \in Fds : Arr(p)[d].open_count =
          (IF Opened(Arr(p), d) THEN 1 ELSE 0) + (IF state[p] = "vop" /\ using[p] = d THEN 1 ELSE 0)

(* open_count of an inode is the number of its descriptors, so that vop_close
   comes with the last of them, and that of a descriptor counts the call that
   uses it; no assert of file.c, fs.c or inode.h fails. *)
OpensExact ==
    /\ \A n \in Nodes : open_count[n] = Cardinality(Descriptors(n)) /\ ref_count[n] >= open_count[n]
    /\ InUse
    /\ ~panicked

(* A process that has exited has given back its table: do_wait frees all that
   is left of it. *)
ExitedFree ==
    \A p \in Procs : state[p] = "zombie" =>
       \A f \in Tables : table[f].files_count > 0 => \E q \in Procs : Alive(q) /\ filesp[q] = f

============================================================================
