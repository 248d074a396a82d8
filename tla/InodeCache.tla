----------------------------- MODULE InodeCache -----------------------------
(***************************************************************************)
(* The in-memory inodes of the simple file system: sfs_load_inode,         *)
(* lookup_sfs_nolock, sfs_reclaim, sfs_fsync and sfs_sync of kern/fs/sfs   *)
(* with the reference counts of kern/fs/vfs/inode.c.                       *)
(*                                                                         *)
(* A thread may lose the CPU where it waits for a semaphore and where it   *)
(* reads or writes the disk, and only there.  (The RAM disk of this build  *)
(* never sleeps; the code is written for devices that do.)  fs_sem and the *)
(* semaphores sin->sem are locks as module SemLock shows; here only their  *)
(* owners are recorded.                                                    *)
(*                                                                         *)
(* node[n] is a struct inode with its sfs_inode:                           *)
(*   ino, ref_count, reclaim_count, dirty; owner is the thread that holds  *)
(*   sin->sem; ver stands for the contents of din and the file's data      *)
(* A node whose ino is NoIno is not allocated; all others are linked in    *)
(* inode_list and hash_list.                                               *)
(***************************************************************************)
EXTENDS Integers, FiniteSets

CONSTANTS
    Threads, Inos,
    Nodes,          \* the memory for inodes; kmalloc fails when it is used up
    NoIno, NoNode, NoThread,
    MaxVer,         \* bound on the number of modifications of a file
    IOErrors        \* TRUE: a write to the disk may fail

ASSUME InodeCacheAssumption ==
    /\ NoIno \notin Inos /\ NoNode \notin Nodes /\ NoThread \notin Threads
    /\ MaxVer \in Nat /\ IOErrors \in BOOLEAN
    /\ IsFiniteSet(Threads)

VARIABLES
    node,
    disk,           \* the contents of every file on the disk
    latest,         \* the contents that was written last
    fs_sem,         \* the thread that holds it, or NoThread
    held,           \* held[t]: the node thread t has a reference to
    work,           \* work[t]: the node thread t reclaims or writes back
    want,           \* want[t]: the ino that thread t loads
    todo,           \* the nodes sfs_sync has still to visit
    stranded,       \* the nodes without references whose last write failed (history)
    pc

cachevars == <<node, disk, latest, fs_sem, held, work, want, todo, stranded, pc>>

Unused == [ino |-> NoIno, ref_count |-> 0, reclaim_count |-> 0, dirty |-> FALSE,
           owner |-> NoThread, ver |-> 0]

Live(n) == node[n].ino # NoIno

CacheInit ==
    /\ node = [n \in Nodes |-> Unused]
    /\ disk = [i \in Inos |-> 0] /\ latest = [i \in Inos |-> 0]
    /\ fs_sem = NoThread
    /\ held = [t \in Threads |-> NoNode] /\ work = [t \in Threads |-> NoNode]
    /\ want = [t \in Threads |-> NoIno]
    /\ todo = {} /\ stranded = {}
    /\ pc = [t \in Threads |-> "run"]

Goto(t, c) == pc' = [pc EXCEPT ![t] = c]

---------------------------------------------------------------------------
(* Mutant: reclaim_count is not raised for a node that is about to be
   reclaimed. *)
Lookup_uncounted(n) == [n EXCEPT !.ref_count = @ + 1]

(* lookup_sfs_nolock: a node without references waits for its reclaim, which
   the new reference will call once more. *)
Lookup(n) ==
    [n EXCEPT !.ref_count = @ + 1,
              !.reclaim_count = IF n.ref_count = 0 THEN @ + 1 ELSE @]

(* sfs_load_inode: the node is in memory ... *)
load_hit(t, n) ==
    /\ pc[t] = "run" /\ held[t] = NoNode /\ fs_sem = NoThread
    /\ Live(n)
    /\ node' = [node EXCEPT ![n] = Lookup(@)]
    /\ held' = [held EXCEPT ![t] = n]
    /\ stranded' = stranded \ {n}
    /\ UNCHANGED <<disk, latest, fs_sem, work, want, todo, pc>>

(* Mutant: the disk is read without fs_sem. *)
load_miss_unlocked(t, i) ==
    /\ pc[t] = "run" /\ held[t] = NoNode /\ fs_sem = NoThread
    /\ \A n \in Nodes : node[n].ino # i
    /\ want' = [want EXCEPT ![t] = i]
    /\ Goto(t, "load")
    /\ UNCHANGED <<node, disk, latest, fs_sem, held, work, todo, stranded>>

(* ... or it is read from the disk, with fs_sem held. *)
load_miss(t, i) ==
    /\ pc[t] = "run" /\ held[t] = NoNode /\ fs_sem = NoThread
    /\ \A n \in Nodes : node[n].ino # i
    /\ fs_sem' = t
    /\ want' = [want EXCEPT ![t] = i]
    /\ Goto(t, "load")
    /\ UNCHANGED <<node, disk, latest, held, work, todo, stranded>>

(* sfs_create_inode and sfs_set_links. *)
Created(i, v) ==
    [ino |-> i, ref_count |-> 1, reclaim_count |-> 1, dirty |-> FALSE, owner |-> NoThread, ver |-> v]

load_done(t) ==
    /\ pc[t] = "load"
    /\ \E n \in Nodes :
          /\ ~Live(n)
          /\ node' = [node EXCEPT ![n] = Created(want[t], disk[want[t]])]
          /\ held' = [held EXCEPT ![t] = n]
    /\ fs_sem' = NoThread
    /\ want' = [want EXCEPT ![t] = NoIno]
    /\ Goto(t, "run")
    /\ UNCHANGED <<disk, latest, work, todo, stranded>>

(* kmalloc fails, or the disk cannot be read. *)
load_fails(t) ==
    /\ pc[t] = "load"
    /\ IOErrors \/ \A n \in Nodes : Live(n)
    /\ fs_sem' = NoThread
    /\ want' = [want EXCEPT ![t] = NoIno]
    /\ Goto(t, "run")
    /\ UNCHANGED <<node, disk, latest, held, work, todo, stranded>>

Referenced(n) == [n EXCEPT !.ref_count = @ + 1]

(* inode_ref_inc, when fork or dup copies a reference. *)
ref_inc(t, u) ==
    /\ pc[t] = "run" /\ held[t] = NoNode /\ held[u] # NoNode
    /\ held' = [held EXCEPT ![t] = held[u]]
    /\ node' = [node EXCEPT ![held[u]] = Referenced(@)]
    /\ UNCHANGED <<disk, latest, fs_sem, work, want, todo, pc, stranded>>

Modified(n, v) == [n EXCEPT !.ver = v, !.dirty = TRUE]

(* sfs_io and sfs_truncfile change the file under sin->sem. *)
modify(t) ==
    /\ pc[t] = "run" /\ held[t] # NoNode
    /\ LET n == held[t]
           i == node[n].ino
       IN  /\ node[n].owner = NoThread /\ latest[i] < MaxVer
           /\ latest' = [latest EXCEPT ![i] = @ + 1]
           /\ node' = [node EXCEPT ![n] = Modified(@, latest[i] + 1)]
    /\ UNCHANGED <<disk, fs_sem, held, work, want, todo, pc, stranded>>

---------------------------------------------------------------------------
(* sin->sem is taken and dirty cleared before the disk write. *)
Claimed(n, t) == [n EXCEPT !.dirty = FALSE, !.owner = t]

(* sfs_fsync of node n, up to the disk write; it goes on at place c. *)
FlushBegin(t, n, c) ==
    /\ node[n].dirty /\ node[n].owner = NoThread
    /\ node' = [node EXCEPT ![n] = Claimed(@, t)]
    /\ work' = [work EXCEPT ![t] = n]
    /\ Goto(t, c)

(* The write ends: the node is clean, or dirty again. *)
Flushed(n, ok) == [n EXCEPT !.dirty = ~ok, !.owner = NoThread]

sfs_fsync(t) ==
    /\ pc[t] = "run" /\ held[t] # NoNode
    /\ FlushBegin(t, held[t], "fsync")
    /\ UNCHANGED <<disk, latest, fs_sem, held, want, todo, stranded>>

(* The disk write of any of the three callers. *)
sfs_fsync_end(t, ok) ==
    LET n == work[t]
    IN  /\ pc[t] \in {"fsync", "sync_write", "reclaim_write"}
        /\ ok \/ IOErrors
        /\ disk' = IF ok THEN [disk EXCEPT ![node[n].ino] = node[n].ver] ELSE disk
        /\ \/ /\ pc[t] # "reclaim_write"
              /\ node' = [node EXCEPT ![n] = Flushed(@, ok)]
              /\ work' = [work EXCEPT ![t] = NoNode]
              /\ Goto(t, IF pc[t] = "fsync" THEN "run" ELSE "sync")
              /\ UNCHANGED <<fs_sem, stranded>>
           \/ /\ pc[t] = "reclaim_write" /\ ok
              /\ node' = [node EXCEPT ![n] = Unused]
              /\ work' = [work EXCEPT ![t] = NoNode]
              /\ fs_sem' = NoThread
              /\ Goto(t, "run")
              /\ UNCHANGED stranded
           \/ /\ pc[t] = "reclaim_write" /\ ~ok
              /\ node' = [node EXCEPT ![n] = Flushed(@, ok)]
              /\ work' = [work EXCEPT ![t] = NoNode]
              /\ fs_sem' = NoThread
              /\ stranded' = stranded \cup {n}
              /\ Goto(t, "run")
        /\ UNCHANGED <<latest, held, want, todo>>

(* sfs_sync walks through inode_list with fs_sem held. *)
sfs_sync(t) ==
    /\ pc[t] = "run" /\ fs_sem = NoThread
    /\ fs_sem' = t
    /\ todo' = {n \in Nodes : Live(n)}
    /\ Goto(t, "sync")
    /\ UNCHANGED <<node, disk, latest, held, work, want, stranded>>

sfs_sync_node(t) ==
    /\ pc[t] = "sync"
    /\ \E n \in todo :
          /\ todo' = todo \ {n}
          /\ \/ FlushBegin(t, n, "sync_write")
             \/ ~node[n].dirty /\ UNCHANGED <<node, work, pc>>
    /\ UNCHANGED <<disk, latest, fs_sem, held, want, stranded>>

sfs_sync_end(t) ==
    /\ pc[t] = "sync" /\ todo = {}
    /\ fs_sem' = NoThread
    /\ Goto(t, "run")
    /\ UNCHANGED <<node, disk, latest, held, work, want, todo, stranded>>

---------------------------------------------------------------------------
Dropped(n) == [n EXCEPT !.ref_count = @ - 1]

(* inode_ref_dec: the last reference calls vop_reclaim. *)
ref_dec(t) ==
    /\ pc[t] = "run" /\ held[t] # NoNode
    /\ LET n == held[t]
       IN  /\ node' = [node EXCEPT ![n] = Dropped(@)]
           /\ IF node[n].ref_count = 1
              THEN Goto(t, "reclaim") /\ work' = [work EXCEPT ![t] = n]
              ELSE UNCHANGED <<pc, work>>
    /\ held' = [held EXCEPT ![t] = NoNode]
    /\ UNCHANGED <<disk, latest, fs_sem, want, todo, stranded>>

(* Mutants: the reclaim looks at the reference count only; it never happens
   when another one was called; it happens without a look at dirty. *)
MustReclaim_ref_only(n) == n.ref_count = 0
MustReclaim_never(n) == FALSE
NeedsFlush_never(n) == FALSE

(* The test of sfs_reclaim, after reclaim_count was decremented. *)
MustReclaim(n) == n.reclaim_count = 1 /\ n.ref_count = 0

NeedsFlush(n) == n.dirty

Reclaiming(n) == [n EXCEPT !.reclaim_count = @ - 1]

(* sfs_reclaim with fs_sem held: it is too early, or the node is freed, at
   once or when it has been written back.  nlinks is never 0: unlink is not
   implemented. *)
sfs_reclaim(t) ==
    LET n == work[t]
    IN  /\ pc[t] = "reclaim" /\ fs_sem = NoThread
        /\ \/ /\ ~MustReclaim(node[n])
              /\ node' = [node EXCEPT ![n] = Reclaiming(@)]
              /\ work' = [work EXCEPT ![t] = NoNode]
              /\ Goto(t, "run")
              /\ UNCHANGED fs_sem
           \/ /\ MustReclaim(node[n]) /\ ~NeedsFlush(node[n])
              /\ node' = [node EXCEPT ![n] = Unused]
              /\ work' = [work EXCEPT ![t] = NoNode]
              /\ Goto(t, "run")
              /\ UNCHANGED fs_sem
           \/ /\ MustReclaim(node[n]) /\ NeedsFlush(node[n])
              /\ node[n].owner = NoThread
              /\ node' = [node EXCEPT ![n] = Claimed(Reclaiming(@), t)]
              /\ fs_sem' = t
              /\ Goto(t, "reclaim_write")
              /\ UNCHANGED work
        /\ UNCHANGED <<disk, latest, held, want, todo, stranded>>

Finish(t) ==
    \/ load_done(t) \/ load_fails(t) \/ sfs_fsync_end(t, TRUE) \/ sfs_fsync_end(t, FALSE)
    \/ sfs_sync_node(t) \/ sfs_sync_end(t) \/ sfs_reclaim(t)

CacheNext ==
    \E t \in Threads :
       \/ \E n \in Nodes : load_hit(t, n)
       \/ \E i \in Inos : load_miss(t, i)
       \/ \E u \in Threads : ref_inc(t, u)
       \/ modify(t) \/ sfs_fsync(t) \/ sfs_sync(t) \/ ref_dec(t)
       \/ Finish(t)

(* A call that was begun goes on, and a thread that waits for fs_sem gets it:
   the semaphore serves its waiters in order. *)
Fairness == \A t \in Threads : WF_cachevars(Finish(t)) /\ SF_cachevars(sfs_reclaim(t))

CacheSpec == CacheInit /\ [][CacheNext]_cachevars
FairSpec == CacheSpec /\ Fairness

---------------------------------------------------------------------------
PCs == {"run", "load", "fsync", "sync", "sync_write", "reclaim", "reclaim_write"}

NodeType == [ino : Inos \cup {NoIno}, ref_count : Nat, reclaim_count : Nat,
             dirty : BOOLEAN, owner : Threads \cup {NoThread}, ver : 0 .. MaxVer]

(* The type of every variable. *)
TypeOK ==
    /\ node \in [Nodes -> NodeType]
    /\ disk \in [Inos -> 0 .. MaxVer] /\ latest \in [Inos -> 0 .. MaxVer]
    /\ fs_sem \in Threads \cup {NoThread}
    /\ held \in [Threads -> Nodes \cup {NoNode}] /\ work \in [Threads -> Nodes \cup {NoNode}]
    /\ want \in [Threads -> Inos \cup {NoIno}]
    /\ todo \subseteq Nodes /\ stranded \subseteq Nodes
    /\ pc \in [Threads -> PCs]

(* Nobody refers to a node that was freed: not a holder of a reference, not
   a second reclaim of the same node, not sfs_sync. *)
NoUseAfterFree ==
    /\ \A t \in Threads : /\ held[t] # NoNode => Live(held[t])
                          /\ work[t] # NoNode => Live(work[t])
    /\ \A n \in todo : Live(n)

OneNodePerIno == \A m, n \in Nodes : Live(m) /\ node[m].ino = node[n].ino => m = n

(* reclaim_count counts the calls of sfs_reclaim that are still to come: those
   that wait for fs_sem, and the one of the last reference.  So its assert
   holds, and the last of them frees the node.  (The type invariant is
   included.) *)
ReclaimCount ==
    TypeOK /\ \A n \in Nodes :
       /\ node[n].ref_count = Cardinality({t \in Threads : held[t] = n})
       /\ node[n].reclaim_count =
             Cardinality({t \in Threads : pc[t] = "reclaim" /\ work[t] = n})
             + (IF node[n].ref_count > 0 THEN 1 ELSE 0)

(* There is one node for an ino, so that all threads see the same file, and no
   modification is lost when a node is dropped, even if a write fails. *)
NoLostUpdate ==
    /\ OneNodePerIno
    /\ \A i \in Inos :
          \/ \E n \in Nodes : /\ node[n].ino = i /\ node[n].ver = latest[i]
                              /\ node[n].dirty \/ node[n].owner # NoThread \/ disk[i] = latest[i]
          \/ (\A n \in Nodes : node[n].ino # i) /\ disk[i] = latest[i]

(* A node that nobody uses any more is freed or used again, unless it could
   not be written to the disk. *)
NoLeak ==
    \A n \in Nodes : (Live(n) /\ node[n].ref_count = 0) ~>
                        (~Live(n) \/ node[n].ref_count > 0 \/ n \in stranded)

============================================================================
