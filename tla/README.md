# A verification of the ucore kernel (lab8)

The repository holds the stages of one teaching kernel, ucore for RISC-V: `lab1`
to `lab6` build it up, and `lab8` is the complete system. This project models the
kernel of `src/lab8/kern`; paths below are relative to that directory unless they
start with `src/`. Earlier labs matter where they contain code that lab8 does not
have: the best-fit allocator of lab2 is modelled beside the first-fit one; the other
allocators of lab2 and the copy-on-write of lab5 come last in the plan.

## 1. The system

The kernel runs on one hart. User processes enter it by traps; inside the kernel
interrupts are off for them, so that kernel code runs from one call of
`schedule()` to the next without interruption. Kernel threads (and `init`) run
with interrupts on, and are interrupted, but a thread loses the CPU only in
`schedule()`: `trap()` reschedules only when it returns to user mode. All
concurrency is therefore interleaving at `schedule()`, at the points where
interrupts are enabled, and, for code written for slow devices, at disk accesses.

The only disk is a RAM disk. It never sleeps, and panics where an access fails. The
locks that the file system holds over disk accesses, the error paths behind them, and the pauses of
`load_icode` between two pages are therefore code for a disk which this build does not have. Two models
give the code that disk all the same, because it is what the code is for: in `InodeCache` a
disk access may sleep and a write may fail, and in `Vm` other processes run between two
pages of `load_icode`. Their interleavings include all those of the RAM disk, and more.
`SfsFile` goes the other way in one place: it relies on the RAM disk for the tests
that `sfs_tryseek` and `sfs_truncfile` make without a lock (section 5).

| Part | State | Operations | Talks to | What is hard |
|---|---|---|---|---|
| Scheduler (`schedule/sched.c`, `default_sched.c`) | `current`, run queue, time slices, `need_resched` | `wakeup_proc`, `schedule`, `RR_*` | everything that sleeps | a process queued twice or lost; starvation |
| Timers (`schedule/sched.c`) | delta list of stack-allocated timers | `add_timer`, `del_timer`, `run_timer_list` | `do_sleep`, clock interrupt | several timers in one tick; early wakeup |
| Processes (`process/proc.c`, `trap/trap.c`) | process tree, states, `PF_EXITING` | fork, exit, wait, kill, sleep, yield, exec | scheduler, timers, files, memory | lost wakeups, orphans, kill in every state |
| Semaphores (`sync/sem.c`, `wait.c`) | value, queue of waiters | `down`, `try_down`, `up` | scheduler | hand-over of permits, kill of a waiter |
| Monitor, philosophers (`sync/monitor.c`, `check_sync.c`) | semaphores and counters | `cond_wait`, `cond_signal` | semaphores | Hoare hand-over, forgotten neighbours, deadlock |
| Page allocator (`mm/default_pmm.c`) | linked list of free blocks | `alloc_pages`, `free_pages` | everybody | order of insertion and merging |
| Kernel heap (`mm/kmalloc.c`) | circular list of SLOB blocks | `kmalloc`, `kfree` | page allocator | alignment and merging |
| Virtual memory (`mm/vmm.c`, `pmm.c`) | VMA list with a cache, page tables, page references | map, fork copy, unmap | page allocator, fork, exit | failure half-way, stale cache |
| VFS and open files (`fs/file.c`, `fs.c`, `fs/vfs`) | descriptor tables, reference and open counts | open, close, dup, read, fork, exec, exit | inodes, processes | counts over long sequences of calls |
| SFS inode cache (`fs/sfs/sfs_inode.c`, `sfs_fs.c`) | hash list of inodes, `reclaim_count`, dirty | load, reclaim, fsync, sync | disk, VFS | reclaim racing a lookup, failing write |
| SFS files (`fs/sfs/sfs_inode.c`, `bitmap.c`) | block maps, free map, sizes | read, write, seek, truncate | disk | full disk in the middle, reuse of blocks |
| Devices, console (`fs/devs`, `driver`) | two ring buffers, the queue of readers | clock interrupt, read | scheduler, wait queues | full buffers, killed or competing readers |

What makes each part correct is stated by the properties in section 3; the
`hazards` of PROJECT.json give the line of code at which each could go wrong.

## 2. The modules

Every C function that only computes on one data structure is an operator from
record to record; every handler is an action. Names are those of the C code.

| Module | Models | How its state corresponds to the code |
|---|---|---|
| `Sched` | `sched.c`, `default_sched.c` | one record `k`: `current`, `state`, `wait_state`, `run_list`, `time_slice`, `need_resched`, and `panic` for a failed assert |
| `Timers` | the timer list | a sequence of `[proc, expires]` with differences, as in the code |
| `Process` | `proc.c`, `trap.c` | `k`, `timers`, `parent`, `exiting` (PF_EXITING), `pc` = where a process goes on when it next runs, `in_timer` = inside `run_timer_list` |
| `Sem` | `sem.c`, `wait.c` | a semaphore is `[value, wait_queue]`, `wakeup_flags` the field of the `wait_t` on each stack |
| `SemLock` | processes that use a semaphore as a lock, as `lock_sin`, `lock_sfs_fs` and the others do | adds `holds`, who is in its critical section |
| `FifoLock` | the abstract first-come first-served lock | refined by `SemLock`: holders are the processes with a permit, woken ones included; the queue is the wait queue |
| `Monitor` | `monitor.c` | counters and the semaphores of one monitor |
| `CheckSync` | `check_sync.c` | `N` philosophers, both phases, the main thread waiting for them. The code is compiled, but its call in `init_main` (`process/proc.c:1176`) is commented out: the boot runs none of it |
| `Pid` | `get_pid` | the list of pids in use, `last_pid`, `next_safe`, and `le`, where the loop is in the list: a step is one turn of the loop |
| `Input` | the buffers of `console.c` and `dev_stdin.c` | records `[buf, rpos, wpos]`, operators only |
| `Console` | the input path on its own | the two buffers and what the last read returned |
| `CharQueue` | two abstract queues of characters and what their overflow loses | refined by `Console` |
| `Stdin` | processes that read the keyboard | `Process` and `Input` with `wait_queue` and `left`, what a read still wants; three more places of a process |
| `PageAlloc` | the abstract allocator with the policies first fit and best fit | a set of free pages |
| `FirstFit` | `default_pmm.c`, `best_fit_pmm.c` of lab2, `list.h` | the `next` and `prev` links one by one, `property`, `PG_property`, `nr_free`; `pmm_manager` selects the allocator |
| `PageTables` | the page tables of `pmm.c` | one record of the physical memory: free pages, `ref`, table entries, contents; operators only |
| `Vm` | `vmm.c`, and fork, exec and exit of `proc.c` as far as memory goes | `mm` with its directory and its sorted `mmap_list`; `todo`, what `load_icode` has still to load |
| `AddrSpaces` | the abstract memory: every process has its own | refined by `Vm`: what a process can read through its page tables |
| `InodeCache` | SFS inodes in memory | nodes with `ref_count`, `reclaim_count`, `dirty`; a version number for the contents |
| `FileTable` | `file.c`, `fs.c`, `vfsfile.c` and the file part of fork, exec, exit | tables with `files_count`, `pwd`, descriptors; counts of the inodes |
| `SfsFile` | blocks of SFS files | `din`, the contents of blocks as data and as indirect block, `freemap`, `unused_blocks` |
| `SchedProofs` | | lemmas about the operators of `Sched` |
| `ProcessProofs` | | theorems about `Process`, `Stdin` and `Pid`, lemmas about `Timers` |
| `SemLockProofs`, `CheckSyncProofs`, `FileTableProofs`, `FirstFitProofs`, `VmProofs` | | theorems about the module of that name |
| `SfsProofs` | | theorems about `SfsFile` and `InodeCache` |
| `MC*` | | instances for TLC |

Composition: `Process` = `Sched` + `Timers`; `SemLock` = `Sem` + `Sched`;
`CheckSync` = `Monitor` + `Sem` + `Sched`; `Stdin` = `Process` + `Input`; `Vm` uses
`PageTables`, and takes from the allocator only what `PageAlloc` promises. `InodeCache` and `SfsFile` take the locks
as given (only the owner is recorded): that semaphores are locks is what `SemLock`
shows. Definitions called "Mutant" are deliberately wrong variants of an operator;
for every property there is one that violates it, so that no property holds only
by the shape of the model.

## 3. The runs

| Run | Instance | Properties and what they say |
|---|---|---|
| `process` | init, 3 slots for user processes and 1 kernel thread, a process table for 5; 678 000 states | `TypeOK`; `ControlOK`: state and place of the code agree; `RunQueue`: exactly the runnable processes, once each; `NoPanic`; `SleepersHaveTimers`: no timer outlives its stack frame; `NoLostChild`: no parent sleeps in `do_wait` while a child it waits for is a zombie; `LiveParent`: no parent pointer dangles |
| `stdin` | 2 user processes, keys at any tick, fairness; 78 000 states | `ReadersWake`: who sleeps for a key is in the queue and the buffer is empty; `NoStarvation`; `SleepEnds`; `OrphansReaped`; `KilledExitOrBlocked`: what is left of the promise of `kill`; `ReadEnds`: a read without competitors ends while somebody types |
| `console` | rings of 3, bursts of 3 keys, reads of up to 3; 19 000 states | `QueueSpec`: refinement of `CharQueue` |
| `pid` | 9 pids for 4 processes, as many forks and exits as one likes; 2 500 states | `PidsUnique`: no pid twice, and none in use inside the cached range |
| `process_kill_lost` | 2 user processes, fairness | `KilledExit` is violated, see section 5 |
| `sem_lock` | 3 processes, 1 permit, fairness | `PermitsOK`: none lost, made up or idle beside a waiter; `QueueOK`, `NoPanic`; `FifoSpec`: refinement of `FifoLock`; `WaitersServed` |
| `check_sync` | 3 philosophers, 2 meals in each phase, fairness | `ForksExclusive`; `WorkConserving`: nobody is hungry beside free forks when no routine is under way; `OneActive`: one thread in the monitor, and its counters tell who waits; `Finishes` |
| `page_alloc` | 9 pages; with first fit the last stays free | `BlocksOK`: sorted, merged, linked both ways, counted; `AbstractSpec`: refinement of `PageAlloc` with the policy of the allocator |
| `vm` | 2 processes, 18 pages, tables of 2 entries, 3 address spaces in all; 28 000 states | `PagesOwned`: no page has two uses, or one while it is free; `VmaMapped`: the vma list is sorted and says what is mapped; `LeavesFreed`: no page of a process is lost; `MemorySpec`: refinement of `AddrSpaces` |
| `inode_cache` | 3 threads, 2 files, 2 nodes, failing writes, fairness | `NoUseAfterFree`, `ReclaimCount`, `NoLeak`; `NoLostUpdate`: one node for a file, and no modification of it is lost |
| `file_table` | init and 2 processes, 2 tables of 3 descriptors, 386 000 states | `OwnTable`; `RefsEnough`: every descriptor and current directory keeps its inode; `OpensExact`: the counts of opens and uses are right and no assert fails |
| `sfs_file` | 2 files, 3 blocks of 2 bytes, 1 direct block, 1 150 000 states | `BlocksOK`: a block is free or in one place of one file; `ContentsOK`: files read back what was written; `SizeMatches`: the assert of `sfs_truncfile`, for files whose enlargement did not fail |

Bounds. `MaxTimeSlice` is 1 in the runs: a longer slice only delays a
preemption that the clock could as well bring at once. Two sleeping times give equal, earlier and later
timers and several expiries in one tick. Three user processes are needed for a child
that becomes an orphan when its parent is not a child of init; the process
table has room for five, so that fork also finds it full and the third user process runs
when the kernel thread has gone. Rings of three characters are full, empty and wrapped around within a few
steps, and a burst of three overflows them in one tick; the `stdin` run needs only one
character and a buffer for one, since it asks who wakes. Nine pids for four processes make the
range of `get_pid` bounded by a live pid on both sides of the wrap-around. In `vm` tables of two entries
give segments that share a page table, a directory, or nothing; 18 pages are used up by the
third address space at every place of fork and exec; both programs are the shapes of
the repository's own (`user/testbss.c` has the large data segment). Three philosophers are the smallest ring
in which the neighbours of one are neighbours of each other; two meals make the
second one start from states left by the first. Nine pages with requests of up to
three give lists of three blocks and merges on both sides. Two tables and three
processes make fork fail for want of memory. Three blocks let one file reach its
indirect block and leave too few for the other. `MaxVer`, `MaxLeaks` and `Lens`
bound histories and inputs and appear in guards only, and so do `MaxSpaces`, `MaxBurst` and `MaxRead`. The symmetry sets permute slots that no
definition distinguishes, and are used in runs of invariants only.

Deadlock is checked except in `sfs_file`, where a panic is a final state. The other
models have an explicit stuttering step where the system stops on purpose
(`Halted`, `Done`); in `Vm` that includes a kernel that has panicked or hangs, and
what its properties say holds up to then.

Fairness. `Process`: weak fairness of the timer code, strong fairness of the
kernel, of the bodies of kernel threads and of the clock, because an interrupt
returns long before the next one comes, and none of user code, which may loop for
ever. `Stdin` assumes the same and nothing of the keyboard; `ReadEnds` has the typist
as its hypothesis (`Typing`). `SemLock`: holders eventually leave their critical section if they get the
CPU again and again; everything else is the CPU and the clock. `CheckSync`: the CPU
runs and timers expire. `InodeCache`: calls proceed, and `fs_sem` serves its waiters, which is what
`sem_lock` shows of a semaphore.

## 4. The proofs

TLAPS proves the following for every value of the constants. Every property below that
a run of section 3 checks had passed TLC on that instance before it was proved.

`ProcessProofs` (with `SchedProofs` for the operators of the scheduler): `TypeCorrect`,
`RunQueueCorrect`, `ControlCorrect`, `NoLostChildCorrect`, `LiveParentCorrect`,
`SleepersCorrect`, `ZombiesStayCorrect` and `NoPanicCorrect`. They assume `~KillInit`, that nobody kills `init`
(see section 5), and the named assumptions of the modules. The inductive invariant
`Inv` is the conjunction of the first six properties with two facts that make them
inductive: no process has two timers (`DistinctOwners`), and the facts about
parents in `Family` (idle is the parent of init, and no process is its own). Hardly one of them is inductive alone: that no wakeup is lost rests
on the agreement of `wait_state` with the place of the code, and that a zombie
stays one rests on zombies never being in the run queue or in the timer list.

`NoPanicCorrect` needs a second invariant, `Quiet`. The assert of `init_main`, that two
processes are left when `init` has no child, is not about `init` alone: a ring of processes, each
the parent of the next, would satisfy `LiveParent` and be left over. `Generations` excludes
it with a rank that grows from parent to child and that adoption by `init` does not disturb, and
`CountOK` ties `nr_process` to the processes there are. The assert of `run_timer_list`
needs that no timer in the list has expired outside of the interrupt (`TimersWait`), and with that
that `add_timer` puts the new timer where the sum of the differences before it does
not exceed its time. What the partial sums are is proved in the first part of `ProcessProofs` without an induction rule, by
looking at the least position at which a claim would fail.

The same module carries this over to `Stdin`: `ProcessesWithStdin` says that all of it (but for the panics) still holds
when processes also sleep in `dev_stdin_read`, and `ReadersWakeCorrect` that no wakeup is lost between the
keyboard and the readers. The invariant is `Inv` together with `Readers`: the positions of both buffers are in order,
the wait queue names nobody twice, whoever sleeps for the keyboard is on it and the buffer is
then empty (`SleepersQueued`), and whoever is on it has not yet left the function (`QueuedRead`). The lemmas about `wakeup_proc`
show that `wakeup_queue`, a fold over the queue, makes exactly its members runnable, whatever their number.

`SemLockProofs`: `PermitsCorrect`, `QueueCorrect`,
`NoPanicCorrect`, and `Refinement`: `Spec => FifoSpec`. The inductive invariant
`LInv` says in addition that a process waits for the semaphore only inside
`down()`, that one which is inside and not in the queue has been given the permit
(its flags are `WT_KSEM`), and that its permit is counted. The refinement
mapping counts such a process as a holder; a step of `up()` is then
the abstract hand-over and the later `schedule()` a stuttering step.

`CheckSyncProofs`: `ForksExclusiveCorrect`, `WorkConservingCorrect` and `OneActiveCorrect`, for any
number of philosophers (two or more) and of meals, both with semaphores and with the monitor. The
invariant says for every philosopher what its place in the code means: which semaphore it sleeps in
(the wait queues hold exactly the sleepers, each once: `QOK`), what its entry of the state array is (`StateOK`), when its
own semaphore has a permit (`GrantOK`) and who is inside the critical section or the monitor (`MutexOK`).
Neighbours are kept apart by `NeighbourOK`. `HungryOK` is `WorkConserving` with the one
exception that makes it inductive: a hungry philosopher may have two idle neighbours while the left one is
still inside `put_forks` and has yet to look at its right, even if it was
suspended there by the `cond_signal` to its left. In the monitor the signaller has the entry of
`MutexOK` back only when the woken thread leaves; `MonitorOK` counts the suspended signallers.
The lemmas `DownStep` and `UpStep` say once what `down` and `up` do to scheduler, queue and
place, and every action of both kinds of philosophers rests on them.

`PidsUniqueCorrect`, in `ProcessProofs`. The invariant is that of the loop: of the processes which the loop has passed,
none has `last_pid` and none a pid between `last_pid` and `next_safe`; inside the
loop `last_pid < next_safe`. Incrementing `last_pid` in the middle of the list keeps it, because the new value is still
below `next_safe`; that is what the restart at `last_pid >= next_safe` is for.
That the loop ends is not proved (`MAX_PID > MAX_PROCESS` is the reason); TLC sees it as absence of deadlock on the instance only.

In `SfsProofs`, about `InodeCache`: `NoUseAfterFreeCorrect`, `ReclaimCountCorrect` and `NoLostUpdateCorrect`, for any
number of threads, files and nodes, with a disk that sleeps and may fail a write. The counters are the centre: `ref_count` is the
number of threads that hold the node, `reclaim_count` that of the calls of `sfs_reclaim` waiting for
`fs_sem`, and one more while there are references. A `sfs_reclaim` that finds both zero is
therefore the last, and nobody else refers to the node. The rest of the invariant says who has `fs_sem` and `sin->sem`
at each place (`Control`, `OwnersOK`), that a thread which loads a file has found no node of it, and that a node which is not dirty and not
being written is the same as the disk (`Versions`).

In `SfsProofs`, about `SfsFile`: `BlocksCorrect`, `ContentsCorrect` and `SizesCorrect`, for any number of files and
blocks and any sizes. `FsOK` says of a file system that a file has a block number exactly in the places below
its `blocks` (`MapOK`), that no number is that of a free block or is used twice (`OnceOK`), that a block which is nowhere
in use is free (`NoneLost`), and that `unused_blocks` counts the free ones. It is a
fact about the bytes on the disk, whichever calls are under way. What the size of a file has to do with
its blocks and what it reads back depends on the calls: `CallOK`, `Sized` and `Expected`
say how far a write or a truncation has come and what the file would hold if it ended now. A `strained`
file (section 5) is exempt from `Sized` only. The module assumes of its constants that the disk has at most as many blocks as a file
can name (1036), a bound which the disk image of 480 kB (`Makefile`) is far from.

`FileTableProofs`: `OwnTableCorrect`, `RefsEnoughCorrect` and `OpensExactCorrect`, for any number of processes,
tables, descriptors and inodes, and for all values of `StaleMemory` and `AnyCall`: nothing is assumed of the memory that `kmalloc`
returns. `RefsEnough` holds in every behaviour. The other two are false in general (section 5), and their theorems say so
with a hypothesis about the behaviour: `OwnTable` holds while no fork that fails gives back a table
which the stale `filesp` of its `proc_struct` names (`[][~StaleRelease]_vars`), and `OpensExact` while, besides, no process
calls an operation that its inode lacks (`[][~MissingCall]_vars`). Every step replaces at most one table, and `ReplaceCount` says what that does to the number of
descriptors and of current directories of each inode; so the counters of inodes need only be compared with the descriptors
of that one table. The invariant of `RefsEnough`, `RefsInv`, does not know whose a table is, nor whether it is in use. It
needs no more, because `files_destroy` drops the references of a table together with the descriptors that
account for them, whoever else still names that table, and a fork that writes over such a table can only leave references
over. `RefsEnough` is also the bound that the code keeps though an `open` with `O_CREAT|O_EXCL` loses a
reference. The model gives the memory of a freed table to new tables only; what another owner would write there is
outside of it. `Inv` adds to `RefsInv` that every process has its own table, that tables not allocated are empty, and
how many uses each descriptor has.

`FirstFitProofs`: `FreeListCorrect` and `PageAllocCorrect` (`Spec => AbstractSpec`), for any number of pages. `BlocksOK`
follows the links as a list; a proof about that would be an induction over it. The invariant speaks of the set
of the pages at which free blocks begin instead: the links lead from each to the next larger one and back (`Linked`), the
blocks do not overlap (`Apart`) and do not touch (`Gaps`), `nr_free` counts their pages, and no page of theirs is in use (`Held`).
A loop through the list stops at the least member of that set with some property, and that such a
member exists is all that the proofs need of well-founded induction. Between the insertion and the two merges of
`default_free_pages`, `Gaps` fails for one pair on each side at most, and each merge repairs one.
Both theorems have the hypothesis `Supported`: either the last page is never handed out (`SpareTop`), or the
allocator is best fit. Without it they are false, since `default_pmm.c` links a block inserted
behind all others to itself (section 5).

`VmProofs`: `VmaMappedCorrect`, `PagesOwnedCorrect`, `LeavesFreedCorrect` and `MemorySpecCorrect`
(`Spec => MemorySpec`), for any number of processes and pages, tables of any size and any programs. The pages
form a forest along the entries of the tables (`Forest`): a free page has no entries and no references, one that an entry points to has
one reference and no other entry. The roots are the directories of the processes. An operation on
one address space touches its tree and the free pages (`Own`) and leaves every other page alone (`Local`); since processes have different directories (`Apart`)
and the trees of different roots are disjoint, the other processes cannot notice it (`StepFrame`). This one argument carries each loop of
`copy_range`, `unmap_range` and `exit_range`, each handler, and the refinement. `SpaceOK` says that the
mapped pages of a process are those of its vmas, all of them except in the stack, of which only a part is mapped; in the middle of `load_icode`
only those below some address of the segment being loaded are (`Partly`). The loops are functions over
the natural numbers; what they do is shown at the least position at which it would fail.
`LeavesFreed` needs, for every page of a process that ends or gives up its memory, that
the unmapping reaches it (`LeavesKept`). Page tables and directories are another matter: `TablesFreed` is false, see section 5.

The lemmas of `SchedProofs` say what `wakeup_proc`, `schedule` and
`RR_*` do to a well-formed record, those of the first part of `ProcessProofs` which processes have a timer
after `add_timer`, `del_timer` and a tick, and when the timers are due.

Only model-checked: all liveness properties (TLAPS 1.4.5 has no rules for
fairness and ENABLED), that is `NoStarvation`, `SleepEnds`, `OrphansReaped`, `KilledExitOrBlocked`, `ReadEnds`, `WaitersServed`,
`Finishes` and `NoLeak`; `QueueSpec`, since what the buffers of `Console` hold after a burst is a fold over
the typed characters, and so an induction over data; that the loop of `get_pid` ends; and the violations of section 5.

## 5. Where the code does not do what is said of it

One disagreement has a run of its own.

* `process_kill_lost`: a process that is killed while it waits on the run queue
  returns to user mode, since `trap()` tests `PF_EXITING` before `schedule()`; it may then
  sleep in `do_wait`, and no second `kill` wakes it. `user/spin.c` expects that
  a killed child exits. `stdin` shows that a reader of the keyboard is in the same position, and
  that these two are the only places.

Three have a configuration with which TLC finds the violation, and no entry among the runs:

* `FirstFitFull.cfg` (`MCFirstFit`, `Unlinked`): after the highest block was allocated, freeing it executes
  `list_add(base, base)` (`mm/default_pmm.c:147`), and allocated pages stay in
  the free list. The copies of this code in `lab2` to `lab6` are the same; the best-fit
  allocator of lab2 is free of it. In `page_alloc` the last page is never allocated by first
  fit, as on a machine with plenty of memory.
* `FileTableExec.cfg` (`MCFileTable`, `ExitedFree`): when `load_icode` fails, `mm` is NULL and `do_exit` skips `put_files`.
* `VmTables.cfg` (`MCVm`, `TablesFreed`): `exit_range` frees a level 0 directory when the entries *of the range* were
  valid, and not, as its comment says, "only when all pde0s in it are already invalid"
  (`mm/pmm.c:414`): the page tables of the other segments are lost. Further, a fork that fails
  in `copy_files` loses the whole memory that `copy_mm` has made (`process/proc.c:605`).

Others were met on the way. They are visible in the models, which can be run with other constants, but have no run:

* A character that meets a full stdin buffer replaces the oldest unread one, so that it is read
  before those typed earlier; a full console ring is empty again (`CharQueue` says so).
* A process that reads the keyboard beside others may never get a character.
* `fork` fails in good order for want of a page table, but stops the kernel for want of a page
  (`mm/pmm.c:463`); `load_icode` does so for a page of the stack.
* `user_mem_check` accepts the whole stack, of which four pages are mapped; a system call that
  writes elsewhere in it, or arguments of exec that need more, hang the kernel, because `exception_handler` returns to the faulting instruction.
* `kill(1)` is accepted; `init` then exits from `do_wait` and panics (`KillInit = TRUE`).
* `alloc_proc` does not initialise `filesp`; a fork that fails before `copy_files` releases
  whatever the stale pointer names (`StaleMemory = TRUE` violates `OwnTable`). The run `file_table`
  has `StaleMemory = FALSE` and says nothing of this; the theorems call the step `StaleRelease`.
* `open` with `O_CREAT|O_EXCL` of a file that exists keeps the reference of the lookup
  (`fs/vfs/vfsfile.c:46`); so `RefsEnough` cannot be an equality.
* Creating a file, and some operations on directories, call functions that SFS
  does not have and end in the assert of `fs/vfs/inode.h` (`AnyCall = TRUE` violates `OpensExact`). The run
  has `AnyCall = FALSE`; the theorem calls the step `MissingCall`.
* A seek that fills the disk leaves blocks behind the end; truncating to the same
  size then fails the assert in `sfs_inode.c:944`. A write behind the end on a full disk sets the
  size without a block. A write at an offset more than one block behind the end, after another open
  has truncated the file, fails the assert in line 356. `SizeMatches`
  exempts the first two (`strained`); the third is the action `sfs_write_panics`.
* `sfs_tryseek` and `sfs_truncfile` look at the size before they take the lock. The RAM
  disk never sleeps, so nothing comes between; with a disk that sleeps a seek could shorten a file.

## 6. What is not modelled

Of lab8: the SLOB heap (the models let `kmalloc` fail at any time) and the stride
scheduler (compiled, but no kernel of the repository selects it) are not modelled yet. Left out for
good: boot code and assembly (straight line), output, formatting and debugging, disk drivers
(memory copies), path parsing, ELF headers (a program is its sequence of segments), the
`check_*` routines that run once at boot, the host tools and the user programs (the models let
user code make any call at any time). SFS directories are read-only in this
repository. Nothing survives a restart, since the disk is in memory: there is no crash recovery to check.

Share of the code. The definitions stand for about 40 % of the code lines of `kern/`
of lab8. Of the repository as a whole they are a small part, and that cannot change: it holds the same kernel up to
nine times (lab1, three variants of lab2, lab3 to lab6, lab8), each with its copies of `riscv.h`, the
C library, the tools and the user programs, and a definition stands for one place. What the earlier labs have of
their own are the allocators of lab2 and the copy-on-write of lab5.

## 7. Plan

Done: scheduler, timers, processes and their pids, semaphores, monitor, philosophers, page
allocators (first fit and best fit), virtual memory and program loading, keyboard input, inode cache,
file tables, file blocks; the proofs of section 4, which state every invariant and every refinement that the
runs check but `QueueSpec`.

Next, in this order:

1. The copy-on-write of lab5 as a second way of `copy_range` in `Vm`, with page references above one.
2. `Slob`: the circular free list against an abstract heap, as `FirstFit` against `PageAlloc`.
3. `Stride` with its 32-bit comparison; the buddy and slub allocators of lab2 against `PageAlloc`.
