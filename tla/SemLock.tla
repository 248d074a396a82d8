------------------------------ MODULE SemLock ------------------------------
(***************************************************************************)
(* Processes that use one semaphore of kern/sync/sem.c as a lock, the way  *)
(* lock_mm, lock_files, lock_sfs_fs, lock_sfs_io, lock_sin, lock_vdev_list *)
(* and lock_bootfs do, on the scheduler of module Sched.  A holder may     *)
(* sleep inside its critical section, and any process may be killed.       *)
(*                                                                         *)
(* The kernel is not preemptive, so a process runs from one call of        *)
(* schedule() to the next; pc[p] is where it goes on:                      *)
(*   "run"         its own code, inside or outside the critical section    *)
(*   "down_call"   __down, at the call of schedule()                       *)
(*   "down_woken"  __down, behind it                                       *)
(*   "sleep_call"  do_sleep, at the call of schedule()                     *)
(***************************************************************************)
EXTENDS Sem, FiniteSets

CONSTANT Permits    \* the value the semaphore is initialised with

ASSUME PermitsAssumption == Permits \in Nat \ {0}
ASSUME ProcsFinite == IsFiniteSet(Procs)

VARIABLES
    k,              \* the scheduler's record
    sem,            \* the semaphore
    wakeup_flags,   \* the wait_t of every process
    holds,          \* the processes inside their critical sections
    pc

vars == <<k, sem, wakeup_flags, holds, pc>>

Users == Procs \ {idleproc}

(* Nobody holds the lock, the users are in the run queue in some order. *)
Init ==
    /\ \E order \in [1 .. Cardinality(Users) -> Users] :
          /\ \A i, j \in DOMAIN order : order[i] = order[j] => i = j
          /\ \A p \in Users : \E i \in DOMAIN order : order[i] = p
          /\ k = [current |-> idleproc,
                  state |-> [p \in Procs |-> "PROC_RUNNABLE"],
                  wait_state |-> [p \in Procs |-> "0"],
                  run_list |-> order,
                  time_slice |-> [p \in Procs |-> IF p = idleproc THEN 0 ELSE MaxTimeSlice],
                  need_resched |-> [p \in Procs |-> FALSE],
                  panic |-> FALSE]
    /\ sem = sem_init(Permits)
    /\ wakeup_flags = [p \in Procs |-> "WT_INTERRUPTED"]
    /\ holds = {}
    /\ pc = [p \in Procs |-> "run"]

At(p, c) == p \in Users /\ k.current = p /\ pc[p] = c

Goto(p, c) == pc' = [pc EXCEPT ![p] = c]

(* down(), up to the call of schedule() when it has to wait. *)
down(p) ==
    /\ At(p, "run") /\ p \notin holds
    /\ k' = down_sleep(k, sem)
    /\ sem' = down_sem(sem, p)
    /\ wakeup_flags' = down_flags(wakeup_flags, sem, p)
    /\ IF Blocks(sem) THEN Goto(p, "down_call") /\ UNCHANGED holds
                      ELSE holds' = holds \cup {p} /\ UNCHANGED pc

(* The rest of down(): a return value other than 0 panics. *)
down_woken(p) ==
    /\ At(p, "down_woken")
    /\ k' = Assert_(k, wakeup_flags[p] = "WT_KSEM")
    /\ sem' = wait_current_del(sem, p)
    /\ holds' = holds \cup {p}
    /\ Goto(p, "run")
    /\ UNCHANGED wakeup_flags

(* try_down() does not wait. *)
try_down(p) ==
    /\ At(p, "run") /\ p \notin holds
    /\ ~Blocks(sem)
    /\ sem' = down_sem(sem, p)
    /\ holds' = holds \cup {p}
    /\ UNCHANGED <<k, wakeup_flags, pc>>

up(p) ==
    /\ At(p, "run") /\ p \in holds
    /\ k' = up_wake(k, sem)
    /\ sem' = up_sem(sem)
    /\ wakeup_flags' = up_flags(wakeup_flags, sem)
    /\ holds' = holds \ {p}
    /\ UNCHANGED pc

(* do_sleep, inside or outside the critical section. *)
do_sleep(p) ==
    /\ At(p, "run")
    /\ k' = SleepCurrent(k, "WT_TIMER")
    /\ Goto(p, "sleep_call")
    /\ UNCHANGED <<sem, wakeup_flags, holds>>

(* A timer expires, in the clock interrupt. *)
run_timer_list(q) ==
    /\ k.wait_state[q] = "WT_TIMER"
    /\ k' = wakeup_proc(k, q)
    /\ UNCHANGED <<sem, wakeup_flags, holds, pc>>

(* Mutant: a process that waits for a semaphore is woken too. *)
KillWakes_ksem(q) == k.wait_state[q] \in WT_INTERRUPTED \cup {"WT_KSEM"}

KillWakes(q) == k.wait_state[q] \in WT_INTERRUPTED

do_kill(p, q) ==
    /\ At(p, "run") /\ p \notin holds
    /\ q \in Users /\ KillWakes(q)
    /\ k' = wakeup_proc(k, q)
    /\ UNCHANGED <<sem, wakeup_flags, holds, pc>>

(* The time slice of a process in user mode is used up, or it yields. *)
preempt(p) ==
    /\ At(p, "run") /\ p \notin holds
    /\ k' = schedule(k)
    /\ UNCHANGED <<sem, wakeup_flags, holds, pc>>

CallSchedule(p) ==
    /\ k.current = p /\ pc[p] \in {"down_call", "sleep_call"}
    /\ k' = schedule(k)
    /\ Goto(p, IF pc[p] = "down_call" THEN "down_woken" ELSE "run")
    /\ UNCHANGED <<sem, wakeup_flags, holds>>

cpu_idle ==
    /\ k.current = idleproc
    /\ k' = schedule(k)
    /\ UNCHANGED <<sem, wakeup_flags, holds, pc>>

Next ==
    \/ \E p \in Procs :
          \/ down(p) \/ down_woken(p) \/ try_down(p) \/ up(p)
          \/ do_sleep(p) \/ preempt(p) \/ CallSchedule(p)
          \/ run_timer_list(p)
          \/ \E q \in Procs : do_kill(p, q)
    \/ cpu_idle

(* The CPU executes the kernel, the clock ticks and preempts user code, and a
   process that runs often enough leaves its critical section. *)
Fairness ==
    /\ \A p \in Procs : /\ WF_vars(down_woken(p)) /\ WF_vars(CallSchedule(p))
                        /\ WF_vars(run_timer_list(p))
                        /\ SF_vars(up(p)) /\ SF_vars(preempt(p))
    /\ WF_vars(cpu_idle)

Spec == Init /\ [][Next]_vars
FairSpec == Spec /\ Fairness

---------------------------------------------------------------------------
(* The type of every variable. *)
TypeOK ==
    /\ k \in SchedRecords
    /\ IsSem(sem)
    /\ wakeup_flags \in [Procs -> WakeupFlags]
    /\ holds \subseteq Users
    /\ pc \in [Procs -> {"run", "down_call", "down_woken", "sleep_call"}]

(* up() has given p its permit, p has not noticed yet. *)
Granted == {p \in Procs : pc[p] \in {"down_call", "down_woken"} /\ ~InQueue(sem, p)}

Holding == holds \cup Granted

PermitsConserved == sem.value = Permits - Cardinality(Holding)

NoIdlePermit == sem.value > 0 => sem.wait_queue = << >>

(* No permit is lost or made up by the direct hand-over from up() to the first
   waiter, nor by a kill: value counts the permits that nobody has, and down()
   and up() leave none of them idle while a process waits. *)
PermitsOK == PermitsConserved /\ NoIdlePermit

(* The processes in the wait queue are exactly those that sleep for the
   semaphore, each linked once: up() can neither miss nor wake twice. *)
QueueOK ==
    /\ \A p \in Procs : InQueue(sem, p) <=> k.wait_state[p] = "WT_KSEM"
    /\ \A i, j \in 1 .. Len(sem.wait_queue) : sem.wait_queue[i] = sem.wait_queue[j] => i = j

(* A process has left down() only with a permit, whatever woke it: the assert
   on the return value of __down in down(), the one on wait_state in __up and
   those of the scheduler are never reached. *)
NoPanic == ~k.panic

(* down(), try_down() and up() implement a lock with a queue served in the
   order of the requests. *)
Lock == INSTANCE FifoLock WITH holding <- Holding, waiting <- sem.wait_queue
FifoSpec == Lock!Spec

(* A process that waits for the semaphore gets it, however the others compete
   for it with down() and try_down(). *)
WaitersServed == \A p \in Users : InQueue(sem, p) ~> p \in holds

============================================================================
