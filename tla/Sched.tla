------------------------------- MODULE Sched -------------------------------
(***************************************************************************)
(* The scheduler core of the kernel: kern/schedule/sched.c together with   *)
(* the round-robin class kern/schedule/default_sched.c that sched_init     *)
(* installs.                                                               *)
(*                                                                         *)
(* The kernel runs on one hart and is never preempted while it is in       *)
(* kernel mode, so what a handler does to the scheduler between two calls  *)
(* of schedule() is one atomic step.  The scheduler's data is one record k *)
(* and the C functions are operators from record to record: a handler that *)
(* wakes two processes and then gives up the CPU is the composition        *)
(* schedule(wakeup_proc(wakeup_proc(k, p), q)).                            *)
(*                                                                         *)
(*   k.current       the process on the CPU                                *)
(*   k.state         proc->state; "FREE" when no proc_struct exists        *)
(*   k.wait_state    proc->wait_state                                      *)
(*   k.run_list      rq->run_list, head first                              *)
(*   k.time_slice    proc->time_slice                                      *)
(*   k.need_resched  proc->need_resched                                    *)
(*   k.panic         an assert() or panic() of the kernel has been reached *)
(***************************************************************************)
EXTENDS Integers, Sequences

CONSTANTS
    Procs,          \* the proc_struct slots, idleproc included
    idleproc,       \* the idle thread
    MaxTimeSlice    \* rq->max_time_slice (MAX_TIME_SLICE, 5 in sched.h)

ASSUME IdleAssumption == idleproc \in Procs
ASSUME SliceAssumption == MaxTimeSlice \in Nat \ {0}

ProcStates == {"FREE", "PROC_UNINIT", "PROC_SLEEPING", "PROC_RUNNABLE", "PROC_ZOMBIE"}

\* "0" is the wait_state of a process that waits for nothing.
WaitStates == {"0", "WT_CHILD", "WT_TIMER", "WT_KBD", "WT_KSEM"}

\* The wait states that carry the WT_INTERRUPTED bit: do_kill may end them.
WT_INTERRUPTED == {"WT_CHILD", "WT_TIMER", "WT_KBD"}

SchedRecords ==
    [current : Procs,
     state : [Procs -> ProcStates],
     wait_state : [Procs -> WaitStates],
     run_list : Seq(Procs),
     time_slice : [Procs -> 0 .. MaxTimeSlice],
     need_resched : [Procs -> BOOLEAN],
     panic : BOOLEAN]

OnRunList(k, p) == \E i \in 1 .. Len(k.run_list) : k.run_list[i] = p

(* assert(e): the kernel panics when e is false. *)
Assert_(k, e) == [k EXCEPT !.panic = k.panic \/ ~e]

---------------------------------------------------------------------------
(* The round-robin class.                                                  *)

(* Mutant: list_add_after instead of list_add_before. *)
RR_enqueue_at_head(k, p) ==
    [k EXCEPT !.run_list = <<p>> \o @,
              !.time_slice[p] = IF @ = 0 THEN MaxTimeSlice ELSE @]

(* Append to the tail; a process that used up its slice gets a new one.  A
   slice never exceeds MaxTimeSlice, so the code's second test is never true. *)
RR_enqueue(k, p) ==
    LET slice == [k.time_slice EXCEPT ![p] = IF @ = 0 THEN MaxTimeSlice ELSE @]
    IN  [Assert_(k, ~OnRunList(k, p)) EXCEPT !.run_list = Append(k.run_list, p),
                                             !.time_slice = slice]

(* list_del_init of the process that RR_pick_next returned: the head. *)
RR_dequeue(k) == [k EXCEPT !.run_list = Tail(k.run_list)]

RR_pick_next(k) == Head(k.run_list)

(* Mutant: the test for a positive time slice is missing. *)
RR_proc_tick_no_floor(k, p) ==
    [k EXCEPT !.time_slice[p] = @ - 1,
              !.need_resched[p] = @ \/ k.time_slice[p] = 1]

RR_proc_tick(k, p) ==
    LET left == IF k.time_slice[p] > 0 THEN k.time_slice[p] - 1 ELSE 0
    IN  [k EXCEPT !.time_slice = [k.time_slice EXCEPT ![p] = left],
                  !.need_resched = [k.need_resched EXCEPT ![p] = @ \/ left = 0]]

---------------------------------------------------------------------------
(* sched.c                                                                 *)

(* idleproc is never put on the run queue. *)
sched_class_enqueue(k, p) == IF p = idleproc THEN k ELSE RR_enqueue(k, p)

sched_class_proc_tick(k, p) ==
    IF p = idleproc THEN [k EXCEPT !.need_resched = [k.need_resched EXCEPT ![p] = TRUE]]
                    ELSE RR_proc_tick(k, p)

MakeRunnable(k, p) ==
    [k EXCEPT !.state = [k.state EXCEPT ![p] = "PROC_RUNNABLE"],
              !.wait_state = [k.wait_state EXCEPT ![p] = "0"]]

(* Mutants: the process on the CPU is enqueued too; a runnable process is
   woken like any other. *)
wakeup_proc_enqueues_current(k, p) ==
    IF k.state[p] = "PROC_RUNNABLE" THEN k ELSE sched_class_enqueue(MakeRunnable(k, p), p)

wakeup_proc_even_runnable(k, p) ==
    IF p # k.current THEN sched_class_enqueue(MakeRunnable(k, p), p) ELSE MakeRunnable(k, p)

(* Waking a runnable process only prints a warning.  The process on the CPU
   is not enqueued: when it sleeps, its own call of schedule() will see that
   it is runnable again and enqueue it. *)
wakeup_proc(k, p) ==
    IF k.state[p] = "PROC_RUNNABLE" THEN k
    ELSE LET k1 == MakeRunnable(Assert_(k, k.state[p] # "PROC_ZOMBIE"), p)
         IN  IF p # k.current THEN sched_class_enqueue(k1, p) ELSE k1

(* The first half of schedule(): a still runnable process goes to the tail. *)
PutBack(k) ==
    LET k1 == [k EXCEPT !.need_resched = [k.need_resched EXCEPT ![k.current] = FALSE]]
    IN  IF k.state[k.current] = "PROC_RUNNABLE"
        THEN sched_class_enqueue(k1, k.current) ELSE k1

(* The second half: the head of the run queue, or idleproc, gets the CPU.
   proc_run switches the address space and the kernel stack. *)
PickAndRun(k) ==
    IF k.run_list = << >> THEN [k EXCEPT !.current = idleproc]
    ELSE [RR_dequeue(k) EXCEPT !.current = RR_pick_next(k)]

schedule(k) == PickAndRun(PutBack(k))

(* Mutant: the process is left PROC_RUNNABLE. *)
SleepCurrent_runnable(k, w) ==
    [k EXCEPT !.wait_state = [k.wait_state EXCEPT ![k.current] = w]]

(* The current process puts itself to sleep; it keeps the CPU until it calls
   schedule(). *)
SleepCurrent(k, w) ==
    [k EXCEPT !.state = [k.state EXCEPT ![k.current] = "PROC_SLEEPING"],
              !.wait_state = [k.wait_state EXCEPT ![k.current] = w]]

---------------------------------------------------------------------------
(* The run queue holds, each exactly once, the runnable processes that are
   neither on the CPU nor idleproc: what wakeup_proc, schedule and the
   class's asserts rely on.  If a process is missing it never runs again; if
   it is there twice or while it runs, list_add corrupts the list. *)
RunQueueOK(k) ==
    /\ \A p \in Procs :
          OnRunList(k, p) <=> /\ k.state[p] = "PROC_RUNNABLE"
                              /\ p # k.current
                              /\ p # idleproc
    /\ \A i, j \in 1 .. Len(k.run_list) :
          k.run_list[i] = k.run_list[j] => i = j

============================================================================
