------------------------------ MODULE Process ------------------------------
(***************************************************************************)
(* The life of a process: do_fork, do_exit, do_wait, do_kill, do_sleep,    *)
(* do_yield, init_main and cpu_idle of kern/process/proc.c, the clock      *)
(* interrupt and the return path of kern/trap/trap.c, on the scheduler of  *)
(* module Sched and the timer list of module Timers.                       *)
(*                                                                         *)
(* pc[p] is the place at which p continues when it next has the CPU:       *)
(*   "user"        user code, or the body of a kernel thread               *)
(*   "trapret"     trap(), after trap_dispatch                             *)
(*   "wait"        do_wait, at the label repeat                            *)
(*   "wait_woken"  do_wait, behind schedule()                              *)
(*   "sleep_woken" do_sleep, behind schedule()                             *)
(*   "exit"        at the start of do_exit                                 *)
(*   "dead"        behind the last schedule() of do_exit: never reached    *)
(*   "done"        init_main has returned                                  *)
(* and "wait_call", "sleep_call", "exit_call", "resched", "init_sched" are *)
(* the calls of schedule() themselves.  A user process runs the kernel     *)
(* with interrupts disabled; kernel threads and init run it with them      *)
(* enabled, so the clock can interrupt them between going to sleep and     *)
(* calling schedule().                                                     *)
(***************************************************************************)
EXTENDS Sched, Timers, FiniteSets

CONSTANTS
    initproc,       \* the init thread
    KThreads,       \* kernel threads with the body of check_sync.c
    FirstChildren,  \* the processes init has created when the model starts
    MaxProcess,     \* MAX_PROCESS
    SleepTimes,     \* the arguments of sys_sleep
    KillInit,       \* may a process name init in sys_kill?
    NoProc, AnyChild

ASSUME InitAssumption ==
    /\ initproc \in Procs \ {idleproc}
    /\ KThreads \subseteq FirstChildren
    /\ FirstChildren \subseteq Procs \ {idleproc, initproc}
    /\ IsFiniteSet(FirstChildren)
    /\ MaxProcess \in Nat
    /\ SleepTimes \subseteq Nat \ {0}
    /\ KillInit \in BOOLEAN
    /\ NoProc \notin Procs
    /\ AnyChild \notin Procs

VARIABLES
    k,              \* the scheduler's record, see module Sched
    parent,         \* proc->parent
    exiting,        \* PF_EXITING in proc->flags
    waitfor,        \* the argument pid of the do_wait call p is in
    timers,         \* timer_list
    in_timer,       \* the CPU is in the loop of run_timer_list
    nr_process,
    pc

vars == <<k, parent, exiting, waitfor, timers, in_timer, nr_process, pc>>

(* The last three are the places that module Stdin adds: nobody gets there
   without it. *)
PCs == {"user", "trapret", "wait", "wait_woken", "sleep_woken", "exit", "dead", "done",
        "wait_call", "sleep_call", "exit_call", "resched", "init_sched",
        "read", "read_call", "read_woken"}

(* Where a process goes on after the schedule() it calls at a place. *)
Resume == [c \in {"wait_call", "sleep_call", "exit_call", "resched", "init_sched"} |->
              CASE c = "wait_call"  -> "wait_woken"
                [] c = "sleep_call" -> "sleep_woken"
                [] c = "exit_call"  -> "dead"
                [] c = "resched"    -> "user"
                [] c = "init_sched" -> "wait"]

Kernel == KThreads \cup {initproc, idleproc}
Kids(p) == {c \in Procs : parent[c] = p}
Zombies == {c \in Procs : k.state[c] = "PROC_ZOMBIE"}

(* proc_init and the start of init_main: idle and init exist, init has made
   its children and is about to wait for them. *)
Init ==
    /\ \E order \in [1 .. Cardinality(FirstChildren) -> FirstChildren] :
          /\ \A i, j \in DOMAIN order : order[i] = order[j] => i = j
          /\ \A p \in FirstChildren : \E i \in DOMAIN order : order[i] = p
          /\ k = [current |-> initproc,
                  state |-> [p \in Procs |->
                                IF p \in FirstChildren \cup {initproc, idleproc}
                                THEN "PROC_RUNNABLE" ELSE "FREE"],
                  wait_state |-> [p \in Procs |-> "0"],
                  run_list |-> order,
                  time_slice |-> [p \in Procs |->
                                     IF p \in FirstChildren \cup {initproc}
                                     THEN MaxTimeSlice ELSE 0],
                  need_resched |-> [p \in Procs |-> FALSE],
                  panic |-> FALSE]
    /\ parent = [p \in Procs |-> IF p \in FirstChildren THEN initproc
                                 ELSE IF p = initproc THEN idleproc ELSE NoProc]
    /\ exiting = [p \in Procs |-> FALSE]
    /\ waitfor = [p \in Procs |-> AnyChild]
    /\ timers = << >>
    /\ in_timer = FALSE
    /\ nr_process = 2 + Cardinality(FirstChildren)
    /\ pc = [p \in Procs |-> IF p = initproc THEN "wait" ELSE "user"]

---------------------------------------------------------------------------
(* Process p has the CPU, outside the clock interrupt, at place c. *)
At(p, c) == k.current = p /\ pc[p] = c /\ ~in_timer

Goto(p, c) == pc' = [pc EXCEPT ![p] = c]

(* p makes a system call, or is a kernel thread that calls the function.
   The call returns to trap(), or to the kernel thread's body. *)
Calls(p) == At(p, "user") /\ p \notin {idleproc, initproc}
Return(p) == Goto(p, IF p \in KThreads THEN "user" ELSE "trapret")

(* The fields that alloc_proc initialises, and a slot keeps while it is free. *)
ClearProc(k1, c, s) ==
    [k1 EXCEPT !.state = [k1.state EXCEPT ![c] = s],
               !.wait_state = [k1.wait_state EXCEPT ![c] = "0"],
               !.time_slice = [k1.time_slice EXCEPT ![c] = 0],
               !.need_resched = [k1.need_resched EXCEPT ![c] = FALSE]]

(* alloc_proc takes a free slot c; set_links makes it a child of p. *)
do_fork(p, c) ==
    /\ Calls(p) /\ p \notin KThreads
    /\ nr_process < MaxProcess
    /\ k.state[c] = "FREE" /\ c \notin KThreads
    /\ LET k1 == Assert_(k, k.wait_state[p] = "0")
       IN  k' = wakeup_proc(ClearProc(k1, c, "PROC_UNINIT"), c)
    /\ parent' = [parent EXCEPT ![c] = p]
    /\ exiting' = [exiting EXCEPT ![c] = FALSE]
    /\ nr_process' = nr_process + 1
    /\ pc' = [pc EXCEPT ![c] = "user", ![p] = "trapret"]
    /\ UNCHANGED <<waitfor, timers, in_timer>>

(* The process table is full, or one of alloc_proc, setup_kstack, copy_mm and
   copy_files fails: the parent gets an error code.  What becomes of the
   resources is the subject of modules FileTable and Vm. *)
do_fork_fails(p) ==
    /\ Calls(p) /\ p \notin KThreads
    /\ Goto(p, "trapret")
    /\ UNCHANGED <<k, parent, exiting, waitfor, timers, in_timer, nr_process>>

sys_exit(p) ==
    /\ Calls(p)
    /\ Goto(p, "exit")
    /\ UNCHANGED <<k, parent, exiting, waitfor, timers, in_timer, nr_process>>

(* Mutants: do_exit does not wake the parent; it does not look at the state of
   the children that it hands to init. *)
WakeParent_never(k1, p) == k1
WakeInit_never(k1, p) == k1

(* do_exit wakes a parent that is waiting for a child ... *)
WakeParent(k1, p) ==
    IF k1.wait_state[parent[p]] = "WT_CHILD" THEN wakeup_proc(k1, parent[p]) ELSE k1

(* ... and a waiting init when one of the children it inherits is a zombie. *)
WakeInit(k1, p) ==
    IF Kids(p) \cap Zombies # {} /\ k1.wait_state[initproc] = "WT_CHILD"
    THEN wakeup_proc(k1, initproc) ELSE k1

(* Mutant: the children keep their parent. *)
Reparent_none(p) == parent

Reparent(p) == [c \in Procs |-> IF parent[c] = p THEN initproc ELSE parent[c]]

do_exit(p) ==
    /\ At(p, "exit")
    /\ LET k1 == Assert_(k, p # initproc)
           k2 == [k1 EXCEPT !.state = [k1.state EXCEPT ![p] = "PROC_ZOMBIE"]]
       IN  k' = WakeInit(WakeParent(k2, p), p)
    /\ parent' = Reparent(p)
    /\ Goto(p, "exit_call")
    /\ UNCHANGED <<exiting, waitfor, timers, in_timer, nr_process>>

sys_wait(p, pid) ==
    /\ Calls(p) /\ p \notin KThreads
    /\ waitfor' = [waitfor EXCEPT ![p] = pid]
    /\ Goto(p, "wait")
    /\ UNCHANGED <<k, parent, exiting, timers, in_timer, nr_process>>

(* The children the do_wait call of p is about: find_proc(pid) when its
   parent is p, or the list from cptr, in an order left open here. *)
Awaited(p) == IF waitfor[p] = AnyChild THEN Kids(p) ELSE Kids(p) \cap {waitfor[p]}

remove_links(c) ==
    parent' = [parent EXCEPT ![c] = NoProc] /\ nr_process' = nr_process - 1

(* A zombie was found: unhash, unlink, free its stack and its proc_struct.
   The fields of the freed slot are cleared, alloc_proc sets them anyway. *)
do_wait_reap(p, c) ==
    /\ At(p, "wait")
    /\ c \in Awaited(p) \cap Zombies
    /\ k' = ClearProc(Assert_(k, c \notin {idleproc, initproc}), c, "FREE")
    /\ remove_links(c)
    /\ exiting' = [exiting EXCEPT ![c] = FALSE]
    /\ pc' = [pc EXCEPT ![c] = "user",
                        ![p] = IF p = initproc THEN "init_sched" ELSE "trapret"]
    /\ waitfor' = [waitfor EXCEPT ![p] = AnyChild, ![c] = AnyChild]
    /\ UNCHANGED <<timers, in_timer>>

(* There are children, none of them dead: sleep until one exits. *)
do_wait_sleep(p) ==
    /\ At(p, "wait")
    /\ Awaited(p) # {} /\ Awaited(p) \cap Zombies = {}
    /\ k' = SleepCurrent(k, "WT_CHILD")
    /\ Goto(p, "wait_call")
    /\ UNCHANGED <<parent, exiting, waitfor, timers, in_timer, nr_process>>

do_wait_woken(p) ==
    /\ At(p, "wait_woken")
    /\ Goto(p, IF exiting[p] THEN "exit" ELSE "wait")
    /\ UNCHANGED <<k, parent, exiting, waitfor, timers, in_timer, nr_process>>

(* No such child: -E_BAD_PROC.  For init this ends its loop: it asserts that
   only idle and itself are left, and returns. *)
do_wait_fails(p) ==
    /\ At(p, "wait")
    /\ Awaited(p) = {}
    /\ k' = IF p = initproc THEN Assert_(k, nr_process = 2) ELSE k
    /\ Goto(p, IF p = initproc THEN "done" ELSE "trapret")
    /\ waitfor' = [waitfor EXCEPT ![p] = AnyChild]
    /\ UNCHANGED <<parent, exiting, timers, in_timer, nr_process>>

(* do_kill ends a sleep that may be interrupted, and no other. *)
KillWakes(q) == k.wait_state[q] \in WT_INTERRUPTED

(* find_proc knows every process but idle, the zombies too. *)
do_kill(p, q) ==
    /\ Calls(p) /\ p \notin KThreads
    /\ q # idleproc /\ k.state[q] # "FREE"
    /\ q = initproc => KillInit
    /\ IF exiting[q] THEN UNCHANGED <<k, exiting>>
       ELSE /\ exiting' = [exiting EXCEPT ![q] = TRUE]
            /\ k' = IF KillWakes(q) THEN wakeup_proc(k, q) ELSE k
    /\ Goto(p, "trapret")
    /\ UNCHANGED <<parent, waitfor, timers, in_timer, nr_process>>

do_yield(p) ==
    /\ Calls(p) /\ p \notin KThreads
    /\ k' = [k EXCEPT !.need_resched = [k.need_resched EXCEPT ![p] = TRUE]]
    /\ Goto(p, "trapret")
    /\ UNCHANGED <<parent, exiting, waitfor, timers, in_timer, nr_process>>

do_sleep(p, t) ==
    /\ Calls(p)
    /\ k' = SleepCurrent(Assert_(k, t > 0 /\ ~HasTimer(timers, p)), "WT_TIMER")
    /\ timers' = add_timer(timers, p, t)
    /\ Goto(p, "sleep_call")
    /\ UNCHANGED <<parent, exiting, waitfor, in_timer, nr_process>>

(* Mutant: the timer stays in the list. *)
do_sleep_woken_keeps_timer(p) ==
    /\ At(p, "sleep_woken")
    /\ Return(p)
    /\ UNCHANGED <<k, parent, exiting, waitfor, timers, in_timer, nr_process>>

(* A killed sleeper comes here with its timer still in the list. *)
do_sleep_woken(p) ==
    /\ At(p, "sleep_woken")
    /\ timers' = del_timer(timers, p)
    /\ Return(p)
    /\ UNCHANGED <<k, parent, exiting, waitfor, in_timer, nr_process>>

(* The call of schedule() at any of the places that have one. *)
CallSchedule(p) ==
    /\ k.current = p /\ ~in_timer /\ pc[p] \in DOMAIN Resume
    /\ k' = schedule(k)
    /\ Goto(p, Resume[pc[p]])
    /\ UNCHANGED <<parent, exiting, waitfor, timers, in_timer, nr_process>>

(* Mutant: PF_EXITING is not looked at. *)
AfterTrap_ignores_kill(p) == IF k.need_resched[p] THEN "resched" ELSE "user"

(* The end of trap() for a trap from user mode. *)
AfterTrap(p) ==
    IF exiting[p] THEN "exit" ELSE IF k.need_resched[p] THEN "resched" ELSE "user"

trap_return(p) ==
    /\ At(p, "trapret")
    /\ Goto(p, AfterTrap(p))
    /\ UNCHANGED <<k, parent, exiting, waitfor, timers, in_timer, nr_process>>

(* cpu_idle polls need_resched, which a clock interrupt sets. *)
cpu_idle ==
    /\ At(idleproc, "user")
    /\ k.need_resched[idleproc]
    /\ k' = schedule(k)
    /\ UNCHANGED <<parent, exiting, waitfor, timers, in_timer, nr_process, pc>>

---------------------------------------------------------------------------
(* Interrupts are enabled in user mode and in kernel threads. *)
InterruptsOn(p) == pc[p] = "user" \/ (p \in Kernel /\ pc[p] # "done")

(* The clock interrupt: run_timer_list takes one tick off the head ... *)
interrupt_handler ==
    /\ ~in_timer /\ InterruptsOn(k.current)
    /\ k' = Assert_(k, ~HeadExpired(timers))
    /\ timers' = TickHead(timers)
    /\ in_timer' = TRUE
    /\ UNCHANGED <<parent, exiting, waitfor, nr_process, pc>>

(* Mutant: the owner is woken only in the branch that prints the warning. *)
FireTimer_swapped(p) == IF k.wait_state[p] = "0" THEN wakeup_proc(k, p) ELSE k

FireTimer(p) ==
    wakeup_proc(Assert_(k, k.wait_state[p] # "0" => k.wait_state[p] \in WT_INTERRUPTED), p)

(* ... wakes the owner of each timer that has expired ... *)
run_timer_list_wake ==
    /\ in_timer /\ HeadExpired(timers)
    /\ k' = FireTimer(timers[1].proc)
    /\ timers' = del_timer(timers, timers[1].proc)
    /\ UNCHANGED <<parent, exiting, waitfor, in_timer, nr_process, pc>>

(* ... and charges the tick to the process it interrupted, which goes through
   the end of trap() when it was in user mode. *)
run_timer_list_end ==
    /\ in_timer /\ ~HeadExpired(timers)
    /\ k' = sched_class_proc_tick(k, k.current)
    /\ in_timer' = FALSE
    /\ IF k.current \in Kernel THEN UNCHANGED pc ELSE Goto(k.current, "trapret")
    /\ UNCHANGED <<parent, exiting, waitfor, timers, nr_process>>

(* init_main has returned: the kernel stops in the panic of do_exit. *)
Halted == pc[initproc] = "done" /\ k.current = initproc /\ UNCHANGED vars

---------------------------------------------------------------------------
(* What the kernel does of its own accord once it has been entered. *)
KernelStep ==
    \/ \E p \in Procs :
          \/ do_exit(p)
          \/ do_wait_sleep(p) \/ do_wait_woken(p) \/ do_wait_fails(p)
          \/ \E c \in Procs : do_wait_reap(p, c)
          \/ do_sleep_woken(p)
          \/ CallSchedule(p) \/ trap_return(p)
    \/ cpu_idle

TimerStep == run_timer_list_wake \/ run_timer_list_end

(* What the code of the processes chooses to do. *)
ProcessStep ==
    \E p \in Procs :
       \/ \E c \in Procs : do_fork(p, c) \/ do_kill(p, c)
       \/ do_fork_fails(p)
       \/ sys_exit(p)
       \/ \E pid \in Procs \cup {AnyChild} : sys_wait(p, pid)
       \/ do_yield(p)
       \/ \E t \in SleepTimes : do_sleep(p, t)

KThreadStep ==
    \E p \in KThreads : sys_exit(p) \/ \E t \in SleepTimes : do_sleep(p, t)

Next == KernelStep \/ TimerStep \/ ProcessStep \/ interrupt_handler \/ Halted

(* The CPU keeps executing and the clock keeps ticking.  An interrupt returns
   to the code it interrupted long before the next one, so the kernel and the
   bodies of kernel threads advance however often they are interrupted:
   strong fairness.  Nothing is assumed of user code, which may loop. *)
Fairness ==
    /\ WF_vars(TimerStep)
    /\ SF_vars(KernelStep)
    /\ SF_vars(KThreadStep)
    /\ SF_vars(interrupt_handler)

Spec == Init /\ [][Next]_vars
FairSpec == Spec /\ Fairness

---------------------------------------------------------------------------
(* The type of every variable. *)
TypeOK ==
    /\ k \in SchedRecords
    /\ parent \in [Procs -> Procs \cup {NoProc}]
    /\ exiting \in [Procs -> BOOLEAN]
    /\ waitfor \in [Procs -> Procs \cup {AnyChild}]
    /\ IsTimerList(timers, Procs)
    /\ in_timer \in BOOLEAN
    /\ nr_process \in Int
    /\ pc \in [Procs -> PCs]

(* The run queue holds exactly the runnable processes that are not on the
   CPU, each once (wakeup_proc, schedule, RR_enqueue, RR_dequeue). *)
RunQueue == RunQueueOK(k)

(* No assert() or panic() that the modelled code contains is ever reached:
   nobody wakes a zombie or enqueues a process twice, do_fork finds wait_state
   clear, the head of timer_list is never already expired, init never exits
   and finds exactly two processes at the end. *)
NoPanic == ~k.panic

(* A process asleep in do_wait has no zombie among the children it waits for:
   the exit of a child can slip neither between the scan and the sleep nor
   past the change of parent in do_exit. *)
NoLostChild ==
    \A p \in Procs :
       k.state[p] = "PROC_SLEEPING" /\ k.wait_state[p] = "WT_CHILD"
          => Awaited(p) \cap Zombies = {}

(* The parent pointer of a process that exists never dangles: its parent has
   neither been freed nor become a zombie, so some do_wait will find it. *)
LiveParent ==
    \A p \in Procs \ {idleproc} :
       k.state[p] # "FREE" => /\ parent[p] \in Procs
                              /\ k.state[parent[p]] \notin {"FREE", "PROC_ZOMBIE"}

(* A process asleep in do_sleep has a timer that will wake it, and only a
   process inside do_sleep has one: timer_list never points into the stack of
   a process that has left the function. *)
SleepersHaveTimers ==
    \A p \in Procs :
       /\ k.wait_state[p] = "WT_TIMER" => HasTimer(timers, p)
       /\ HasTimer(timers, p) => pc[p] \in {"sleep_call", "sleep_woken"}

(* The scheduling state of every process agrees with the place at which its
   code will go on: only a sleeper waits for something, exactly the processes
   in the last lines of do_exit are zombies, and code that is neither going to
   sleep nor exiting runs as PROC_RUNNABLE.  idle never leaves cpu_idle and
   init never leaves init_main. *)
ControlOK ==
    /\ \A p \in Procs :
          /\ k.wait_state[p] # "0" => k.state[p] = "PROC_SLEEPING"
          /\ k.state[p] = "PROC_ZOMBIE" <=> pc[p] \in {"exit_call", "dead"}
          /\ k.state[p] = "FREE" => pc[p] = "user"
    /\ pc[k.current] \notin {"wait_call", "sleep_call", "exit_call", "read_call"}
          => k.state[k.current] = "PROC_RUNNABLE"
    /\ in_timer /\ k.current \notin Kernel => pc[k.current] = "user"
    /\ k.state[idleproc] = "PROC_RUNNABLE" /\ pc[idleproc] = "user"
    /\ k.state[initproc] \in {"PROC_SLEEPING", "PROC_RUNNABLE"}
    /\ pc[initproc] \in {"wait", "wait_call", "wait_woken", "init_sched", "done"}
    /\ ~exiting[initproc]

(* do_exit and do_wait: a zombie stays one until its parent reaps it; no
   wakeup brings it back. *)
ZombiesStay ==
    [][\A p \in Procs : k.state[p] = "PROC_ZOMBIE" => k'.state[p] \in {"PROC_ZOMBIE", "FREE"}]_vars

Stopped == pc[initproc] = "done"

(* Round robin: a runnable process gets the CPU, whatever the others do. *)
NoStarvation ==
    \A p \in Procs \ {idleproc} :
       k.state[p] = "PROC_RUNNABLE" ~> (k.current = p \/ Stopped)

Gone(p) == k.state[p] \in {"PROC_ZOMBIE", "FREE"}

(* do_kill, as the test spin.c uses it: a user process for which kill()
   returned 0 exits.  The code does not keep this promise: trap() looks at
   PF_EXITING before it calls schedule(), so a process that is killed on the
   run queue returns to user mode and may then go to sleep in do_wait, where
   no second kill() wakes it. *)
KilledExit ==
    \A p \in Procs \ Kernel : (exiting[p] /\ ~Gone(p)) ~> Gone(p)

(* A sleeping process is woken by its timer. *)
SleepEnds ==
    \A p \in Procs : k.wait_state[p] = "WT_TIMER" ~> k.wait_state[p] # "WT_TIMER"

(* Orphans are adopted and reaped: a zombie whose parent is init is freed. *)
OrphansReaped ==
    \A p \in Procs :
       (k.state[p] = "PROC_ZOMBIE" /\ parent[p] = initproc) ~> k.state[p] = "FREE"

============================================================================
