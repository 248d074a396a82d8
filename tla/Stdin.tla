------------------------------- MODULE Stdin -------------------------------
(***************************************************************************)
(* Processes that read the keyboard: the processes, the scheduler and the  *)
(* clock of module Process composed with the buffers of module Input.  A   *)
(* read() of the stdin device ends in dev_stdin_read, which sleeps on a    *)
(* wait queue while the buffer is empty; the clock interrupt ends in       *)
(* dev_stdin_write, which wakes all of them.                               *)
(*                                                                         *)
(* Further places of a process:                                            *)
(*   "read"        dev_stdin_read, at the top of its loop                  *)
(*   "read_call"   its call of schedule()                                  *)
(*   "read_woken"  behind schedule()                                       *)
(***************************************************************************)
EXTENDS Process, Input

CONSTANTS MaxBurst,     \* keys that arrive in one tick
          MaxRead       \* the length of a read

VARIABLES
    cons, stdin,        \* see module Input
    wait_queue,         \* the processes on the device's wait queue
    left                \* len - ret of the dev_stdin_read that p is in

inputVars == <<cons, stdin, wait_queue, left>>
allVars == <<vars, inputVars>>

SInit ==
    /\ Init
    /\ cons = cons_init /\ stdin = stdin_device_init
    /\ wait_queue = << >>
    /\ left = [p \in Procs |-> 0]

---------------------------------------------------------------------------
(* sysfile_read hands dev_stdin_read the length of the user's buffer. *)
sys_read(p, len) ==
    /\ Calls(p) /\ p \notin KThreads
    /\ left' = [left EXCEPT ![p] = len]
    /\ Goto(p, "read")
    /\ UNCHANGED <<k, parent, exiting, waitfor, timers, in_timer, nr_process,
                   cons, stdin, wait_queue>>

(* The loop of dev_stdin_read until it has len characters ... *)
dev_stdin_read(p) ==
    /\ At(p, "read")
    /\ left[p] <= Unread(stdin)
    /\ stdin' = stdin_rest(stdin, left[p])
    /\ left' = [left EXCEPT ![p] = 0]
    /\ Goto(p, "trapret")
    /\ UNCHANGED <<k, parent, exiting, waitfor, timers, in_timer, nr_process,
                   cons, wait_queue>>

(* Mutant: the process is not put on the queue. *)
EnterQueue_not(p) == wait_queue

EnterQueue(p) == Append(wait_queue, p)

(* ... or finds the buffer empty, where wait_current_set puts the process on
   the queue and to sleep ... *)
dev_stdin_read_sleep(p) ==
    /\ At(p, "read")
    /\ left[p] > Unread(stdin)
    /\ stdin' = stdin_rest(stdin, Unread(stdin))
    /\ left' = [left EXCEPT ![p] = @ - Unread(stdin)]
    /\ wait_queue' = EnterQueue(p)
    /\ k' = SleepCurrent(k, "WT_KBD")
    /\ Goto(p, "read_call")
    /\ UNCHANGED <<parent, exiting, waitfor, timers, in_timer, nr_process, cons>>

dev_stdin_read_schedule(p) ==
    /\ At(p, "read_call")
    /\ k' = schedule(k)
    /\ Goto(p, "read_woken")
    /\ UNCHANGED <<parent, exiting, waitfor, timers, in_timer, nr_process, inputVars>>

(* ... and behind schedule() leaves the queue.  wakeup_queue takes a wait off
   the queue when it sets its wakeup_flags to WT_KBD, so a process that is
   still on it was woken by do_kill: the read ends.  The other ones try
   again, whether they have been killed in the meantime or not. *)
OffQueue(p) ==
    IF Contains(wait_queue, p)
    THEN RemoveAt(wait_queue, CHOOSE i \in 1 .. Len(wait_queue) : wait_queue[i] = p)
    ELSE wait_queue

dev_stdin_read_woken(p) ==
    LET interrupted == Contains(wait_queue, p)
    IN  /\ At(p, "read_woken")
        /\ wait_queue' = OffQueue(p)
        /\ left' = [left EXCEPT ![p] = IF interrupted THEN 0 ELSE @]
        /\ Goto(p, IF interrupted THEN "trapret" ELSE "read")
        /\ UNCHANGED <<k, parent, exiting, waitfor, timers, in_timer, nr_process,
                       cons, stdin>>

(* Mutant: wakeup_first instead of wakeup_queue. *)
wakeup_queue_first(k1) == wakeup_proc(k1, Head(wait_queue))

(* wakeup_queue(wait_queue, WT_KBD, 1) *)
wakeup_queue(k1) ==
    LET woken[i \in 0 .. Len(wait_queue)] ==
            IF i = 0 THEN k1 ELSE wakeup_proc(woken[i - 1], wait_queue[i])
    IN  woken[Len(wait_queue)]

(* The end of the clock interrupt: run_timer_list charges the tick, then
   dev_stdin_write(cons_getc()). *)
interrupt_input(keys) ==
    LET polled == cons_intr(cons, keys)
        c      == cons_char(polled)
        ticked == sched_class_proc_tick(k, k.current)
    IN  /\ in_timer /\ ~HeadExpired(timers)
        /\ cons' = cons_rest(polled)
        /\ IF c = NUL
           THEN k' = ticked /\ UNCHANGED <<stdin, wait_queue>>
           ELSE /\ stdin' = stdin_put(stdin, c)
                /\ k' = IF wait_queue = << >> THEN ticked ELSE wakeup_queue(ticked)
                /\ wait_queue' = << >>
        /\ in_timer' = FALSE
        /\ IF k.current \in Kernel THEN UNCHANGED pc ELSE Goto(k.current, "trapret")
        /\ UNCHANGED <<parent, exiting, waitfor, timers, nr_process, left>>

---------------------------------------------------------------------------
ReadStep ==
    \E p \in Procs :
       \/ dev_stdin_read(p) \/ dev_stdin_read_sleep(p)
       \/ dev_stdin_read_schedule(p) \/ dev_stdin_read_woken(p)

SKernelStep == ReadStep \/ (KernelStep /\ UNCHANGED inputVars)

STimerStep ==
    \/ run_timer_list_wake /\ UNCHANGED inputVars
    \/ \E keys \in SeqOf(Keys, MaxBurst) : interrupt_input(keys)

SNext ==
    \/ SKernelStep
    \/ STimerStep
    \/ (ProcessStep \/ interrupt_handler \/ Halted) /\ UNCHANGED inputVars
    \/ \E p \in Procs, len \in 1 .. MaxRead : sys_read(p, len)

(* As in module Process.  Nothing is assumed of the keyboard. *)
SFairness ==
    /\ WF_allVars(STimerStep)
    /\ SF_allVars(SKernelStep)
    /\ SF_allVars(KThreadStep /\ UNCHANGED inputVars)
    /\ SF_allVars(interrupt_handler /\ UNCHANGED inputVars)

SSpec == SInit /\ [][SNext]_allVars
SFairSpec == SSpec /\ SFairness

---------------------------------------------------------------------------
(* No lost wakeup: a process sleeps in dev_stdin_read only while the buffer
   is empty, and every one that sleeps there is on the queue that
   dev_stdin_write wakes; the queue holds nobody twice and nobody who has
   left the function, whose wait was on its stack. *)
ReadersWake ==
    /\ \A p \in Procs :
          /\ k.wait_state[p] = "WT_KBD" => Unread(stdin) = 0 /\ Contains(wait_queue, p)
          /\ Contains(wait_queue, p) => pc[p] \in {"read_call", "read_woken"}
    /\ IsInjective(wait_queue)

InRead(p) == pc[p] \in {"read", "read_call", "read_woken"}

(* A killed process exits unless it sleeps in do_wait or in dev_stdin_read:
   there PF_EXITING is not looked at before the sleep, so a kill() that is
   followed by a character before the reader runs is slept through. *)
KilledExitOrBlocked ==
    \A p \in Procs \ Kernel :
       (exiting[p] /\ ~Gone(p)) ~> (Gone(p) \/ k.wait_state[p] \in {"WT_CHILD", "WT_KBD"})

(* Characters arrive again and again. *)
Typing ==
    []<><<\E keys \in SeqOf(Keys \ {NUL}, MaxBurst) : keys # << >> /\ interrupt_input(keys)>>_allVars

(* While somebody keeps typing, a read comes to an end if no other process
   reads.  Against competitors it may not: dev_stdin_write wakes all readers
   and the first to run takes the character. *)
ReadEnds ==
    Typing => \A p \in Procs :
                 []<>(~InRead(p) \/ Stopped \/ \E q \in Procs \ {p} : InRead(q))

============================================================================
