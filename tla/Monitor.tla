------------------------------ MODULE Monitor ------------------------------
(***************************************************************************)
(* The condition variables of kern/sync/monitor.c, in the style of Hoare:  *)
(* who signals waits until the woken thread has left the monitor.          *)
(*                                                                         *)
(* Semaphores are the values of a function sem; a monitor has the          *)
(* semaphores <<"mt.mutex">>, <<"mt.next">> and <<"cv", c>> for every      *)
(* condition variable c, and the counters                                  *)
(*   m.next_count   signallers that wait for their turn                    *)
(*   m.count[c]     threads inside cond_wait(c)                            *)
(* A procedure that calls down() is split at the call.                     *)
(***************************************************************************)
EXTENDS Sem

CONSTANT Conds      \* the condition variables of the monitor

Mutex == <<"mt.mutex">>
NextSem == <<"mt.next">>
CvSem(c) == <<"cv", c>>

MonitorSems == {Mutex, NextSem} \cup {CvSem(c) : c \in Conds}

monitor_init == [next_count |-> 0, count |-> [c \in Conds |-> 0]]

monitor_init_sem(id) == sem_init(IF id = Mutex THEN 1 ELSE 0)

(* Mutant: the entry semaphore is always released, signallers stay behind. *)
LeaveSem_mutex(m) == Mutex

(* Leaving the monitor, in cond_wait and at the end of its routines: a
   signaller that waits goes first. *)
LeaveSem(m) == IF m.next_count > 0 THEN NextSem ELSE Mutex

(* cond_signal up to its down(next): nothing happens unless a thread waits. *)
Signals(m, c) == m.count[c] > 0

signal_enter(m) == [m EXCEPT !.next_count = @ + 1]

(* Mutant: the counter is not decremented. *)
signal_leave_uncounted(m) == m

signal_leave(m) == [m EXCEPT !.next_count = @ - 1]

(* cond_wait up to, and behind, its down(cv.sem). *)
wait_enter(m, c) == [m EXCEPT !.count[c] = @ + 1]

wait_leave(m, c) == [m EXCEPT !.count[c] = @ - 1]

============================================================================
