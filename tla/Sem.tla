-------------------------------- MODULE Sem --------------------------------
(***************************************************************************)
(* The semaphores of kern/sync/sem.c and the wait queues of                *)
(* kern/sync/wait.c, as operators on the scheduler's record k (module      *)
(* Sched), a semaphore s and the function wakeup_flags.                    *)
(*                                                                         *)
(*   s.value            sem->value                                         *)
(*   s.wait_queue       the processes whose wait_t is linked, first first  *)
(*   wakeup_flags[p]    the field of the wait_t on the stack of p          *)
(*                                                                         *)
(* up() gives its permit to the first waiter instead of incrementing the   *)
(* value, so that a woken process need not compete for it.                 *)
(***************************************************************************)
EXTENDS Sched

WakeupFlags == {"WT_INTERRUPTED", "WT_KSEM"}

sem_init(value) == [value |-> value, wait_queue |-> << >>]

IsSem(s) ==
    /\ s = [value |-> s.value, wait_queue |-> s.wait_queue]
    /\ s.value \in Nat
    /\ s.wait_queue \in Seq(Procs)

InQueue(s, p) == \E i \in 1 .. Len(s.wait_queue) : s.wait_queue[i] = p

---------------------------------------------------------------------------
(* Mutants: the value is incremented although a waiter gets the permit; the
   woken waiter stays linked; up() forgets to increment the value. *)
up_sem_also_counts(s) ==
    IF s.wait_queue = << >> THEN [s EXCEPT !.value = s.value + 1]
    ELSE [value |-> s.value + 1, wait_queue |-> Tail(s.wait_queue)]

up_sem_no_del(s) ==
    IF s.wait_queue = << >> THEN [s EXCEPT !.value = s.value + 1] ELSE s

up_sem_uncounted(s) ==
    IF s.wait_queue = << >> THEN s ELSE [s EXCEPT !.wait_queue = Tail(s.wait_queue)]

(* __up: what becomes of the semaphore ... *)
up_sem(s) ==
    IF s.wait_queue = << >> THEN [s EXCEPT !.value = s.value + 1]
    ELSE [s EXCEPT !.wait_queue = Tail(s.wait_queue)]

(* ... of the scheduler, in which the first waiter becomes runnable ... *)
up_wake(k, s) ==
    IF s.wait_queue = << >> THEN k
    ELSE LET p == Head(s.wait_queue)
         IN  wakeup_proc(Assert_(k, k.wait_state[p] = "WT_KSEM"), p)

(* ... and of the flags that tell the waiter why it was woken. *)
up_flags(flags, s) ==
    IF s.wait_queue = << >> THEN flags ELSE [flags EXCEPT ![Head(s.wait_queue)] = "WT_KSEM"]

(* __down, up to the call of schedule(): take a permit, or join the queue. *)
Blocks(s) == ~(s.value > 0)

(* Mutant: wait_queue_add links the waiter at the head of the queue. *)
down_sem_lifo(s, p) ==
    IF Blocks(s) THEN [s EXCEPT !.wait_queue = <<p>> \o s.wait_queue]
    ELSE [s EXCEPT !.value = s.value - 1]

down_sem(s, p) ==
    IF Blocks(s) THEN [s EXCEPT !.wait_queue = Append(s.wait_queue, p)]
    ELSE [s EXCEPT !.value = s.value - 1]

down_sleep(k, s) == IF Blocks(s) THEN SleepCurrent(k, "WT_KSEM") ELSE k

down_flags(flags, s, p) == IF Blocks(s) THEN [flags EXCEPT ![p] = "WT_INTERRUPTED"] ELSE flags

(* wait_current_del, behind schedule(): a waiter that was not woken by up()
   is still in the queue. *)
wait_current_del(s, p) ==
    IF InQueue(s, p)
    THEN [s EXCEPT !.wait_queue = SelectSeq(s.wait_queue, LAMBDA q : q # p)]
    ELSE s

============================================================================
