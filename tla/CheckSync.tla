----------------------------- MODULE CheckSync -----------------------------
(***************************************************************************)
(* check_sync of kern/sync/check_sync.c: N philosophers, first with        *)
(* semaphores, then with a monitor, as kernel threads on the scheduler of  *)
(* module Sched; the main thread creates them and waits for them.          *)
(*                                                                         *)
(* Kernel threads are switched at calls of schedule() only, so a call of   *)
(* down() or do_sleep() ends with it; between the operations the clock     *)
(* interrupt may wake any thread that sleeps in do_sleep, in any order.    *)
(* pc[i] is the place where philosopher i goes on, behind[i] the place     *)
(* where it goes on when cond_signal returns.                              *)
(***************************************************************************)
EXTENDS Monitor, FiniteSets

CONSTANTS
    N,              \* number of philosophers
    Times,          \* meals of each one (TIMES)
    mainproc        \* the thread that runs check_sync

Phil == 0 .. N - 1

ASSUME PhilAssumption ==
    /\ N \in Nat \ {0, 1} /\ Times \in Nat \ {0}
    /\ Procs = Phil \cup {mainproc, idleproc} /\ mainproc # idleproc
    /\ Phil \cap {mainproc, idleproc} = {} /\ Conds = Phil

LEFT(i) == (i - 1 + N) % N
RIGHT(i) == (i + 1) % N

VARIABLES
    k,              \* the scheduler's record
    sem,            \* all semaphores
    m,              \* the counters of the monitor
    state,          \* state_sema, then state_condvar
    phase,          \* "sema", "condvar" or "done"
    waitfor,        \* the philosopher that check_sync waits for
    iter,           \* meals that are left
    pc, behind

vars == <<k, sem, m, state, phase, waitfor, iter, pc, behind>>

(* The semaphores of the first kind of philosophers. *)
mutex == <<"mutex">>
s(i) == <<"s", i>>

SemaSems == {mutex} \cup {s(i) : i \in Phil}

(* kernel_thread, once for every philosopher: nobody runs before check_sync
   waits for the first of them. *)
Created(kk) ==
    [kk EXCEPT !.state = [p \in Procs |-> IF p \in Phil THEN "PROC_RUNNABLE" ELSE @[p]],
               !.time_slice = [p \in Procs |-> IF p \in Phil THEN MaxTimeSlice ELSE @[p]],
               !.run_list = @ \o [i \in 1 .. N |-> i - 1]]

Init ==
    /\ k = Created([current |-> mainproc,
                    state |-> [p \in Procs |-> IF p \in Phil THEN "FREE" ELSE "PROC_RUNNABLE"],
                    wait_state |-> [p \in Procs |-> "0"],
                    run_list |-> << >>,
                    time_slice |-> [p \in Procs |-> 0],
                    need_resched |-> [p \in Procs |-> FALSE],
                    panic |-> FALSE])
    /\ sem = [id \in SemaSems \cup MonitorSems |->
                 IF id \in SemaSems THEN sem_init(IF id = mutex THEN 1 ELSE 0)
                                    ELSE monitor_init_sem(id)]
    /\ m = monitor_init
    /\ state = [i \in Phil |-> "THINKING"]
    /\ phase = "sema" /\ waitfor = 0
    /\ iter = [i \in Phil |-> Times]
    /\ pc = [i \in Phil |-> "think"]
    /\ behind = [i \in Phil |-> "think"]

At(i, ph, c) == k.current = i /\ phase = ph /\ pc[i] = c
Goto(i, c) == pc' = [pc EXCEPT ![i] = c]

Down(i, id) ==
    /\ k' = IF Blocks(sem[id]) THEN schedule(down_sleep(k, sem[id])) ELSE k
    /\ sem' = [sem EXCEPT ![id] = down_sem(@, i)]

Up(id) ==
    /\ k' = up_wake(k, sem[id])
    /\ sem' = [sem EXCEPT ![id] = up_sem(@)]

---------------------------------------------------------------------------
(* The loop of both kinds of philosophers.                                 *)

Sleep(i, from, to) ==
    /\ k.current = i /\ pc[i] = from
    /\ k' = schedule(SleepCurrent(k, "WT_TIMER"))
    /\ Goto(i, to)
    /\ UNCHANGED <<sem, m, state, phase, waitfor, iter, behind>>

think(i) == Sleep(i, "think", "take")
eat(i) == Sleep(i, "eat", "put")

(* The end of an iteration; after the last one the thread returns. *)
Again(i) ==
    /\ iter' = [iter EXCEPT ![i] = @ - 1]
    /\ Goto(i, IF iter[i] > 1 THEN "think" ELSE "quit")

(* do_exit: the thread becomes a zombie and wakes the main thread. *)
quit(i) ==
    /\ k.current = i /\ pc[i] = "quit"
    /\ LET z == [k EXCEPT !.state[i] = "PROC_ZOMBIE"]
       IN  k' = schedule(IF z.wait_state[mainproc] = "WT_CHILD" THEN wakeup_proc(z, mainproc) ELSE z)
    /\ UNCHANGED <<sem, m, state, phase, waitfor, iter, pc, behind>>

(* Mutant: the right neighbour is not looked at. *)
CanEat_left_only(st, j) == st[j] = "HUNGRY" /\ st[LEFT(j)] # "EATING"

(* The condition of phi_test_sema and phi_test_condvar. *)
CanEat(st, j) == st[j] = "HUNGRY" /\ st[LEFT(j)] # "EATING" /\ st[RIGHT(j)] # "EATING"

---------------------------------------------------------------------------
(* The philosophers with semaphores.                                       *)

take_sema(i) ==
    /\ At(i, "sema", "take")
    /\ Down(i, mutex)
    /\ Goto(i, "take_in")
    /\ UNCHANGED <<m, state, phase, waitfor, iter, behind>>

(* phi_test_sema(j), with the philosopher's own new state in st. *)
TestSema(i, j, st, to) ==
    /\ IF CanEat(st, j) THEN state' = [st EXCEPT ![j] = "EATING"] /\ Up(s(j))
                        ELSE state' = st /\ UNCHANGED <<k, sem>>
    /\ Goto(i, to)
    /\ UNCHANGED <<m, phase, waitfor, iter, behind>>

take_sema_in(i) ==
    /\ At(i, "sema", "take_in")
    /\ TestSema(i, i, [state EXCEPT ![i] = "HUNGRY"], "take_out")

take_sema_out(i) ==
    /\ At(i, "sema", "take_out")
    /\ Up(mutex)
    /\ Goto(i, "take_wait")
    /\ UNCHANGED <<m, state, phase, waitfor, iter, behind>>

take_sema_wait(i) ==
    /\ At(i, "sema", "take_wait")
    /\ Down(i, s(i))
    /\ Goto(i, "eat")
    /\ UNCHANGED <<m, state, phase, waitfor, iter, behind>>

put_sema(i) ==
    /\ At(i, "sema", "put")
    /\ Down(i, mutex)
    /\ Goto(i, "put_in")
    /\ UNCHANGED <<m, state, phase, waitfor, iter, behind>>

put_sema_left(i) ==
    /\ At(i, "sema", "put_in")
    /\ TestSema(i, LEFT(i), [state EXCEPT ![i] = "THINKING"], "put_right")

put_sema_right(i) ==
    /\ At(i, "sema", "put_right")
    /\ TestSema(i, RIGHT(i), state, "put_out")

put_sema_out(i) ==
    /\ At(i, "sema", "put_out")
    /\ Up(mutex)
    /\ Again(i)
    /\ UNCHANGED <<m, state, phase, waitfor, behind>>

---------------------------------------------------------------------------
(* The philosophers with a monitor.                                        *)

take_condvar(i) ==
    /\ At(i, "condvar", "take")
    /\ Down(i, Mutex)
    /\ Goto(i, "take_in")
    /\ UNCHANGED <<m, state, phase, waitfor, iter, behind>>

(* phi_test_condvar(j), up to the down() of its cond_signal. *)
TestCondvar(i, j, st, to) ==
    /\ state' = IF CanEat(st, j) THEN [st EXCEPT ![j] = "EATING"] ELSE st
    /\ IF CanEat(st, j) /\ Signals(m, j)
       THEN /\ m' = signal_enter(m)
            /\ Up(CvSem(j))
            /\ Goto(i, "signal")
            /\ behind' = [behind EXCEPT ![i] = to]
       ELSE Goto(i, to) /\ UNCHANGED <<k, sem, m, behind>>
    /\ UNCHANGED <<phase, waitfor, iter>>

(* Mutant: the signaller goes on without waiting for its turn. *)
cond_signal_down_mesa(i) ==
    /\ At(i, "condvar", "signal")
    /\ Goto(i, "signalled")
    /\ UNCHANGED <<k, sem, m, state, phase, waitfor, iter, behind>>

cond_signal_down(i) ==
    /\ At(i, "condvar", "signal")
    /\ Down(i, NextSem)
    /\ Goto(i, "signalled")
    /\ UNCHANGED <<m, state, phase, waitfor, iter, behind>>

cond_signal_end(i) ==
    /\ At(i, "condvar", "signalled")
    /\ m' = signal_leave(m)
    /\ Goto(i, behind[i])
    /\ UNCHANGED <<k, sem, state, phase, waitfor, iter, behind>>

take_condvar_in(i) ==
    /\ At(i, "condvar", "take_in")
    /\ TestCondvar(i, i, [state EXCEPT ![i] = "HUNGRY"], "take_tested")

(* if (state_condvar[i] == HUNGRY) cond_wait(), up to its down(). *)
cond_wait(i) ==
    /\ At(i, "condvar", "take_tested") /\ state[i] = "HUNGRY"
    /\ m' = wait_enter(m, i)
    /\ Up(LeaveSem(m))
    /\ Goto(i, "wait")
    /\ UNCHANGED <<state, phase, waitfor, iter, behind>>

cond_wait_down(i) ==
    /\ At(i, "condvar", "wait")
    /\ Down(i, CvSem(i))
    /\ Goto(i, "waited")
    /\ UNCHANGED <<m, state, phase, waitfor, iter, behind>>

cond_wait_end(i) ==
    /\ At(i, "condvar", "waited")
    /\ m' = wait_leave(m, i)
    /\ Goto(i, "take_out")
    /\ UNCHANGED <<k, sem, state, phase, waitfor, iter, behind>>

take_condvar_out(i) ==
    /\ \/ At(i, "condvar", "take_out")
       \/ At(i, "condvar", "take_tested") /\ state[i] # "HUNGRY"
    /\ Up(LeaveSem(m))
    /\ Goto(i, "eat")
    /\ UNCHANGED <<m, state, phase, waitfor, iter, behind>>

put_condvar(i) ==
    /\ At(i, "condvar", "put")
    /\ Down(i, Mutex)
    /\ Goto(i, "put_in")
    /\ UNCHANGED <<m, state, phase, waitfor, iter, behind>>

put_condvar_left(i) ==
    /\ At(i, "condvar", "put_in")
    /\ TestCondvar(i, LEFT(i), [state EXCEPT ![i] = "THINKING"], "put_right")

(* Mutant: the right neighbour is forgotten. *)
put_condvar_right_skipped(i) ==
    /\ At(i, "condvar", "put_right")
    /\ Goto(i, "put_out")
    /\ UNCHANGED <<k, sem, m, state, phase, waitfor, iter, behind>>

put_condvar_right(i) ==
    /\ At(i, "condvar", "put_right")
    /\ TestCondvar(i, RIGHT(i), state, "put_out")

put_condvar_out(i) ==
    /\ At(i, "condvar", "put_out")
    /\ Up(LeaveSem(m))
    /\ Again(i)
    /\ UNCHANGED <<m, state, phase, waitfor, behind>>

---------------------------------------------------------------------------
(* check_sync itself: do_wait for one philosopher after the other.  Having
   reaped the last one it starts the second phase, or is done. *)
do_wait_reap ==
    /\ k.current = mainproc /\ phase # "done"
    /\ k.state[waitfor] = "PROC_ZOMBIE"
    /\ LET r == [k EXCEPT !.state[waitfor] = "FREE"]
       IN  IF waitfor < N - 1
           THEN /\ k' = r /\ waitfor' = waitfor + 1
                /\ UNCHANGED <<sem, m, state, phase, iter, pc, behind>>
           ELSE IF phase = "condvar"
           THEN /\ k' = r /\ phase' = "done"
                /\ UNCHANGED <<sem, m, state, waitfor, iter, pc, behind>>
           ELSE /\ k' = Created(r) /\ phase' = "condvar" /\ waitfor' = 0
                /\ m' = monitor_init
                /\ sem' = [id \in DOMAIN sem |-> IF id \in MonitorSems THEN monitor_init_sem(id)
                                                                       ELSE sem[id]]
                /\ state' = [i \in Phil |-> "THINKING"]
                /\ iter' = [i \in Phil |-> Times]
                /\ pc' = [i \in Phil |-> "think"]
                /\ UNCHANGED behind

do_wait_sleep ==
    /\ k.current = mainproc /\ phase # "done"
    /\ k.state[waitfor] # "PROC_ZOMBIE"
    /\ k' = schedule(SleepCurrent(k, "WT_CHILD"))
    /\ UNCHANGED <<sem, m, state, phase, waitfor, iter, pc, behind>>

run_timer_list(i) ==
    /\ k.wait_state[i] = "WT_TIMER"
    /\ k' = wakeup_proc(k, i)
    /\ UNCHANGED <<sem, m, state, phase, waitfor, iter, pc, behind>>

cpu_idle ==
    /\ k.current = idleproc
    /\ k' = schedule(k)
    /\ UNCHANGED <<sem, m, state, phase, waitfor, iter, pc, behind>>

Philosopher(i) ==
    \/ think(i) \/ eat(i) \/ quit(i)
    \/ take_sema(i) \/ take_sema_in(i) \/ take_sema_out(i) \/ take_sema_wait(i)
    \/ put_sema(i) \/ put_sema_left(i) \/ put_sema_right(i) \/ put_sema_out(i)
    \/ take_condvar(i) \/ take_condvar_in(i) \/ take_condvar_out(i)
    \/ cond_wait(i) \/ cond_wait_down(i) \/ cond_wait_end(i)
    \/ cond_signal_down(i) \/ cond_signal_end(i)
    \/ put_condvar(i) \/ put_condvar_left(i) \/ put_condvar_right(i) \/ put_condvar_out(i)

CPU == (\E i \in Phil : Philosopher(i)) \/ do_wait_reap \/ do_wait_sleep \/ cpu_idle

(* check_sync has returned: init_main goes on. *)
Done == phase = "done" /\ UNCHANGED vars

Next == CPU \/ (\E i \in Phil : run_timer_list(i)) \/ Done

(* The CPU runs and every timer expires. *)
Fairness == WF_vars(CPU) /\ \A i \in Phil : WF_vars(run_timer_list(i))

Spec == Init /\ [][Next]_vars
FairSpec == Spec /\ Fairness

---------------------------------------------------------------------------
PCs == {"think", "take", "take_in", "take_tested", "take_out", "take_wait", "eat", "put",
        "put_in", "put_right", "put_out", "signal", "signalled", "wait", "waited", "quit"}

(* The type of every variable. *)
TypeOK ==
    /\ k \in SchedRecords
    /\ \A id \in DOMAIN sem : IsSem(sem[id])
    /\ m \in [next_count : 0 .. N, count : [Phil -> 0 .. N]]
    /\ state \in [Phil -> {"THINKING", "HUNGRY", "EATING"}]
    /\ phase \in {"sema", "condvar", "done"} /\ waitfor \in Phil
    /\ iter \in [Phil -> 0 .. Times]
    /\ pc \in [Phil -> PCs] /\ behind \in [Phil -> PCs]

(* From the return of take_forks to the reset of its state in put_forks a
   philosopher uses both forks, even while it waits for the mutex. *)
HasForks(i) == pc[i] \in {"eat", "put", "put_in"} /\ ~InQueue(sem[s(i)], i)

(* Neighbours never use a fork at the same time, and the state array that
   phi_test reads says who uses them. *)
ForksExclusive ==
    \A i \in Phil : HasForks(i) => /\ state[i] = "EATING"
                                   /\ ~HasForks(LEFT(i)) /\ ~HasForks(RIGHT(i))

(* Whenever nobody is inside the critical section or the monitor, every hungry
   philosopher has an eating neighbour: put_forks wakes all it can. *)
WorkConserving ==
    phase # "done" /\ sem[IF phase = "sema" THEN mutex ELSE Mutex].value = 1 =>
       \A i \in Phil : state[i] = "HUNGRY" =>
          state[LEFT(i)] = "EATING" \/ state[RIGHT(i)] = "EATING"

(* The threads that may touch the data of the monitor. *)
Active ==
    {i \in Phil : \/ pc[i] \in {"take_in", "put_in"} /\ ~InQueue(sem[Mutex], i)
                  \/ pc[i] = "signalled" /\ ~InQueue(sem[NextSem], i)
                  \/ pc[i] = "waited" /\ ~InQueue(sem[CvSem(i)], i)
                  \/ pc[i] \in {"take_tested", "take_out", "put_right", "put_out"}}

(* One thread is active in the monitor, or its mutex is free: cond_signal,
   cond_wait and the ends of the routines pass control to exactly one thread.
   The counters tell who waits, so that a signal is sent to a waiting thread
   only, and no signal is stored for a later one.  (The type invariant is
   included.) *)
OneActive ==
    TypeOK /\ (phase = "condvar" =>
       /\ sem[Mutex].value + Cardinality(Active) = 1
       /\ m.next_count = Cardinality({i \in Phil : pc[i] \in {"signal", "signalled"}})
       /\ \A i \in Phil : m.count[i] = IF pc[i] \in {"wait", "waited"} THEN 1 ELSE 0
       /\ \A id \in MonitorSems \ {Mutex} : sem[id].value = 0)

(* Everybody eats Times times in both phases and check_sync returns. *)
Finishes == <>(phase = "done")

============================================================================
