--------------------------- MODULE SemLockProofs ---------------------------
(***************************************************************************)
(* The semaphore is a correct first-come first-served lock, for every      *)
(* number of processes and permits.                                        *)
(***************************************************************************)
EXTENDS SemLock, SchedProofs, FiniteSetTheorems

InDown(p) == pc[p] \in {"down_call", "down_woken"}

(* Where a process is and how it sleeps belong together: a queued process is
   inside down(), a process that up() took out of the queue knows it from its
   flags, and the process on the CPU is awake unless it is about to call
   schedule(). *)
Control ==
    /\ \A p \in Procs : /\ k.wait_state[p] # "0" => k.state[p] = "PROC_SLEEPING"
                        /\ k.state[p] # "PROC_ZOMBIE"
                        /\ InDown(p) => p \notin holds
                        /\ InQueue(sem, p) => InDown(p)
                        /\ InDown(p) /\ ~InQueue(sem, p) => wakeup_flags[p] = "WT_KSEM"
    /\ pc[k.current] \in {"run", "down_woken"} => k.state[k.current] = "PROC_RUNNABLE"
    /\ pc[idleproc] = "run" /\ k.state[idleproc] = "PROC_RUNNABLE"

(* The inductive invariant. *)
LInv ==
    /\ TypeOK
    /\ RunQueueOK(k)
    /\ QueueOK
    /\ NoPanic
    /\ Control
    /\ PermitsConserved
    /\ NoIdlePermit

(* What a step does to the abstract lock. *)
LockStep == Lock!Next \/ UNCHANGED <<Holding, sem.wait_queue>>

---------------------------------------------------------------------------
(* The set of holders is finite, so that its cardinality can be counted. *)
LEMMA HoldingFinite ==
    ASSUME TypeOK
    PROVE  IsFiniteSet(Holding) /\ Holding \subseteq Procs /\ Cardinality(Holding) \in Nat
  <1>1. Holding \subseteq Procs
    BY DEF Holding, Granted, TypeOK, Users
  <1>2. IsFiniteSet(Holding)
    BY <1>1, ProcsFinite, FS_Subset
  <1> QED
    BY <1>1, <1>2, FS_CardinalityType

(* The abstract specification counts like this module. *)
LEMMA SameCardinality == \A S : Lock!Cardinality(S) = Cardinality(S)
  BY Zenon DEF Lock!Cardinality, Cardinality

(* A semaphore whose wait queue does not change has the same processes in it. *)
LEMMA SameQueue ==
    ASSUME NEW s, NEW t, s.wait_queue = t.wait_queue
    PROVE  \A p \in Procs : InQueue(s, p) <=> InQueue(t, p)
  BY DEF InQueue

(* The steps that touch neither the semaphore nor its holders. *)
LEMMA FrameInv ==
    ASSUME LInv, UNCHANGED <<sem, wakeup_flags, holds>>,
           pc' \in [Procs -> {"run", "down_call", "down_woken", "sleep_call"}],
           \A p \in Procs : InDown(p)' <=> InDown(p),
           k' \in SchedRecords, RunQueueOK(k'), ~k'.panic,
           \A p \in Procs : /\ k'.wait_state[p] = "WT_KSEM" <=> k.wait_state[p] = "WT_KSEM"
                            /\ k'.wait_state[p] # "0" => k'.state[p] = "PROC_SLEEPING"
                            /\ k'.state[p] # "PROC_ZOMBIE",
           pc'[k'.current] \in {"run", "down_woken"} => k'.state[k'.current] = "PROC_RUNNABLE",
           pc'[idleproc] = "run", k'.state[idleproc] = "PROC_RUNNABLE"
    PROVE  LInv' /\ LockStep
  <1>1. TypeOK'
    BY DEF LInv, TypeOK
  <1>2. \A p \in Procs : InQueue(sem, p)' <=> InQueue(sem, p)
    BY DEF InQueue
  <1>3. QueueOK'
    BY <1>2 DEF LInv, QueueOK, InQueue
  <1>4. Control'
    BY <1>2 DEF LInv, Control
  <1>5. Granted' = Granted
    BY <1>2 DEF Granted, InDown
  <1>6. Holding' = Holding
    BY <1>5 DEF Holding
  <1>7. PermitsConserved' /\ NoIdlePermit'
    BY <1>6 DEF LInv, PermitsConserved, NoIdlePermit
  <1>8. LockStep
    BY <1>6 DEF LockStep
  <1> QED
    BY <1>1, <1>3, <1>4, <1>7, <1>8 DEF LInv, NoPanic

(* schedule() at any of the places that call it. *)
LEMMA ScheduleInv ==
    ASSUME LInv, \/ cpu_idle
                 \/ \E p \in Procs : preempt(p) \/ CallSchedule(p)
    PROVE  LInv' /\ LockStep
  <1>1. k' = schedule(k) /\ UNCHANGED <<sem, wakeup_flags, holds>>
    BY DEF cpu_idle, preempt, CallSchedule
  <1>2. k \in SchedRecords /\ RunQueueOK(k) /\ ~k.panic
    BY DEF LInv, TypeOK, NoPanic
  <1>3. /\ k' \in SchedRecords /\ RunQueueOK(k')
        /\ k'.state = k.state /\ k'.wait_state = k.wait_state
        /\ k'.current = idleproc \/ k'.state[k'.current] = "PROC_RUNNABLE"
    BY <1>1, <1>2, ScheduleFacts
  <1>4. ~k'.panic
    BY <1>1, <1>2, SchedulePanic
  <1>5. /\ pc' \in [Procs -> {"run", "down_call", "down_woken", "sleep_call"}]
        /\ \A p \in Procs : InDown(p)' <=> InDown(p)
        /\ pc'[idleproc] = "run"
    <2>1. CASE UNCHANGED pc
      BY <2>1 DEF LInv, TypeOK, InDown, Control
    <2>2. ASSUME NEW p \in Procs, CallSchedule(p)
          PROVE  <1>5!1 /\ <1>5!2 /\ <1>5!3
      <3>1. pc[p] \in {"down_call", "sleep_call"} /\ p # idleproc
        BY <2>2 DEF CallSchedule, LInv, Control
      <3>2. pc' = [pc EXCEPT ![p] = IF pc[p] = "down_call" THEN "down_woken" ELSE "run"]
        BY <2>2 DEF CallSchedule, Goto
      <3>3. \A x \in Procs : pc'[x] = IF x = p THEN (IF pc[p] = "down_call" THEN "down_woken" ELSE "run")
                                      ELSE pc[x]
        BY <3>2 DEF LInv, TypeOK
      <3>4. pc' \in [Procs -> {"run", "down_call", "down_woken", "sleep_call"}]
        BY <3>2 DEF LInv, TypeOK
      <3>5. \A x \in Procs : InDown(x)' <=> InDown(x)
        BY <3>1, <3>3 DEF InDown
      <3>6. pc'[idleproc] = "run"
        BY <3>1, <3>3, IdleAssumption DEF LInv, Control
      <3> QED
        BY <3>4, <3>5, <3>6
    <2> QED
      BY <2>1, <2>2 DEF cpu_idle, preempt
  <1>6. \A p \in Procs : /\ k'.wait_state[p] = "WT_KSEM" <=> k.wait_state[p] = "WT_KSEM"
                         /\ k'.wait_state[p] # "0" => k'.state[p] = "PROC_SLEEPING"
                         /\ k'.state[p] # "PROC_ZOMBIE"
    BY <1>3 DEF LInv, Control
  <1>7. k'.state[idleproc] = "PROC_RUNNABLE" /\ k'.state[k'.current] = "PROC_RUNNABLE"
    BY <1>3 DEF LInv, Control
  <1> QED
    BY <1>1, <1>3, <1>4, <1>5, <1>6, <1>7, FrameInv

(* A sleeper that does not wait for the semaphore is woken. *)
LEMMA OtherWakeInv ==
    ASSUME LInv, NEW q \in Procs, k.wait_state[q] \in WT_INTERRUPTED,
           k' = wakeup_proc(k, q), UNCHANGED <<sem, wakeup_flags, holds, pc>>
    PROVE  LInv' /\ LockStep
  <1>1. k \in SchedRecords /\ RunQueueOK(k) /\ ~k.panic
    BY DEF LInv, TypeOK, NoPanic
  <1>2. k.state[q] = "PROC_SLEEPING" /\ k.wait_state[q] # "WT_KSEM"
    BY DEF LInv, Control, WT_INTERRUPTED
  <1>3. /\ k' \in SchedRecords /\ RunQueueOK(k') /\ k'.current = k.current
        /\ \A x \in Procs : /\ k'.state[x] = IF x = q THEN "PROC_RUNNABLE" ELSE k.state[x]
                            /\ k'.wait_state[x] = IF x = q THEN "0" ELSE k.wait_state[x]
    BY <1>1, <1>2, WakeupPointwise
  <1>4. ~k'.panic
    BY <1>1, <1>2, WakeupPanic
  <1>5. \A p \in Procs : /\ k'.wait_state[p] = "WT_KSEM" <=> k.wait_state[p] = "WT_KSEM"
                         /\ k'.wait_state[p] # "0" => k'.state[p] = "PROC_SLEEPING"
                         /\ k'.state[p] # "PROC_ZOMBIE"
    BY <1>2, <1>3 DEF LInv, Control
  <1>6. k.current \in Procs
    BY <1>1 DEF SchedRecords
  <1>7. pc'[k'.current] \in {"run", "down_woken"} => k'.state[k'.current] = "PROC_RUNNABLE"
    BY <1>3, <1>6 DEF LInv, Control
  <1>8. pc'[idleproc] = "run" /\ k'.state[idleproc] = "PROC_RUNNABLE"
    BY <1>3, IdleAssumption DEF LInv, Control
  <1>9. /\ pc' \in [Procs -> {"run", "down_call", "down_woken", "sleep_call"}]
        /\ \A p \in Procs : InDown(p)' <=> InDown(p)
    BY DEF LInv, TypeOK, InDown
  <1> QED
    BY <1>3, <1>4, <1>5, <1>7, <1>8, <1>9, FrameInv

(* do_sleep, with or without the lock. *)
LEMMA DoSleepInv ==
    ASSUME LInv, NEW p \in Procs, do_sleep(p)
    PROVE  LInv' /\ LockStep
  <1>1. /\ p = k.current /\ p # idleproc /\ pc[p] = "run"
        /\ k' = SleepCurrent(k, "WT_TIMER")
        /\ pc' = [pc EXCEPT ![p] = "sleep_call"]
        /\ UNCHANGED <<sem, wakeup_flags, holds>>
    BY DEF do_sleep, At, Goto, Users
  <1>2. k \in SchedRecords /\ RunQueueOK(k) /\ ~k.panic /\ k.state[p] = "PROC_RUNNABLE"
    BY <1>1 DEF LInv, TypeOK, NoPanic, Control
  <1>3. /\ k' \in SchedRecords /\ RunQueueOK(k') /\ k'.current = p
        /\ k'.state = [k.state EXCEPT ![p] = "PROC_SLEEPING"]
        /\ k'.wait_state = [k.wait_state EXCEPT ![p] = "WT_TIMER"]
    BY <1>1, <1>2, SleepCurrentFacts, ZenonT(40) DEF WaitStates
  <1>4. ~k'.panic
    BY <1>1, <1>2 DEF SleepCurrent, SchedRecords
  <1>5. \A x \in Procs : /\ k'.state[x] = IF x = p THEN "PROC_SLEEPING" ELSE k.state[x]
                         /\ k'.wait_state[x] = IF x = p THEN "WT_TIMER" ELSE k.wait_state[x]
                         /\ pc'[x] = IF x = p THEN "sleep_call" ELSE pc[x]
    BY <1>1, <1>2, <1>3 DEF SchedRecords, LInv, TypeOK
  <1>6. k.wait_state[p] # "WT_KSEM"
    BY <1>2 DEF LInv, Control
  <1>7. \A x \in Procs : /\ k'.wait_state[x] = "WT_KSEM" <=> k.wait_state[x] = "WT_KSEM"
                         /\ k'.wait_state[x] # "0" => k'.state[x] = "PROC_SLEEPING"
                         /\ k'.state[x] # "PROC_ZOMBIE"
    BY <1>5, <1>6 DEF LInv, Control
  <1>8. pc'[idleproc] = "run" /\ k'.state[idleproc] = "PROC_RUNNABLE"
    BY <1>1, <1>5, IdleAssumption DEF LInv, Control
  <1>9. \A x \in Procs : InDown(x)' <=> InDown(x)
    BY <1>1, <1>5 DEF InDown
  <1>10. pc' \in [Procs -> {"run", "down_call", "down_woken", "sleep_call"}]
    BY <1>1 DEF LInv, TypeOK
  <1>11. pc'[k'.current] = "sleep_call"
    BY <1>3, <1>5
  <1> QED
    BY <1>1, <1>3, <1>4, <1>7, <1>8, <1>9, <1>10, <1>11, FrameInv

---------------------------------------------------------------------------
(* down() and try_down() when the value is positive: a free permit is taken. *)
LEMMA TakeInv ==
    ASSUME LInv, NEW p \in Procs, p = k.current, p \notin holds, p \in Users, pc[p] = "run",
           ~Blocks(sem), sem' = down_sem(sem, p), holds' = holds \cup {p},
           UNCHANGED <<k, wakeup_flags, pc>>
    PROVE  LInv' /\ LockStep
  <1>1. /\ sem.value \in Nat /\ sem.value > 0 /\ sem.wait_queue = << >>
        /\ sem = [value |-> sem.value, wait_queue |-> sem.wait_queue]
    BY DEF LInv, TypeOK, IsSem, Blocks, NoIdlePermit
  <1>2. sem'.value = sem.value - 1 /\ sem'.wait_queue = sem.wait_queue
    BY <1>1 DEF down_sem
  <1>3. IsSem(sem')
    <2>1. sem' = [value |-> sem'.value, wait_queue |-> sem'.wait_queue]
      BY <1>1 DEF down_sem
    <2> QED
      BY <2>1, <1>1, <1>2 DEF IsSem, LInv, TypeOK
  <1>4. TypeOK'
    BY <1>3 DEF LInv, TypeOK
  <1>5. \A x \in Procs : InQueue(sem, x)' <=> InQueue(sem, x)
    BY <1>2, SameQueue
  <1>6. QueueOK'
    BY <1>2, <1>5 DEF LInv, QueueOK
  <1>7. Control'
    BY <1>5 DEF LInv, Control, InDown
  <1>8. Granted' = Granted /\ p \notin Granted
    BY <1>5 DEF Granted
  <1>9. Holding' = Holding \cup {p} /\ p \notin Holding
    BY <1>8 DEF Holding
  <1>10. /\ IsFiniteSet(Holding) /\ Cardinality(Holding) \in Nat
         /\ sem.value = Permits - Cardinality(Holding)
    BY HoldingFinite DEF LInv, PermitsConserved
  <1>11. Cardinality(Holding') = Cardinality(Holding) + 1
    BY <1>9, <1>10, FS_AddElement
  <1>12. PermitsConserved' /\ NoIdlePermit'
    BY <1>1, <1>2, <1>10, <1>11, PermitsAssumption DEF PermitsConserved, NoIdlePermit
  <1>13. Lock!Acquire(p)
    BY <1>1, <1>2, <1>9, <1>10, PermitsAssumption, SameCardinality DEF Lock!Acquire
  <1>14. LockStep
    BY <1>13 DEF LockStep, Lock!Next
  <1> QED
    BY <1>4, <1>6, <1>7, <1>12, <1>14 DEF LInv, NoPanic

(* down() when no permit is free: the process joins the wait queue. *)
LEMMA DownBlocksInv ==
    ASSUME LInv, NEW p \in Procs, down(p), Blocks(sem)
    PROVE  LInv' /\ LockStep
  <1>1. /\ p = k.current /\ p # idleproc /\ pc[p] = "run" /\ p \notin holds
        /\ k' = SleepCurrent(k, "WT_KSEM")
        /\ sem' = [sem EXCEPT !.wait_queue = Append(sem.wait_queue, p)]
        /\ wakeup_flags' = [wakeup_flags EXCEPT ![p] = "WT_INTERRUPTED"]
        /\ pc' = [pc EXCEPT ![p] = "down_call"]
        /\ holds' = holds
    BY DEF down, At, Goto, Users, down_sleep, down_sem, down_flags
  <1>2. k \in SchedRecords /\ RunQueueOK(k) /\ ~k.panic /\ k.state[p] = "PROC_RUNNABLE"
    BY <1>1 DEF LInv, TypeOK, NoPanic, Control
  <1>3. /\ k' \in SchedRecords /\ RunQueueOK(k') /\ k'.current = p
        /\ k'.state = [k.state EXCEPT ![p] = "PROC_SLEEPING"]
        /\ k'.wait_state = [k.wait_state EXCEPT ![p] = "WT_KSEM"]
    BY <1>1, <1>2, SleepCurrentFacts, ZenonT(40) DEF WaitStates
  <1>4. ~k'.panic
    BY <1>1, <1>2 DEF SleepCurrent, SchedRecords
  <1>5. \A x \in Procs : /\ k'.state[x] = IF x = p THEN "PROC_SLEEPING" ELSE k.state[x]
                         /\ k'.wait_state[x] = IF x = p THEN "WT_KSEM" ELSE k.wait_state[x]
                         /\ pc'[x] = IF x = p THEN "down_call" ELSE pc[x]
                         /\ wakeup_flags'[x] = IF x = p THEN "WT_INTERRUPTED" ELSE wakeup_flags[x]
    BY <1>1, <1>2, <1>3 DEF SchedRecords, LInv, TypeOK
  <1>6. /\ sem = [value |-> sem.value, wait_queue |-> sem.wait_queue]
        /\ sem.value = 0 /\ sem.wait_queue \in Seq(Procs)
    BY DEF LInv, TypeOK, IsSem, Blocks
  <1>7. /\ sem'.value = 0 /\ sem'.wait_queue = Append(sem.wait_queue, p)
        /\ sem' = [value |-> sem'.value, wait_queue |-> sem'.wait_queue]
    BY <1>1, <1>6
  <1>8. ~InQueue(sem, p)
    BY <1>1 DEF LInv, Control, InDown
  <1>9. /\ \A x \in Procs : InQueue(sem', x) <=> (x = p \/ InQueue(sem, x))
        /\ \A i, j \in 1 .. Len(sem'.wait_queue) :
              sem'.wait_queue[i] = sem'.wait_queue[j] => i = j
    <2>1. /\ \A i \in 1 .. Len(sem.wait_queue) : sem.wait_queue[i] # p
          /\ \A i, j \in 1 .. Len(sem.wait_queue) : sem.wait_queue[i] = sem.wait_queue[j] => i = j
      BY <1>8 DEF InQueue, LInv, QueueOK
    <2> QED
      BY <2>1, <1>6, <1>7, AppendQueue DEF InQueue
  <1>10. TypeOK'
    <2>1. IsSem(sem')
      BY <1>6, <1>7 DEF IsSem
    <2>2. /\ wakeup_flags' \in [Procs -> WakeupFlags]
          /\ pc' \in [Procs -> {"run", "down_call", "down_woken", "sleep_call"}]
      BY <1>1 DEF LInv, TypeOK, WakeupFlags
    <2> QED
      BY <2>1, <2>2, <1>1, <1>3 DEF LInv, TypeOK
  <1>11. QueueOK'
    <2>1. \A x \in Procs : InQueue(sem', x) <=> k'.wait_state[x] = "WT_KSEM"
      BY <1>5, <1>9 DEF LInv, QueueOK
    <2> QED
      BY <2>1, <1>9 DEF QueueOK
  <1>12. Control'
    <2>1. ASSUME NEW x \in Procs
          PROVE  /\ k'.wait_state[x] # "0" => k'.state[x] = "PROC_SLEEPING"
                 /\ k'.state[x] # "PROC_ZOMBIE"
                 /\ InDown(x)' => x \notin holds
                 /\ InQueue(sem', x) => InDown(x)'
                 /\ InDown(x)' /\ ~InQueue(sem', x) => wakeup_flags'[x] = "WT_KSEM"
      <3>1. /\ k.wait_state[x] # "0" => k.state[x] = "PROC_SLEEPING"
            /\ k.state[x] # "PROC_ZOMBIE"
            /\ InDown(x) => x \notin holds
            /\ InQueue(sem, x) => InDown(x)
            /\ InDown(x) /\ ~InQueue(sem, x) => wakeup_flags[x] = "WT_KSEM"
        BY DEF LInv, Control
      <3>2. InDown(x)' <=> (x = p \/ InDown(x))
        BY <1>5 DEF InDown
      <3> QED
        BY <3>1, <3>2, <1>1, <1>5, <1>9, ZenonT(40)
    <2>2. pc'[k'.current] = "down_call"
      BY <1>3, <1>5
    <2>3. pc'[idleproc] = "run" /\ k'.state[idleproc] = "PROC_RUNNABLE"
      BY <1>1, <1>5, IdleAssumption DEF LInv, Control
    <2> QED
      BY <2>1, <2>2, <2>3, <1>1 DEF Control
  <1>13. Granted' = Granted /\ p \notin Granted
    <2>1. p \notin Granted
      BY <1>1 DEF Granted
    <2>2. ASSUME NEW x \in Procs
          PROVE  x \in Granted' <=> x \in Granted
      <3>1. CASE x = p
        <4>1. InQueue(sem', x)
          BY <1>9, <3>1
        <4>2. x \notin Granted'
          BY <4>1 DEF Granted
        <4> QED
          BY <2>1, <3>1, <4>2
      <3>2. CASE x # p
        <4>1. pc'[x] = pc[x] /\ (InQueue(sem', x) <=> InQueue(sem, x))
          BY <1>5, <1>9, <3>2
        <4> QED
          BY <4>1 DEF Granted
      <3> QED
        BY <3>1, <3>2
    <2>3. Granted' \subseteq Procs /\ Granted \subseteq Procs
      BY DEF Granted
    <2> QED
      BY <2>1, <2>2, <2>3
  <1>14. Holding' = Holding /\ p \notin Holding
    BY <1>1, <1>13 DEF Holding
  <1>15. sem.value = Permits - Cardinality(Holding) /\ Cardinality(Holding) \in Nat
    BY HoldingFinite DEF LInv, PermitsConserved
  <1>16. PermitsConserved' /\ NoIdlePermit'
    BY <1>6, <1>7, <1>14, <1>15 DEF PermitsConserved, NoIdlePermit
  <1>17. Lock!Request(p)
    <2>1. ~Lock!Waits(p)
      BY <1>8 DEF Lock!Waits, InQueue
    <2>2. Cardinality(Holding) = Permits
      BY <1>6, <1>15, PermitsAssumption
    <2> QED
      BY <2>1, <2>2, <1>7, <1>14, SameCardinality DEF Lock!Request
  <1>18. LockStep
    BY <1>17 DEF LockStep, Lock!Next
  <1> QED
    BY <1>3, <1>4, <1>10, <1>11, <1>12, <1>16, <1>18 DEF LInv, NoPanic

(* The woken process finds itself out of the queue, with the right flags. *)
LEMMA DownWokenInv ==
    ASSUME LInv, NEW p \in Procs, down_woken(p)
    PROVE  LInv' /\ LockStep
  <1>1. /\ p = k.current /\ p \in Users /\ pc[p] = "down_woken"
        /\ k' = Assert_(k, wakeup_flags[p] = "WT_KSEM")
        /\ sem' = wait_current_del(sem, p)
        /\ holds' = holds \cup {p}
        /\ pc' = [pc EXCEPT ![p] = "run"]
        /\ wakeup_flags' = wakeup_flags
    BY DEF down_woken, At, Goto
  <1>2. k \in SchedRecords /\ RunQueueOK(k) /\ ~k.panic /\ k.state[p] = "PROC_RUNNABLE"
    BY <1>1 DEF LInv, TypeOK, NoPanic, Control
  <1>3. k.wait_state[p] # "WT_KSEM"
    BY <1>2 DEF LInv, Control
  <1>4. ~InQueue(sem, p)
    BY <1>3 DEF LInv, QueueOK
  <1>5. sem' = sem
    BY <1>1, <1>4 DEF wait_current_del
  <1>6. wakeup_flags[p] = "WT_KSEM"
    BY <1>1, <1>4 DEF LInv, Control, InDown
  <1>7. /\ k' \in SchedRecords /\ RunQueueOK(k') /\ k'.current = k.current
        /\ k'.state = k.state /\ k'.wait_state = k.wait_state
    BY <1>1, <1>2, AssertKeeps
  <1>8. ~k'.panic
    BY <1>1, <1>2, <1>6 DEF Assert_, SchedRecords
  <1>9. \A x \in Procs : pc'[x] = IF x = p THEN "run" ELSE pc[x]
    BY <1>1 DEF LInv, TypeOK
  <1>10. \A x \in Procs : InQueue(sem, x)' <=> InQueue(sem, x)
    BY <1>5 DEF InQueue
  <1>11. TypeOK'
    BY <1>1, <1>5, <1>7 DEF LInv, TypeOK
  <1>12. QueueOK'
    BY <1>5, <1>7, <1>10 DEF LInv, QueueOK
  <1>13. Control'
    <2>1. ASSUME NEW x \in Procs
          PROVE  /\ k.wait_state[x] # "0" => k.state[x] = "PROC_SLEEPING"
                 /\ k.state[x] # "PROC_ZOMBIE"
                 /\ InDown(x)' => x \notin holds'
                 /\ InQueue(sem, x) => InDown(x)'
                 /\ InDown(x)' /\ ~InQueue(sem, x) => wakeup_flags[x] = "WT_KSEM"
      BY <1>1, <1>4, <1>9 DEF LInv, Control, InDown
    <2>2. k.state[idleproc] = "PROC_RUNNABLE" /\ pc'[idleproc] = "run"
      BY <1>9, IdleAssumption DEF LInv, Control
    <2> QED
      BY <2>1, <2>2, <1>1, <1>2, <1>5, <1>7, <1>10 DEF Control
  <1>14. Granted = Granted' \cup {p}
    BY <1>1, <1>4, <1>9, <1>10 DEF Granted
  <1>15. Holding' = Holding
    BY <1>1, <1>14 DEF Holding
  <1>16. PermitsConserved' /\ NoIdlePermit' /\ LockStep
    BY <1>5, <1>15 DEF LInv, PermitsConserved, NoIdlePermit, LockStep
  <1> QED
    BY <1>7, <1>8, <1>11, <1>12, <1>13, <1>16 DEF LInv, NoPanic

---------------------------------------------------------------------------
(* up() when nobody waits: the permit becomes free. *)
LEMMA UpFreeInv ==
    ASSUME LInv, NEW p \in Procs, up(p), sem.wait_queue = << >>
    PROVE  LInv' /\ LockStep
  <1>1. /\ p \in holds /\ pc[p] = "run" /\ holds' = holds \ {p}
        /\ sem' = [sem EXCEPT !.value = sem.value + 1]
        /\ UNCHANGED <<k, wakeup_flags, pc>>
    BY DEF up, At, up_wake, up_sem, up_flags
  <1>2. /\ sem.value \in Nat /\ sem.wait_queue \in Seq(Procs)
        /\ sem = [value |-> sem.value, wait_queue |-> sem.wait_queue]
    BY DEF LInv, TypeOK, IsSem
  <1>3. /\ sem'.value = sem.value + 1 /\ sem'.wait_queue = sem.wait_queue
        /\ sem' = [value |-> sem'.value, wait_queue |-> sem'.wait_queue]
    BY <1>1, <1>2
  <1>4. TypeOK'
    <2>1. IsSem(sem')
      BY <1>2, <1>3 DEF IsSem
    <2> QED
      BY <2>1, <1>1 DEF LInv, TypeOK
  <1>5. \A x \in Procs : InQueue(sem, x)' <=> InQueue(sem, x)
    BY <1>3, SameQueue
  <1>6. QueueOK' /\ Control'
    BY <1>1, <1>3, <1>5 DEF LInv, QueueOK, Control, InDown
  <1>7. Granted' = Granted /\ p \notin Granted
    BY <1>1, <1>5 DEF Granted
  <1>8. Holding' = Holding \ {p} /\ p \in Holding
    BY <1>1, <1>7 DEF Holding
  <1>9. /\ IsFiniteSet(Holding) /\ Cardinality(Holding) \in Nat
        /\ sem.value = Permits - Cardinality(Holding)
    BY HoldingFinite DEF LInv, PermitsConserved
  <1>10. Cardinality(Holding') = Cardinality(Holding) - 1
    BY <1>8, <1>9, FS_RemoveElement
  <1>11. PermitsConserved' /\ NoIdlePermit'
    BY <1>3, <1>9, <1>10, PermitsAssumption DEF PermitsConserved, NoIdlePermit
  <1>12. Lock!Release(p)
    BY <1>3, <1>8 DEF Lock!Release
  <1>13. LockStep
    BY <1>12 DEF LockStep, Lock!Next
  <1> QED
    BY <1>1, <1>4, <1>6, <1>11, <1>13 DEF LInv, NoPanic

(* up() when somebody waits: the first waiter gets the permit. *)
LEMMA UpHandInv ==
    ASSUME LInv, NEW p \in Procs, up(p), sem.wait_queue # << >>
    PROVE  LInv' /\ LockStep
  <1> DEFINE h == Head(sem.wait_queue)
             a == Assert_(k, k.wait_state[h] = "WT_KSEM")
  <1>1. /\ p = k.current /\ p \in holds /\ p # idleproc /\ pc[p] = "run"
        /\ holds' = holds \ {p}
        /\ k' = wakeup_proc(a, h)
        /\ sem' = [sem EXCEPT !.wait_queue = Tail(sem.wait_queue)]
        /\ wakeup_flags' = [wakeup_flags EXCEPT ![h] = "WT_KSEM"]
        /\ pc' = pc
    BY DEF up, At, Users, up_wake, up_sem, up_flags
  <1>2. /\ sem.value \in Nat /\ sem.wait_queue \in Seq(Procs)
        /\ sem = [value |-> sem.value, wait_queue |-> sem.wait_queue]
    BY DEF LInv, TypeOK, IsSem
  <1>3. /\ sem'.value = sem.value /\ sem'.wait_queue = Tail(sem.wait_queue)
        /\ sem' = [value |-> sem'.value, wait_queue |-> sem'.wait_queue]
    BY <1>1, <1>2
  <1>4. \A i, j \in 1 .. Len(sem.wait_queue) : sem.wait_queue[i] = sem.wait_queue[j] => i = j
    BY DEF LInv, QueueOK
  <1>5. /\ h \in Procs /\ sem'.wait_queue \in Seq(Procs)
        /\ \A x \in Procs : InQueue(sem', x) <=> (x # h /\ InQueue(sem, x))
        /\ \A i, j \in 1 .. Len(sem'.wait_queue) :
              sem'.wait_queue[i] = sem'.wait_queue[j] => i = j
    <2> DEFINE w == sem.wait_queue
    <2>1. w \in Seq(Procs) /\ w # << >> /\ \A i, j \in 1 .. Len(w) : w[i] = w[j] => i = j
      BY <1>2, <1>4
    <2> HIDE DEF w
    <2>2. /\ Head(w) \in Procs /\ Tail(w) \in Seq(Procs)
          /\ \A x \in Procs : (\E i \in 1 .. Len(Tail(w)) : Tail(w)[i] = x)
                               <=> (x # Head(w) /\ \E i \in 1 .. Len(w) : w[i] = x)
          /\ \A i, j \in 1 .. Len(Tail(w)) : Tail(w)[i] = Tail(w)[j] => i = j
      BY <2>1, TailQueue
    <2> QED
      BY <2>2, <1>3 DEF InQueue, w
  <1>6. InQueue(sem, h)
    <2>1. 1 \in 1 .. Len(sem.wait_queue) /\ sem.wait_queue[1] = h
      BY <1>2
    <2> QED
      BY <2>1 DEF InQueue
  <1> HIDE DEF h
  <1>7. /\ k.wait_state[h] = "WT_KSEM" /\ InDown(h) /\ h \notin holds
        /\ k.state[h] = "PROC_SLEEPING" /\ h # p
    BY <1>1, <1>5, <1>6 DEF LInv, QueueOK, Control, InDown
  <1>8. k \in SchedRecords /\ RunQueueOK(k) /\ ~k.panic
    BY DEF LInv, TypeOK, NoPanic
  <1>9. /\ a \in SchedRecords /\ RunQueueOK(a) /\ a.current = k.current
        /\ a.state = k.state /\ a.wait_state = k.wait_state
    BY <1>8, AssertKeeps
  <1>10. ~a.panic
    BY <1>7, <1>8 DEF Assert_, SchedRecords
  <1> HIDE DEF a
  <1>11. a.state[h] = "PROC_SLEEPING"
    BY <1>7, <1>9
  <1>12. /\ k' \in SchedRecords /\ RunQueueOK(k') /\ k'.current = a.current
         /\ \A x \in Procs : /\ k'.state[x] = IF x = h THEN "PROC_RUNNABLE" ELSE a.state[x]
                             /\ k'.wait_state[x] = IF x = h THEN "0" ELSE a.wait_state[x]
    BY <1>1, <1>5, <1>9, <1>11, WakeupPointwise
  <1>13. ~k'.panic
    BY <1>1, <1>5, <1>9, <1>10, <1>11, WakeupPanic
  <1>14. \A x \in Procs : /\ k'.state[x] = IF x = h THEN "PROC_RUNNABLE" ELSE k.state[x]
                          /\ k'.wait_state[x] = IF x = h THEN "0" ELSE k.wait_state[x]
                          /\ wakeup_flags'[x] = IF x = h THEN "WT_KSEM" ELSE wakeup_flags[x]
    BY <1>1, <1>9, <1>12 DEF LInv, TypeOK
  <1>15. TypeOK'
    <2>1. IsSem(sem')
      BY <1>2, <1>3, <1>5 DEF IsSem
    <2>2. wakeup_flags' \in [Procs -> WakeupFlags]
      BY <1>1 DEF LInv, TypeOK, WakeupFlags
    <2> QED
      BY <2>1, <2>2, <1>1, <1>12 DEF LInv, TypeOK
  <1>16. QueueOK'
    <2>1. \A x \in Procs : InQueue(sem', x) <=> k'.wait_state[x] = "WT_KSEM"
      BY <1>5, <1>14 DEF LInv, QueueOK
    <2> QED
      BY <2>1, <1>5 DEF QueueOK
  <1>17. Control'
    <2>1. ASSUME NEW x \in Procs
          PROVE  /\ k'.wait_state[x] # "0" => k'.state[x] = "PROC_SLEEPING"
                 /\ k'.state[x] # "PROC_ZOMBIE"
                 /\ InDown(x) => x \notin holds'
                 /\ InQueue(sem', x) => InDown(x)
                 /\ InDown(x) /\ ~InQueue(sem', x) => wakeup_flags'[x] = "WT_KSEM"
      <3>1. /\ k.wait_state[x] # "0" => k.state[x] = "PROC_SLEEPING"
            /\ k.state[x] # "PROC_ZOMBIE"
            /\ InDown(x) => x \notin holds
            /\ InQueue(sem, x) => InDown(x)
            /\ InDown(x) /\ ~InQueue(sem, x) => wakeup_flags[x] = "WT_KSEM"
        BY DEF LInv, Control
      <3> QED
        BY <3>1, <1>1, <1>5, <1>14, SMTT(30)
    <2>2. k.state[p] = "PROC_RUNNABLE"
      BY <1>1 DEF LInv, Control
    <2>3. k'.current = p /\ k'.state[p] = "PROC_RUNNABLE"
      BY <2>2, <1>1, <1>9, <1>12, <1>14
    <2>4. pc'[idleproc] = "run" /\ k'.state[idleproc] = "PROC_RUNNABLE"
      BY <1>1, <1>14, IdleAssumption DEF LInv, Control
    <2>5. \A x \in Procs : InDown(x)' <=> InDown(x)
      BY <1>1 DEF InDown
    <2> QED
      BY <2>1, <2>3, <2>4, <2>5 DEF Control
  <1>18. Granted' = Granted \cup {h} /\ p \notin Granted
    BY <1>1, <1>5, <1>7 DEF Granted, InDown
  <1>19. /\ Holding' = (Holding \ {p}) \cup {h} /\ p \in Holding
         /\ h \notin Holding \ {p}
    <2>1. h \notin Granted
      BY <1>6 DEF Granted
    <2> QED
      BY <2>1, <1>1, <1>7, <1>18 DEF Holding
  <1>20. /\ IsFiniteSet(Holding) /\ Cardinality(Holding) \in Nat
         /\ sem.value = Permits - Cardinality(Holding)
    BY HoldingFinite DEF LInv, PermitsConserved
  <1>21. IsFiniteSet(Holding \ {p}) /\ Cardinality(Holding \ {p}) = Cardinality(Holding) - 1
    BY <1>19, <1>20, FS_RemoveElement
  <1>22. Cardinality(Holding') = Cardinality(Holding \ {p}) + 1
    BY <1>19, <1>21, FS_AddElement
  <1>23. PermitsConserved' /\ NoIdlePermit'
    <2>1. sem.value = 0
      BY <1>2 DEF LInv, NoIdlePermit
    <2> QED
      BY <2>1, <1>3, <1>20, <1>21, <1>22 DEF PermitsConserved, NoIdlePermit
  <1>24. Lock!Release(p)
    BY <1>3, <1>19 DEF Lock!Release, h
  <1>25. LockStep
    BY <1>24 DEF LockStep, Lock!Next
  <1> QED
    BY <1>12, <1>13, <1>15, <1>16, <1>17, <1>23, <1>25 DEF LInv, NoPanic

---------------------------------------------------------------------------
LEMMA InitInv == Init => LInv /\ Lock!Init
  <1> SUFFICES ASSUME Init PROVE LInv /\ Lock!Init
    OBVIOUS
  <1>1. PICK order \in [1 .. Cardinality(Users) -> Users] :
          /\ \A i, j \in DOMAIN order : order[i] = order[j] => i = j
          /\ \A p \in Users : \E i \in DOMAIN order : order[i] = p
          /\ k = [current |-> idleproc,
                  state |-> [p \in Procs |-> "PROC_RUNNABLE"],
                  wait_state |-> [p \in Procs |-> "0"],
                  run_list |-> order,
                  time_slice |-> [p \in Procs |-> IF p = idleproc THEN 0 ELSE MaxTimeSlice],
                  need_resched |-> [p \in Procs |-> FALSE],
                  panic |-> FALSE]
    BY DEF Init
  <1>2. Cardinality(Users) \in Nat
    BY ProcsFinite, FS_Subset, FS_CardinalityType DEF Users
  <1>3. order \in Seq(Procs) /\ Len(order) = Cardinality(Users)
    <2>1. order \in [1 .. Cardinality(Users) -> Procs]
      BY DEF Users
    <2> QED
      BY <2>1, <1>2
  <1>4. /\ k.current = idleproc /\ k.run_list = order /\ ~k.panic
        /\ k.state = [p \in Procs |-> "PROC_RUNNABLE"]
        /\ k.wait_state = [p \in Procs |-> "0"]
    BY <1>1
  <1>5. k \in SchedRecords
    <2>1. [p \in Procs |-> IF p = idleproc THEN 0 ELSE MaxTimeSlice] \in [Procs -> 0 .. MaxTimeSlice]
      BY SliceAssumption
    <2>2. /\ k.state \in [Procs -> ProcStates] /\ k.wait_state \in [Procs -> WaitStates]
          /\ [p \in Procs |-> FALSE] \in [Procs -> BOOLEAN] /\ idleproc \in Procs
      BY <1>4, IdleAssumption DEF ProcStates, WaitStates
    <2> QED
      BY <1>1, <1>3, <1>4, <2>1, <2>2 DEF SchedRecords
  <1>6. RunQueueOK(k)
    <2>1. ASSUME NEW p \in Procs PROVE OnRunList(k, p) <=> p \in Users
      <3>1. DOMAIN order = 1 .. Len(order) /\ \A i \in 1 .. Len(order) : order[i] \in Users
        BY <1>3
      <3>2. p \in Users => \E i \in DOMAIN order : order[i] = p
        BY <1>1
      <3> QED
        BY <3>1, <3>2, <1>4 DEF OnRunList
    <2>2. \A p \in Procs : p \in Users <=>
            (k.state[p] = "PROC_RUNNABLE" /\ p # k.current /\ p # idleproc)
      BY <1>4 DEF Users
    <2>3. \A i, j \in 1 .. Len(k.run_list) : k.run_list[i] = k.run_list[j] => i = j
      BY <1>1, <1>3, <1>4
    <2> QED
      BY <2>1, <2>2, <2>3 DEF RunQueueOK
  <1>7. /\ sem = [value |-> Permits, wait_queue |-> << >>]
        /\ sem.value = Permits /\ sem.wait_queue = << >>
    BY DEF Init, sem_init
  <1>8. TypeOK
    <2>1. IsSem(sem)
      BY <1>7, PermitsAssumption DEF IsSem
    <2> QED
      BY <2>1, <1>5 DEF Init, TypeOK, WakeupFlags, Users
  <1>9. \A p \in Procs : ~InQueue(sem, p)
    BY <1>7 DEF InQueue
  <1>10. QueueOK
    BY <1>4, <1>7, <1>9 DEF QueueOK
  <1>11. Control
    BY <1>4, <1>9, IdleAssumption DEF Init, Control, InDown
  <1>12. Holding = {}
    BY DEF Init, Holding, Granted
  <1>13. PermitsConserved /\ NoIdlePermit
    BY <1>7, <1>12, FS_EmptySet, PermitsAssumption DEF PermitsConserved, NoIdlePermit
  <1>14. Lock!Init
    BY <1>7, <1>12 DEF Lock!Init
  <1> QED
    BY <1>4, <1>6, <1>8, <1>10, <1>11, <1>13, <1>14 DEF LInv, NoPanic

(* Every step keeps the invariant and is a step of the abstract lock. *)
LEMMA NextInv == LInv /\ [Next]_vars => LInv' /\ LockStep
  <1> SUFFICES ASSUME LInv, [Next]_vars PROVE LInv' /\ LockStep
    OBVIOUS
  <1>1. CASE UNCHANGED vars
    <2>1. LInv'
      BY <1>1 DEF vars, LInv, TypeOK, QueueOK, InQueue, NoPanic, Control, InDown,
                  PermitsConserved, Holding, Granted, NoIdlePermit
    <2>2. LockStep
      BY <1>1 DEF vars, LockStep, Holding, Granted, InQueue
    <2> QED
      BY <2>1, <2>2
  <1>2. ASSUME NEW p \in Procs, down(p) PROVE LInv' /\ LockStep
    <2>1. CASE Blocks(sem)
      BY <2>1, <1>2, DownBlocksInv
    <2>2. CASE ~Blocks(sem)
      BY <2>2, <1>2, TakeInv DEF down, At, down_sleep, down_flags
    <2> QED
      BY <2>1, <2>2
  <1>3. ASSUME NEW p \in Procs, try_down(p) PROVE LInv' /\ LockStep
    BY <1>3, TakeInv DEF try_down, At
  <1>4. ASSUME NEW p \in Procs, up(p) PROVE LInv' /\ LockStep
    BY <1>4, UpFreeInv, UpHandInv
  <1>5. ASSUME NEW p \in Procs, run_timer_list(p) PROVE LInv' /\ LockStep
    BY <1>5, OtherWakeInv DEF run_timer_list, WT_INTERRUPTED
  <1>6. ASSUME NEW p \in Procs, NEW q \in Procs, do_kill(p, q) PROVE LInv' /\ LockStep
    BY <1>6, OtherWakeInv DEF do_kill, KillWakes
  <1> QED
    BY <1>1, <1>2, <1>3, <1>4, <1>5, <1>6, ScheduleInv, DoSleepInv, DownWokenInv DEF Next

---------------------------------------------------------------------------
(* The inductive invariant holds in every reachable state. *)
THEOREM Invariance == Spec => []LInv
  <1>1. Init => LInv
    BY InitInv
  <1>2. LInv /\ [Next]_vars => LInv'
    BY NextInv
  <1> QED
    BY <1>1, <1>2, PTL DEF Spec

(* The direct hand-over in __up neither loses nor duplicates a permit, and
   __down and __up leave none idle while somebody waits. *)
THEOREM PermitsCorrect == Spec => []PermitsOK
  <1>1. LInv => PermitsOK
    BY DEF LInv, PermitsOK
  <1> QED
    BY <1>1, Invariance, PTL

(* The wait queue holds exactly the sleepers of the semaphore, each once. *)
THEOREM QueueCorrect == Spec => []QueueOK
  <1>1. LInv => QueueOK
    BY DEF LInv
  <1> QED
    BY <1>1, Invariance, PTL

(* No assert of sem.c, wakeup_proc or the run queue fails, whatever kills and
   timers do: down() returns with a permit only. *)
THEOREM NoPanicCorrect == Spec => []NoPanic
  <1>1. LInv => NoPanic
    BY DEF LInv
  <1> QED
    BY <1>1, Invariance, PTL

(* The semaphore, with its scheduler and timers, implements the queue lock. *)
THEOREM Refinement == Spec => FifoSpec
  <1>1. Init => LInv /\ Lock!Init
    BY InitInv
  <1>2. LInv /\ [Next]_vars => LInv' /\ [Lock!Next]_(Lock!fvars)
    BY NextInv DEF LockStep, Lock!fvars
  <1> QED
    BY <1>1, <1>2, PTL DEF Spec, FifoSpec, Lock!Spec

============================================================================
