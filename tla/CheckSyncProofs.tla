-------------------------- MODULE CheckSyncProofs --------------------------
(***************************************************************************)
(* The dining philosophers of check_sync, for every number of philosophers *)
(* and of meals: neighbours never eat at the same time, nobody is hungry   *)
(* without a reason, and the monitor passes control to one thread at a     *)
(* time.                                                                   *)
(***************************************************************************)
EXTENDS CheckSync, SchedProofs, FiniteSetTheorems

Sems == SemaSems \cup MonitorSems
SemRecords == [value : Nat, wait_queue : Seq(Procs)]

(* The semaphore in whose queue a philosopher is when it sleeps at place c. *)
Place(ph, c, i) ==
    IF ph = "sema"
    THEN IF c \in {"take_in", "put_in"} THEN mutex ELSE IF c = "eat" THEN s(i) ELSE <<"none">>
    ELSE IF c \in {"take_in", "put_in"} THEN Mutex
         ELSE IF c = "signalled" THEN NextSem ELSE IF c = "waited" THEN CvSem(i) ELSE <<"none">>

Asleep(i) == k.wait_state[i] = "WT_KSEM"

(* The scheduler: only sleepers wait, the thread on the CPU is runnable. *)
KOK(kk) ==
    /\ kk \in SchedRecords /\ RunQueueOK(kk)
    /\ kk.state[kk.current] = "PROC_RUNNABLE" /\ kk.state[idleproc] = "PROC_RUNNABLE"
    /\ \A p \in Procs : kk.wait_state[p] # "0" <=> kk.state[p] = "PROC_SLEEPING"

(* The wait queues hold, each once, the philosophers asleep at their places. *)
QOK(kk, ss, ph, pp) ==
    /\ ss \in [Sems -> SemRecords]
    /\ \A id \in Sems : \A a, b \in 1 .. Len(ss[id].wait_queue) :
          ss[id].wait_queue[a] = ss[id].wait_queue[b] => a = b
    /\ \A id \in Sems : \A p \in Procs :
          InQueue(ss[id], p) <=> /\ p \in Phil /\ kk.wait_state[p] = "WT_KSEM"
                                 /\ Place(ph, pp[p], p) = id
    /\ \A p \in Phil : kk.wait_state[p] = "WT_KSEM" => Place(ph, pp[p], p) \in Sems

(* Threads that have ended, and those check_sync has reaped. *)
ReapOK ==
    \A i \in Phil : /\ k.state[i] \in {"PROC_ZOMBIE", "FREE"} => pc[i] = "quit"
                    /\ i < waitfor => k.state[i] = "FREE"

(* The places that a philosopher only passes while it has the CPU. *)
OnCpu == {"take_tested", "take_out", "take_wait", "put_right", "put_out", "signal", "wait"}

CpuOK == \A i \in Phil : pc[i] \in OnCpu => k.current = i

(* What the threads of every kind rely on. *)
Core ==
    /\ KOK(k) /\ QOK(k, sem, phase, pc) /\ ReapOK /\ CpuOK
    /\ pc \in [Phil -> PCs] /\ waitfor \in Phil

PhaseOK ==
    \A i \in Phil : IF phase = "sema"
                    THEN pc[i] \notin {"take_tested", "signal", "signalled", "wait", "waited"}
                    ELSE pc[i] # "take_wait"

(* The state array agrees with the places. *)
StateOK ==
    \A i \in Phil :
       /\ pc[i] \in {"think", "take", "take_in", "put_right", "put_out", "signal", "signalled", "quit"}
             => state[i] = "THINKING"
       /\ pc[i] \in {"put", "put_in"} => state[i] = "EATING"
       /\ pc[i] \in {"eat", "waited"} => state[i] = IF Asleep(i) THEN "HUNGRY" ELSE "EATING"
       /\ pc[i] = "wait" => state[i] = "HUNGRY"
       /\ pc[i] \in {"take_tested", "take_out", "take_wait"} => state[i] \in {"HUNGRY", "EATING"}
       /\ pc[i] = "take_out" /\ phase # "sema" => state[i] = "EATING"

(* s[i] has a permit from the moment philosopher i may eat until it takes it. *)
GrantOK ==
    phase = "sema" => \A i \in Phil :
       sem[s(i)].value = IF pc[i] \in {"take_out", "take_wait"} /\ state[i] = "EATING" THEN 1 ELSE 0

Entry == IF phase = "sema" THEN mutex ELSE Mutex

(* The philosophers inside the critical section or the monitor. *)
Inside(i) ==
    \/ pc[i] \in {"take_in", "put_in", "signalled", "waited"} /\ ~Asleep(i)
    \/ pc[i] \in {"take_tested", "take_out", "put_right", "put_out"}

MutexOK ==
    /\ sem[Entry].value \in {0, 1}
    /\ sem[Entry].value = 1 => \A i \in Phil : ~Inside(i)
    /\ sem[Entry].value = 0 => \E i \in Phil : Inside(i)
    /\ \A i, j \in Phil : Inside(i) /\ Inside(j) => i = j

NeighbourOK == \A i \in Phil : state[i] = "EATING" => state[RIGHT(i)] # "EATING"

(* Philosopher j is in put_forks and has still to look at its right. *)
LooksRight(j) ==
    pc[j] = "put_right" \/ (pc[j] \in {"signal", "signalled"} /\ behind[j] = "put_right")

HungryOK ==
    \A i \in Phil : state[i] = "HUNGRY" =>
       state[LEFT(i)] = "EATING" \/ state[RIGHT(i)] = "EATING" \/ LooksRight(LEFT(i))

Signallers == {i \in Phil : pc[i] \in {"signal", "signalled"}}

(* The counters and semaphores of the monitor. *)
MonitorOK ==
    phase # "sema" =>
       /\ \A i \in Phil : /\ m.count[i] = IF pc[i] \in {"wait", "waited"} THEN 1 ELSE 0
                          /\ sem[CvSem(i)].value = 0
                          /\ i \in Signallers => behind[i] \in {"put_right", "put_out"}
       /\ sem[NextSem].value = 0
       /\ m.next_count = Cardinality(Signallers)
       /\ sem[Mutex].value = 1 => Signallers = {}

IterOK == \A i \in Phil : pc[i] # "quit" => iter[i] > 0

(* The types of the variables beside k and sem. *)
DataType ==
    /\ m \in [next_count : 0 .. N, count : [Phil -> 0 .. N]]
    /\ state \in [Phil -> {"THINKING", "HUNGRY", "EATING"}]
    /\ phase \in {"sema", "condvar", "done"} /\ waitfor \in Phil
    /\ iter \in [Phil -> 0 .. Times]
    /\ pc \in [Phil -> PCs] /\ behind \in [Phil -> PCs]

(* The inductive invariant. *)
Inv ==
    /\ DataType
    /\ Core
    /\ PhaseOK /\ StateOK /\ GrantOK /\ MutexOK
    /\ NeighbourOK /\ HungryOK /\ MonitorOK /\ IterOK

---------------------------------------------------------------------------
(* Arithmetic of the round table and the names of the semaphores.          *)

(* LEFT and RIGHT without the modulus. *)
LEMMA NeighbourValues ==
    ASSUME NEW i \in Phil
    PROVE  /\ RIGHT(i) = IF i = N - 1 THEN 0 ELSE i + 1
           /\ LEFT(i) = IF i = 0 THEN N - 1 ELSE i - 1
  BY PhilAssumption, SMTT(30) DEF RIGHT, LEFT, Phil

(* The left neighbour of the right neighbour is oneself, and conversely. *)
LEMMA Neighbours ==
    ASSUME NEW i \in Phil
    PROVE  /\ LEFT(i) \in Phil /\ RIGHT(i) \in Phil
           /\ LEFT(RIGHT(i)) = i /\ RIGHT(LEFT(i)) = i
           /\ LEFT(i) # i /\ RIGHT(i) # i
  <1>1. /\ LEFT(i) \in Phil /\ RIGHT(i) \in Phil /\ LEFT(i) # i /\ RIGHT(i) # i
    BY NeighbourValues, PhilAssumption DEF Phil
  <1>2. /\ RIGHT(LEFT(i)) = IF LEFT(i) = N - 1 THEN 0 ELSE LEFT(i) + 1
        /\ LEFT(RIGHT(i)) = IF RIGHT(i) = 0 THEN N - 1 ELSE RIGHT(i) - 1
    BY <1>1, NeighbourValues
  <1>3. /\ RIGHT(i) = IF i = N - 1 THEN 0 ELSE i + 1
        /\ LEFT(i) = IF i = 0 THEN N - 1 ELSE i - 1
    BY NeighbourValues
  <1> QED
    BY <1>1, <1>2, <1>3, PhilAssumption DEF Phil

(* The philosophers are threads, and neither main nor idle. *)
LEMMA PhilFacts ==
    /\ mainproc \in Procs /\ idleproc \in Procs /\ mainproc # idleproc
    /\ \A i \in Phil : i \in Procs /\ i # mainproc /\ i # idleproc
    /\ \A p \in Procs : p \in Phil \/ p = mainproc \/ p = idleproc
  BY PhilAssumption

(* No two semaphores have the same name. *)
LEMMA Names ==
    /\ {mutex, Mutex, NextSem} \subseteq Sems
    /\ mutex # Mutex /\ mutex # NextSem /\ Mutex # NextSem
    /\ \A i \in Phil : /\ s(i) \in Sems /\ CvSem(i) \in Sems
                       /\ s(i) # mutex /\ s(i) # Mutex /\ s(i) # NextSem
                       /\ CvSem(i) # mutex /\ CvSem(i) # Mutex /\ CvSem(i) # NextSem
    /\ \A i, j \in Phil : /\ s(i) # CvSem(j)
                          /\ s(i) = s(j) => i = j
                          /\ CvSem(i) = CvSem(j) => i = j
    /\ \A id \in Sems : \/ id \in {mutex, Mutex, NextSem}
                        \/ \E i \in Phil : id = s(i) \/ id = CvSem(i)
    /\ <<"none">> \notin Sems
  BY PhilAssumption DEF Sems, SemaSems, MonitorSems, mutex, s, Mutex, NextSem, CvSem

---------------------------------------------------------------------------
(* What the two operations of a semaphore do.                              *)

LEMMA DownSemFacts ==
    ASSUME NEW u \in SemRecords, NEW i \in Procs, NEW v, v = down_sem(u, i)
    PROVE  /\ v \in SemRecords
           /\ u.value > 0 => v.value = u.value - 1 /\ v.wait_queue = u.wait_queue
           /\ ~(u.value > 0) => v.value = u.value /\ v.wait_queue = Append(u.wait_queue, i)
  <1>1. u.value \in Nat /\ Append(u.wait_queue, i) \in Seq(Procs)
    BY DEF SemRecords
  <1>2. CASE u.value > 0
    BY <1>1, <1>2 DEF SemRecords, down_sem, Blocks
  <1>3. CASE ~(u.value > 0)
    <2>1. v = [u EXCEPT !.wait_queue = Append(u.wait_queue, i)]
      BY <1>3 DEF down_sem, Blocks
    <2> QED
      BY <2>1, <1>1, <1>3 DEF SemRecords
  <1> QED
    BY <1>2, <1>3

LEMMA UpSemFacts ==
    ASSUME NEW u \in SemRecords, NEW v, v = up_sem(u)
    PROVE  /\ v \in SemRecords
           /\ u.wait_queue = << >> => v.value = u.value + 1 /\ v.wait_queue = << >>
           /\ u.wait_queue # << >> => v.value = u.value /\ v.wait_queue = Tail(u.wait_queue)
  <1>1. CASE u.wait_queue = << >>
    BY <1>1 DEF SemRecords, up_sem
  <1>2. CASE u.wait_queue # << >>
    <2>1. v = [u EXCEPT !.wait_queue = Tail(u.wait_queue)]
      BY <1>2 DEF up_sem
    <2>2. Tail(u.wait_queue) \in Seq(Procs)
      BY <1>2 DEF SemRecords
    <2> QED
      BY <2>1, <2>2, <1>2 DEF SemRecords
  <1> QED
    BY <1>1, <1>2

(* sem_init. *)
LEMMA SemInitFacts ==
    ASSUME NEW n \in {0, 1}, NEW u, u = sem_init(n)
    PROVE  u \in SemRecords /\ u.value = n /\ u.wait_queue = << >> /\ \A p : ~InQueue(u, p)
  <1>1. << >> \in Seq(Procs) /\ n \in Nat
    OBVIOUS
  <1>2. u = [value |-> n, wait_queue |-> << >>]
    BY DEF sem_init
  <1>3. u.value = n /\ u.wait_queue = << >>
    BY <1>2
  <1>4. u \in SemRecords
    BY <1>1, <1>2 DEF SemRecords
  <1> QED
    BY <1>3, <1>4 DEF InQueue

(* Going to sleep and giving up the CPU. *)
LEMMA SleepKOK ==
    ASSUME NEW a, KOK(a), NEW w \in WaitStates \ {"0"}, a.current # idleproc,
           NEW b, b = schedule(SleepCurrent(a, w))
    PROVE  /\ KOK(b)
           /\ \A p \in Procs :
                 /\ b.wait_state[p] = IF p = a.current THEN w ELSE a.wait_state[p]
                 /\ b.state[p] = IF p = a.current THEN "PROC_SLEEPING" ELSE a.state[p]
  <1>1. a \in SchedRecords /\ RunQueueOK(a) /\ w \in WaitStates
    BY DEF KOK
  <1>2. PICK z : z = SleepCurrent(a, w)
    OBVIOUS
  <1>3. /\ z \in SchedRecords /\ RunQueueOK(z)
        /\ z.state = [a.state EXCEPT ![a.current] = "PROC_SLEEPING"]
        /\ z.wait_state = [a.wait_state EXCEPT ![a.current] = w]
    BY <1>1, <1>2, SleepCurrentFacts
  <1>4. b = schedule(z)
    BY <1>2
  <1>5. /\ b \in SchedRecords /\ RunQueueOK(b) /\ b.state = z.state /\ b.wait_state = z.wait_state
        /\ b.current = idleproc \/ b.state[b.current] = "PROC_RUNNABLE"
    BY <1>3, <1>4, ScheduleFacts
  <1>6. \A p \in Procs :
           /\ b.wait_state[p] = IF p = a.current THEN w ELSE a.wait_state[p]
           /\ b.state[p] = IF p = a.current THEN "PROC_SLEEPING" ELSE a.state[p]
    BY <1>1, <1>3, <1>5, SMTT(30) DEF SchedRecords
  <1>7. b.state[idleproc] = "PROC_RUNNABLE"
    BY <1>6, PhilFacts DEF KOK
  <1>8. b.state[b.current] = "PROC_RUNNABLE"
    BY <1>5, <1>7
  <1>9. \A p \in Procs : b.wait_state[p] # "0" <=> b.state[p] = "PROC_SLEEPING"
    BY <1>6 DEF KOK
  <1> QED
    BY <1>5, <1>6, <1>7, <1>8, <1>9 DEF KOK

(* Waking a thread that sleeps. *)
LEMMA WakeKOK ==
    ASSUME NEW a, KOK(a), NEW h \in Procs, a.state[h] = "PROC_SLEEPING",
           NEW b, b = wakeup_proc(a, h)
    PROVE  /\ KOK(b) /\ b.current = a.current
           /\ \A p \in Procs :
                 /\ b.wait_state[p] = IF p = h THEN "0" ELSE a.wait_state[p]
                 /\ b.state[p] = IF p = h THEN "PROC_RUNNABLE" ELSE a.state[p]
  <1>1. a \in SchedRecords /\ RunQueueOK(a) /\ (a.state[h] = "PROC_RUNNABLE" => a.wait_state[h] = "0")
    BY DEF KOK
  <1>2. /\ b \in SchedRecords /\ RunQueueOK(b) /\ b.current = a.current
        /\ \A x \in Procs : /\ b.state[x] = IF x = h THEN "PROC_RUNNABLE" ELSE a.state[x]
                            /\ b.wait_state[x] = IF x = h THEN "0" ELSE a.wait_state[x]
    BY <1>1, WakeupPointwise
  <1>3. a.current \in Procs
    BY <1>1 DEF SchedRecords
  <1>4. b.state[b.current] = "PROC_RUNNABLE" /\ b.state[idleproc] = "PROC_RUNNABLE"
    BY <1>2, <1>3, PhilFacts DEF KOK
  <1>5. \A p \in Procs : b.wait_state[p] # "0" <=> b.state[p] = "PROC_SLEEPING"
    BY <1>2, ZenonT(40) DEF KOK
  <1> QED
    BY <1>2, <1>4, <1>5 DEF KOK

(* An assertion keeps KOK. *)
LEMMA AssertKOK ==
    ASSUME NEW a, KOK(a), NEW e, NEW b, b = Assert_(a, e)
    PROVE  KOK(b) /\ b.current = a.current /\ b.state = a.state /\ b.wait_state = a.wait_state
  <1>1. a \in SchedRecords /\ RunQueueOK(a)
    BY DEF KOK
  <1>2. /\ b \in SchedRecords /\ RunQueueOK(b) /\ b.current = a.current
        /\ b.state = a.state /\ b.wait_state = a.wait_state
    BY <1>1, AssertKeeps
  <1> QED
    BY <1>2 DEF KOK

---------------------------------------------------------------------------
(* The steps of a philosopher, without what they mean for the meal.        *)

(* The thread on the CPU is awake and not reaped. *)
LEMMA Running ==
    ASSUME Core, NEW i \in Phil, k.current = i
    PROVE  /\ k.state[i] = "PROC_RUNNABLE" /\ k.wait_state[i] = "0" /\ ~(i < waitfor)
           /\ \A j \in Phil : pc[j] \in OnCpu => j = i
           /\ \A j \in Phil : k.wait_state[j] = "WT_KSEM" => j # i /\ k.state[j] = "PROC_SLEEPING"
  BY PhilFacts DEF Core, KOK, ReapOK, CpuOK

(* The effect of down(): it takes a permit, or sleeps in the queue. *)
Lowered(i, id) ==
    /\ \A x \in Sems : sem'[x].value = IF x = id /\ sem[id].value > 0
                                       THEN sem[x].value - 1 ELSE sem[x].value
    /\ \A j \in Phil : k'.wait_state[j] = "WT_KSEM"
          <=> k.wait_state[j] = "WT_KSEM" \/ (j = i /\ ~(sem[id].value > 0))

LEMMA DownStep ==
    ASSUME Core, NEW i \in Phil, NEW id \in Sems, NEW c \in PCs \ OnCpu,
           k.current = i, Down(i, id), pc' = [pc EXCEPT ![i] = c], phase' = phase, waitfor' = waitfor,
           Place(phase, c, i) = id
    PROVE  Core' /\ Lowered(i, id)
  <1>1. /\ k.state[i] = "PROC_RUNNABLE" /\ k.wait_state[i] = "0" /\ ~(i < waitfor) /\ i \in Procs
        /\ \A j \in Phil : pc[j] \in OnCpu => j = i
    BY Running, PhilFacts
  <1>2. /\ KOK(k) /\ QOK(k, sem, phase, pc) /\ sem \in [Sems -> SemRecords]
        /\ pc \in [Phil -> PCs] /\ waitfor \in Phil
    BY DEF Core, QOK
  <1>3. PICK u \in SemRecords : u = sem[id]
    BY <1>2
  <1>4. PICK v : v = down_sem(u, i)
    OBVIOUS
  <1>5. /\ v \in SemRecords
        /\ u.value > 0 => v.value = u.value - 1 /\ v.wait_queue = u.wait_queue
        /\ ~(u.value > 0) => v.value = u.value /\ v.wait_queue = Append(u.wait_queue, i)
    BY <1>1, <1>4, DownSemFacts
  <1>6. sem' = [sem EXCEPT ![id] = v]
    BY <1>3, <1>4 DEF Down
  <1>7. sem' \in [Sems -> SemRecords] /\ sem'[id] = v /\ \A x \in Sems \ {id} : sem'[x] = sem[x]
    BY <1>2, <1>5, <1>6
  <1>8. pc' \in [Phil -> PCs] /\ pc'[i] = c /\ \A j \in Phil \ {i} : pc'[j] = pc[j]
    BY <1>2
  <1>9. u.value \in Nat /\ u.wait_queue \in Seq(Procs)
    BY DEF SemRecords
  <1>10. /\ \A x \in Sems : \A p \in Procs :
               InQueue(sem[x], p) <=> /\ p \in Phil /\ k.wait_state[p] = "WT_KSEM"
                                      /\ Place(phase, pc[p], p) = x
         /\ \A x \in Sems : \A a, b \in 1 .. Len(sem[x].wait_queue) :
               sem[x].wait_queue[a] = sem[x].wait_queue[b] => a = b
         /\ \A p \in Phil : k.wait_state[p] = "WT_KSEM" => Place(phase, pc[p], p) \in Sems
    BY <1>2 DEF QOK
  <1>11. \A p \in Procs \ {i} : p \in Phil => Place(phase', pc'[p], p) = Place(phase, pc[p], p)
    BY <1>8
  <1>12. CASE u.value > 0
    <2>1. k' = k
      BY <1>12, <1>3 DEF Down, Blocks
    <2>2. \A x \in Sems : sem'[x].wait_queue = sem[x].wait_queue
      BY <1>12, <1>3, <1>5, <1>7
    <2>3. \A x \in Sems : \A p \in Procs : InQueue(sem'[x], p) <=> InQueue(sem[x], p)
      BY <2>2 DEF InQueue
    <2>4. \A x \in Sems : \A a, b \in 1 .. Len(sem'[x].wait_queue) :
             sem'[x].wait_queue[a] = sem'[x].wait_queue[b] => a = b
      BY <2>2, <1>10
    <2>5. \A x \in Sems : \A p \in Procs :
             InQueue(sem'[x], p) <=> /\ p \in Phil /\ k'.wait_state[p] = "WT_KSEM"
                                     /\ Place(phase', pc'[p], p) = x
      <3> SUFFICES ASSUME NEW x \in Sems, NEW p \in Procs
                   PROVE  InQueue(sem'[x], p) <=> /\ p \in Phil /\ k'.wait_state[p] = "WT_KSEM"
                                                  /\ Place(phase', pc'[p], p) = x
        OBVIOUS
      <3>1. CASE p = i
        BY <3>1, <2>1, <2>3, <1>1, <1>10
      <3>2. CASE p # i
        BY <3>2, <2>1, <2>3, <1>10, <1>11
      <3> QED
        BY <3>1, <3>2
    <2>6. \A p \in Phil : k'.wait_state[p] = "WT_KSEM" => Place(phase', pc'[p], p) \in Sems
      BY <2>1, <1>1, <1>10, <1>11, PhilFacts
    <2>7. QOK(k', sem', phase', pc')
      BY <2>4, <2>5, <2>6, <1>7 DEF QOK
    <2>8. ReapOK' /\ CpuOK'
      <3>1. ReapOK'
        BY <2>1, <1>1, <1>8 DEF Core, ReapOK
      <3>2. CpuOK'
        BY <2>1, <1>1, <1>8 DEF CpuOK
      <3> QED
        BY <3>1, <3>2
    <2>9. Core'
      BY <2>1, <2>7, <2>8, <1>2, <1>8 DEF Core
    <2>10. \A x \in Sems : sem'[x].value = IF x = id /\ sem[id].value > 0
                                           THEN sem[x].value - 1 ELSE sem[x].value
      BY <1>3, <1>5, <1>7, <1>12
    <2> QED
      BY <2>1, <2>9, <2>10, <1>1, <1>3, <1>12 DEF Lowered
  <1>13. CASE ~(u.value > 0)
    <2>1. k' = schedule(SleepCurrent(k, "WT_KSEM"))
      BY <1>13, <1>3 DEF Down, Blocks, down_sleep
    <2>2. "WT_KSEM" \in WaitStates \ {"0"} /\ k.current # idleproc
      BY PhilFacts DEF WaitStates
    <2>3. /\ KOK(k')
          /\ \A p \in Procs :
                /\ k'.wait_state[p] = IF p = i THEN "WT_KSEM" ELSE k.wait_state[p]
                /\ k'.state[p] = IF p = i THEN "PROC_SLEEPING" ELSE k.state[p]
      BY <2>1, <2>2, <1>2, SleepKOK
    <2>4. /\ \A p \in Procs : InQueue(v, p) <=> (p = i \/ InQueue(u, p))
          /\ \A a, b \in 1 .. Len(v.wait_queue) : v.wait_queue[a] = v.wait_queue[b] => a = b
      <3>1. ~InQueue(u, i)
        BY <1>1, <1>3, <1>10
      <3>2. /\ \A a \in 1 .. Len(u.wait_queue) : u.wait_queue[a] # i
            /\ \A a, b \in 1 .. Len(u.wait_queue) : u.wait_queue[a] = u.wait_queue[b] => a = b
        BY <3>1, <1>3, <1>10 DEF InQueue
      <3>3. PICK q \in Seq(Procs) : q = u.wait_queue
        BY <1>9
      <3>4. PICK r : r = Append(q, i)
        OBVIOUS
      <3>5. /\ \A x \in Procs : (\E a \in 1 .. Len(r) : r[a] = x)
                                 <=> (x = i \/ \E a \in 1 .. Len(q) : q[a] = x)
            /\ \A a, b \in 1 .. Len(r) : r[a] = r[b] => a = b
        BY <3>2, <3>3, <3>4, <1>1, AppendQueue
      <3>6. v.wait_queue = r
        BY <3>3, <3>4, <1>5, <1>13
      <3> QED
        BY <3>3, <3>5, <3>6 DEF InQueue
    <2>5. \A x \in Sems : \A a, b \in 1 .. Len(sem'[x].wait_queue) :
             sem'[x].wait_queue[a] = sem'[x].wait_queue[b] => a = b
      BY <2>4, <1>7, <1>10
    <2>6. \A x \in Sems : \A p \in Procs :
             InQueue(sem'[x], p) <=> /\ p \in Phil /\ k'.wait_state[p] = "WT_KSEM"
                                     /\ Place(phase', pc'[p], p) = x
      <3> SUFFICES ASSUME NEW x \in Sems, NEW p \in Procs
                   PROVE  InQueue(sem'[x], p) <=> /\ p \in Phil /\ k'.wait_state[p] = "WT_KSEM"
                                                  /\ Place(phase', pc'[p], p) = x
        OBVIOUS
      <3>1. CASE p = i
        <4>1. Place(phase', pc'[p], p) = id
          BY <3>1, <1>8
        <4>2. CASE x = id
          BY <4>1, <4>2, <3>1, <2>3, <2>4, <1>7
        <4>3. CASE x # id
          BY <4>1, <4>3, <3>1, <1>1, <1>7, <1>10
        <4> QED
          BY <4>2, <4>3
      <3>2. CASE p # i
        <4>1. InQueue(sem'[x], p) <=> InQueue(sem[x], p)
          BY <3>2, <2>4, <1>3, <1>7
        <4> QED
          BY <4>1, <3>2, <2>3, <1>10, <1>11
      <3> QED
        BY <3>1, <3>2
    <2>7. \A p \in Phil : k'.wait_state[p] = "WT_KSEM" => Place(phase', pc'[p], p) \in Sems
      <3> SUFFICES ASSUME NEW p \in Phil, k'.wait_state[p] = "WT_KSEM"
                   PROVE  Place(phase', pc'[p], p) \in Sems
        OBVIOUS
      <3>1. CASE p = i
        BY <3>1, <1>8
      <3>2. CASE p # i
        BY <3>2, <2>3, <1>10, <1>11, PhilFacts
      <3> QED
        BY <3>1, <3>2
    <2>8. QOK(k', sem', phase', pc')
      BY <2>5, <2>6, <2>7, <1>7 DEF QOK
    <2>9. ReapOK'
      BY <2>3, <1>1, <1>8, PhilFacts DEF Core, ReapOK
    <2>10. CpuOK'
      BY <1>1, <1>8 DEF CpuOK
    <2>11. Core'
      BY <2>3, <2>8, <2>9, <2>10, <1>2, <1>8 DEF Core
    <2>12. \A x \in Sems : sem'[x].value = sem[x].value
      BY <1>3, <1>5, <1>7, <1>13
    <2> QED
      BY <2>3, <2>11, <2>12, <1>3, <1>13, PhilFacts DEF Lowered
  <1> QED
    BY <1>12, <1>13

(* A step that touches neither the scheduler nor a semaphore. *)
LEMMA StayStep ==
    ASSUME Core, NEW i \in Phil, NEW c \in PCs, k.current = i,
           pc' = [pc EXCEPT ![i] = c], k' = k, sem' = sem, phase' = phase, waitfor' = waitfor
    PROVE  Core'
  <1>1. /\ k.state[i] = "PROC_RUNNABLE" /\ k.wait_state[i] = "0" /\ ~(i < waitfor) /\ i \in Procs
        /\ \A j \in Phil : pc[j] \in OnCpu => j = i
    BY Running, PhilFacts
  <1>2. /\ KOK(k) /\ QOK(k, sem, phase, pc) /\ sem \in [Sems -> SemRecords]
        /\ pc \in [Phil -> PCs] /\ waitfor \in Phil
    BY DEF Core, QOK
  <1>3. pc' \in [Phil -> PCs] /\ pc'[i] = c /\ \A j \in Phil \ {i} : pc'[j] = pc[j]
    BY <1>2
  <1>4. \A p \in Procs \ {i} : p \in Phil => Place(phase', pc'[p], p) = Place(phase, pc[p], p)
    BY <1>3
  <1>5. \A x \in Sems : \A p \in Procs :
           InQueue(sem'[x], p) <=> /\ p \in Phil /\ k'.wait_state[p] = "WT_KSEM"
                                   /\ Place(phase', pc'[p], p) = x
    <2> SUFFICES ASSUME NEW x \in Sems, NEW p \in Procs
                 PROVE  InQueue(sem[x], p) <=> /\ p \in Phil /\ k.wait_state[p] = "WT_KSEM"
                                               /\ Place(phase', pc'[p], p) = x
      OBVIOUS
    <2>1. InQueue(sem[x], p) <=> /\ p \in Phil /\ k.wait_state[p] = "WT_KSEM"
                                 /\ Place(phase, pc[p], p) = x
      BY <1>2 DEF QOK
    <2>2. CASE p = i
      BY <2>1, <2>2, <1>1
    <2>3. CASE p # i
      BY <2>1, <2>3, <1>4
    <2> QED
      BY <2>2, <2>3
  <1>6. \A p \in Phil : k'.wait_state[p] = "WT_KSEM" => Place(phase', pc'[p], p) \in Sems
    BY <1>1, <1>2, <1>4, PhilFacts DEF QOK
  <1>7. QOK(k', sem', phase', pc')
    BY <1>2, <1>5, <1>6 DEF QOK
  <1>8. ReapOK'
    BY <1>1, <1>3 DEF Core, ReapOK
  <1>9. CpuOK'
    BY <1>1, <1>3 DEF CpuOK
  <1> QED
    BY <1>2, <1>3, <1>7, <1>8, <1>9 DEF Core

(* The effect of up(): it counts a permit when nobody sleeps at the
   semaphore, or wakes one of the sleepers. *)
Raised(i, id) ==
    \/ /\ \A j \in Phil : ~(k.wait_state[j] = "WT_KSEM" /\ Place(phase, pc[j], j) = id)
       /\ k' = k
       /\ \A x \in Sems : sem'[x].value = IF x = id THEN sem[x].value + 1 ELSE sem[x].value
    \/ \E h \in Phil \ {i} :
          /\ k.wait_state[h] = "WT_KSEM" /\ Place(phase, pc[h], h) = id
          /\ \A j \in Phil : k'.wait_state[j] = "WT_KSEM" <=> k.wait_state[j] = "WT_KSEM" /\ j # h
          /\ \A x \in Sems : sem'[x].value = sem[x].value

LEMMA UpStep ==
    ASSUME Core, NEW i \in Phil, NEW id \in Sems, NEW c \in PCs, k.current = i,
           Up(id), pc' = [pc EXCEPT ![i] = c], phase' = phase, waitfor' = waitfor
    PROVE  Core' /\ Raised(i, id)
  <1>1. /\ k.state[i] = "PROC_RUNNABLE" /\ k.wait_state[i] = "0" /\ ~(i < waitfor) /\ i \in Procs
        /\ \A j \in Phil : pc[j] \in OnCpu => j = i
        /\ \A j \in Phil : k.wait_state[j] = "WT_KSEM" => j # i /\ k.state[j] = "PROC_SLEEPING"
    BY Running, PhilFacts
  <1>2. /\ KOK(k) /\ QOK(k, sem, phase, pc) /\ sem \in [Sems -> SemRecords]
        /\ pc \in [Phil -> PCs] /\ waitfor \in Phil
    BY DEF Core, QOK
  <1>3. PICK u \in SemRecords : u = sem[id]
    BY <1>2
  <1>4. PICK v : v = up_sem(u)
    OBVIOUS
  <1>5. /\ v \in SemRecords
        /\ u.wait_queue = << >> => v.value = u.value + 1 /\ v.wait_queue = << >>
        /\ u.wait_queue # << >> => v.value = u.value /\ v.wait_queue = Tail(u.wait_queue)
    BY <1>4, UpSemFacts
  <1>6. sem' = [sem EXCEPT ![id] = v]
    BY <1>3, <1>4 DEF Up
  <1>7. sem' \in [Sems -> SemRecords] /\ sem'[id] = v /\ \A x \in Sems \ {id} : sem'[x] = sem[x]
    BY <1>2, <1>5, <1>6
  <1>8. pc' \in [Phil -> PCs] /\ pc'[i] = c /\ \A j \in Phil \ {i} : pc'[j] = pc[j]
    BY <1>2
  <1>9. PICK q \in Seq(Procs) : q = u.wait_queue
    BY DEF SemRecords
  <1>10. /\ \A x \in Sems : \A p \in Procs :
               InQueue(sem[x], p) <=> /\ p \in Phil /\ k.wait_state[p] = "WT_KSEM"
                                      /\ Place(phase, pc[p], p) = x
         /\ \A x \in Sems : \A a, b \in 1 .. Len(sem[x].wait_queue) :
               sem[x].wait_queue[a] = sem[x].wait_queue[b] => a = b
         /\ \A p \in Phil : k.wait_state[p] = "WT_KSEM" => Place(phase, pc[p], p) \in Sems
    BY <1>2 DEF QOK
  <1>11. \A p \in Procs \ {i} : p \in Phil => Place(phase', pc'[p], p) = Place(phase, pc[p], p)
    BY <1>8
  <1>12. CASE q = << >>
    <2>1. k' = k
      BY <1>12, <1>3, <1>9 DEF Up, up_wake
    <2>2. \A x \in Sems : sem'[x].wait_queue = sem[x].wait_queue
      BY <1>12, <1>3, <1>5, <1>7, <1>9
    <2>3. \A x \in Sems : \A p \in Procs : InQueue(sem'[x], p) <=> InQueue(sem[x], p)
      BY <2>2 DEF InQueue
    <2>4. \A x \in Sems : \A a, b \in 1 .. Len(sem'[x].wait_queue) :
             sem'[x].wait_queue[a] = sem'[x].wait_queue[b] => a = b
      BY <2>2, <1>10
    <2>5. \A x \in Sems : \A p \in Procs :
             InQueue(sem'[x], p) <=> /\ p \in Phil /\ k'.wait_state[p] = "WT_KSEM"
                                     /\ Place(phase', pc'[p], p) = x
      <3> SUFFICES ASSUME NEW x \in Sems, NEW p \in Procs
                   PROVE  InQueue(sem'[x], p) <=> /\ p \in Phil /\ k'.wait_state[p] = "WT_KSEM"
                                                  /\ Place(phase', pc'[p], p) = x
        OBVIOUS
      <3>1. CASE p = i
        BY <3>1, <2>1, <2>3, <1>1, <1>10
      <3>2. CASE p # i
        BY <3>2, <2>1, <2>3, <1>10, <1>11
      <3> QED
        BY <3>1, <3>2
    <2>6. \A p \in Phil : k'.wait_state[p] = "WT_KSEM" => Place(phase', pc'[p], p) \in Sems
      BY <2>1, <1>1, <1>10, <1>11, PhilFacts
    <2>7. QOK(k', sem', phase', pc')
      BY <2>4, <2>5, <2>6, <1>7 DEF QOK
    <2>8. ReapOK'
      BY <2>1, <1>1, <1>8 DEF Core, ReapOK
    <2>9. CpuOK'
      BY <2>1, <1>1, <1>8 DEF CpuOK
    <2>10. Core'
      BY <2>1, <2>7, <2>8, <2>9, <1>2, <1>8 DEF Core
    <2>11. \A x \in Sems : sem'[x].value = IF x = id THEN sem[x].value + 1 ELSE sem[x].value
      BY <1>3, <1>5, <1>7, <1>9, <1>12
    <2>12. \A p \in Procs : ~InQueue(sem[id], p)
      <3>1. Len(sem[id].wait_queue) = 0
        BY <1>3, <1>9, <1>12
      <3> QED
        BY <3>1 DEF InQueue
    <2>13. \A j \in Phil : ~(k.wait_state[j] = "WT_KSEM" /\ Place(phase, pc[j], j) = id)
      BY <2>12, <1>10, PhilFacts
    <2> QED
      BY <2>1, <2>10, <2>11, <2>13 DEF Raised
  <1>13. CASE q # << >>
    <2>1. \A a, b \in 1 .. Len(q) : q[a] = q[b] => a = b
      BY <1>3, <1>9, <1>10
    <2>2. PICK h \in Procs : h = Head(q)
      BY <1>9, <1>13
    <2>3. PICK t : t = Tail(q)
      OBVIOUS
    <2>4. /\ t \in Seq(Procs)
          /\ \A x \in Procs : (\E a \in 1 .. Len(t) : t[a] = x)
                                <=> (x # h /\ \E a \in 1 .. Len(q) : q[a] = x)
          /\ \A a, b \in 1 .. Len(t) : t[a] = t[b] => a = b
      <3>1. /\ Tail(q) \in Seq(Procs)
            /\ \A x \in Procs : (\E a \in 1 .. Len(Tail(q)) : Tail(q)[a] = x)
                                 <=> (x # Head(q) /\ \E a \in 1 .. Len(q) : q[a] = x)
            /\ \A a, b \in 1 .. Len(Tail(q)) : Tail(q)[a] = Tail(q)[b] => a = b
        BY <2>1, <1>13, TailQueue
      <3> QED
        BY <3>1, <2>2, <2>3
    <2>5. InQueue(u, h)
      <3>1. 1 \in 1 .. Len(q) /\ h = q[1]
        BY <2>2, <1>9, <1>13
      <3> QED
        BY <3>1, <1>9 DEF InQueue
    <2>6. h \in Phil /\ k.wait_state[h] = "WT_KSEM" /\ Place(phase, pc[h], h) = id
      BY <2>5, <1>3, <1>10
    <2>7. h # i /\ k.state[h] = "PROC_SLEEPING"
      BY <2>6, <1>1
    <2>8. v.wait_queue = t
      BY <2>3, <1>5, <1>9, <1>13
    <2>9. /\ \A p \in Procs : InQueue(v, p) <=> (p # h /\ InQueue(u, p))
          /\ \A a, b \in 1 .. Len(v.wait_queue) : v.wait_queue[a] = v.wait_queue[b] => a = b
      BY <2>4, <2>8, <1>9 DEF InQueue
    <2>10. PICK z : z = Assert_(k, k.wait_state[h] = "WT_KSEM")
      OBVIOUS
    <2>11. KOK(z) /\ z.current = k.current /\ z.state = k.state /\ z.wait_state = k.wait_state
      BY <2>10, <1>2, AssertKOK
    <2>12. k' = wakeup_proc(z, h)
      BY <2>2, <2>10, <1>3, <1>9, <1>13 DEF Up, up_wake
    <2>13. z.state[h] = "PROC_SLEEPING"
      BY <2>7, <2>11
    <2>14. /\ KOK(k') /\ k'.current = z.current
           /\ \A p \in Procs :
                 /\ k'.wait_state[p] = IF p = h THEN "0" ELSE z.wait_state[p]
                 /\ k'.state[p] = IF p = h THEN "PROC_RUNNABLE" ELSE z.state[p]
      BY <2>11, <2>12, <2>13, WakeKOK
    <2>15. /\ k'.current = i
           /\ \A p \in Procs :
                 /\ k'.wait_state[p] = IF p = h THEN "0" ELSE k.wait_state[p]
                 /\ k'.state[p] = IF p = h THEN "PROC_RUNNABLE" ELSE k.state[p]
      BY <2>11, <2>14
    <2>16. \A x \in Sems : \A a, b \in 1 .. Len(sem'[x].wait_queue) :
              sem'[x].wait_queue[a] = sem'[x].wait_queue[b] => a = b
      BY <2>9, <1>7, <1>10
    <2>17. \A x \in Sems : \A p \in Procs :
             InQueue(sem'[x], p) <=> /\ p \in Phil /\ k'.wait_state[p] = "WT_KSEM"
                                     /\ Place(phase', pc'[p], p) = x
      <3> SUFFICES ASSUME NEW x \in Sems, NEW p \in Procs
                   PROVE  InQueue(sem'[x], p) <=> /\ p \in Phil /\ k'.wait_state[p] = "WT_KSEM"
                                                  /\ Place(phase', pc'[p], p) = x
        OBVIOUS
      <3>1. InQueue(sem[x], p) <=> /\ p \in Phil /\ k.wait_state[p] = "WT_KSEM"
                                   /\ Place(phase, pc[p], p) = x
        BY <1>10
      <3>2. InQueue(sem'[x], p) <=> InQueue(sem[x], p) /\ ~(p = h /\ x = id)
        BY <2>9, <1>3, <1>7
      <3>3. CASE p = i
        BY <3>1, <3>2, <3>3, <2>7, <2>15, <1>1
      <3>4. CASE p = h
        BY <3>1, <3>2, <3>4, <2>6, <2>15
      <3>5. CASE p # i /\ p # h
        BY <3>1, <3>2, <3>5, <2>15, <1>11
      <3> QED
        BY <3>3, <3>4, <3>5
    <2>18. \A p \in Phil : k'.wait_state[p] = "WT_KSEM" => Place(phase', pc'[p], p) \in Sems
      <3> SUFFICES ASSUME NEW p \in Phil, k'.wait_state[p] = "WT_KSEM"
                   PROVE  Place(phase', pc'[p], p) \in Sems
        OBVIOUS
      <3>1. p # h /\ k.wait_state[p] = "WT_KSEM"
        BY <2>15, PhilFacts
      <3>2. p # i
        BY <3>1, <1>1
      <3> QED
        BY <3>1, <3>2, <1>10, <1>11, PhilFacts
    <2>19. QOK(k', sem', phase', pc')
      BY <2>16, <2>17, <2>18, <1>7 DEF QOK
    <2>20. ReapOK'
      BY <2>7, <2>15, <1>1, <1>8, PhilFacts DEF Core, ReapOK
    <2>21. CpuOK'
      BY <2>15, <1>1, <1>8 DEF CpuOK
    <2>22. Core'
      BY <2>14, <2>19, <2>20, <2>21, <1>2, <1>8 DEF Core
    <2>23. \A x \in Sems : sem'[x].value = sem[x].value
      BY <1>3, <1>5, <1>7, <1>9, <1>13
    <2>24. \A j \in Phil : k'.wait_state[j] = "WT_KSEM" <=> k.wait_state[j] = "WT_KSEM" /\ j # h
      BY <2>15, PhilFacts
    <2>25. h \in Phil \ {i}
      BY <2>6, <2>7
    <2> QED
      BY <2>6, <2>22, <2>23, <2>24, <2>25 DEF Raised
  <1> QED
    BY <1>12, <1>13

---------------------------------------------------------------------------
(* The meal: one lemma for every kind of step.                             *)

(* The place of a sleeper tells where it sleeps. *)
LEMMA Sleepers ==
    ASSUME Inv, NEW j \in Phil, k.wait_state[j] = "WT_KSEM"
    PROVE  /\ pc[j] \in {"take_in", "put_in", "eat", "signalled", "waited"}
           /\ Place(phase, pc[j], j) = Entry <=> pc[j] \in {"take_in", "put_in"}
           /\ phase # "sema" => /\ pc[j] # "eat"
                                /\ Place(phase, pc[j], j) = NextSem <=> pc[j] = "signalled"
                                /\ \A l \in Phil : Place(phase, pc[j], j) = CvSem(l)
                                      <=> pc[j] = "waited" /\ j = l
           /\ phase = "sema" => /\ pc[j] \notin {"signalled", "waited"}
                                /\ \A l \in Phil : Place(phase, pc[j], j) = s(l)
                                      <=> pc[j] = "eat" /\ j = l
  <1>1. Place(phase, pc[j], j) \in Sems
    BY DEF Inv, Core, QOK
  <1>2. CASE phase = "sema"
    BY <1>1, <1>2, Names DEF Inv, PhaseOK, Place, Entry
  <1>3. CASE phase # "sema"
    BY <1>1, <1>3, Names DEF Inv, PhaseOK, Place, Entry
  <1> QED
    BY <1>2, <1>3

(* down() of the mutex, at the beginning of take_forks and of put_forks. *)
LEMMA EnterInv ==
    ASSUME Inv, NEW i \in Phil, k.current = i, NEW c,
           (pc[i] = "take" /\ c = "take_in") \/ (pc[i] = "put" /\ c = "put_in"),
           Down(i, Entry), pc' = [pc EXCEPT ![i] = c],
           UNCHANGED <<m, state, phase, waitfor, iter, behind>>
    PROVE  Inv'
  <1>1. c \in PCs \ OnCpu /\ Entry \in Sems /\ Place(phase, c, i) = Entry
    BY Names DEF PCs, OnCpu, Entry, Place
  <1>2. /\ Core'
        /\ \A x \in Sems : sem'[x].value = IF x = Entry /\ sem[Entry].value > 0
                                           THEN sem[x].value - 1 ELSE sem[x].value
        /\ \A j \in Phil : k'.wait_state[j] = "WT_KSEM"
              <=> k.wait_state[j] = "WT_KSEM" \/ (j = i /\ ~(sem[Entry].value > 0))
    <2>1. PICK e \in Sems : e = Entry
      BY <1>1
    <2>2. Core /\ Down(i, e) /\ Place(phase, c, i) = e /\ phase' = phase /\ waitfor' = waitfor
      BY <2>1, <1>1 DEF Inv
    <2>3. Core' /\ Lowered(i, e)
      BY <2>1, <2>2, <1>1, DownStep
    <2> QED
      BY <2>1, <2>3 DEF Lowered
  <1>3. pc \in [Phil -> PCs] /\ pc'[i] = c /\ \A j \in Phil \ {i} : pc'[j] = pc[j]
    BY DEF Inv, DataType
  <1>4. DataType'
    BY <1>2 DEF Inv, DataType, Core
  <1>5. PhaseOK' /\ IterOK'
    BY <1>3 DEF Inv, PhaseOK, IterOK
  <1>6. StateOK'
    BY <1>2, <1>3 DEF Inv, StateOK, Asleep
  <1>7. GrantOK'
    BY <1>2, <1>3, Names DEF Inv, GrantOK, Entry
  <1>8. MutexOK'
    <2>1. \A j \in Phil \ {i} : Inside(j)' <=> Inside(j)
      BY <1>2, <1>3 DEF Inside, Asleep
    <2>2. ~Inside(i) /\ (Inside(i)' <=> sem[Entry].value > 0)
      BY <1>2, <1>3, Running DEF Inv, Inside, Asleep
    <2>3. Entry' = Entry /\ MutexOK
      BY DEF Inv, Entry
    <2>4. CASE sem[Entry].value = 1
      <3>1. sem'[Entry'].value = 0
        BY <2>3, <2>4, <1>1, <1>2
      <3> QED
        BY <3>1, <2>1, <2>2, <2>3, <2>4 DEF MutexOK
    <2>5. CASE sem[Entry].value = 0
      <3>1. sem'[Entry'].value = 0
        BY <2>3, <2>5, <1>1, <1>2
      <3>2. \A j \in Phil : Inside(j)' <=> Inside(j)
        BY <2>1, <2>2, <2>5
      <3> QED
        BY <3>1, <3>2, <2>3, <2>5 DEF MutexOK
    <2> QED
      BY <2>3, <2>4, <2>5 DEF MutexOK
  <1>9. NeighbourOK'
    BY DEF Inv, NeighbourOK
  <1>10. HungryOK'
    <2>1. \A j \in Phil : LooksRight(j)' <=> LooksRight(j)
      BY <1>3 DEF LooksRight
    <2> QED
      BY <2>1, Neighbours DEF Inv, HungryOK
  <1>11. MonitorOK'
    <2>1. Signallers' = Signallers
      BY <1>3 DEF Signallers
    <2> QED
      BY <2>1, <1>1, <1>2, <1>3, Names DEF Inv, MonitorOK, MutexOK, Entry
  <1> QED
    BY <1>2, <1>4, <1>5, <1>6, <1>7, <1>8, <1>9, <1>10, <1>11 DEF Inv

LEMMA SignallersFinite == IsFiniteSet(Signallers) /\ Cardinality(Signallers) \in 0 .. N
  <1>1. IsFiniteSet(Phil) /\ Cardinality(Phil) = N
    BY PhilAssumption, FS_Interval DEF Phil
  <1>2. PICK S : S = Signallers
    OBVIOUS
  <1>3. S \subseteq Phil
    BY <1>2 DEF Signallers
  <1>4. IsFiniteSet(S) /\ Cardinality(S) <= N /\ Cardinality(S) \in Nat
    BY <1>1, <1>3, FS_Subset, FS_CardinalityType
  <1> QED
    BY <1>2, <1>4, PhilAssumption

(* A signaller exists exactly when the monitor has counted one. *)
LEMMA SomeSignaller ==
    ASSUME Inv, phase # "sema"
    PROVE  m.next_count > 0 <=> Signallers # {}
  <1>1. PICK S : S = Signallers
    OBVIOUS
  <1>2. IsFiniteSet(S) /\ m.next_count = Cardinality(S) /\ Cardinality(S) \in Nat
    BY <1>1, SignallersFinite, PhilAssumption DEF Inv, MonitorOK
  <1>3. Cardinality(S) = 0 <=> S = {}
    BY <1>2, FS_EmptySet
  <1> QED
    BY <1>1, <1>2, <1>3

(* Whoever leaves the critical section or the monitor passes it to one
   sleeper, or opens it when nobody waits for it. *)
LEMMA LeaveFacts ==
    ASSUME Inv, NEW i \in Phil, k.current = i,
           pc[i] \in {"take_tested", "take_out", "put_out"},
           NEW c \in {"take_wait", "think", "quit", "wait", "eat"}, NEW e \in Sems,
           e = IF phase = "sema" THEN mutex ELSE LeaveSem(m),
           Up(e), pc' = [pc EXCEPT ![i] = c], phase' = phase, waitfor' = waitfor
    PROVE  /\ Core' /\ MutexOK'
           /\ pc'[i] = c /\ \A j \in Phil \ {i} : pc'[j] = pc[j]
           /\ k'.wait_state[i] # "WT_KSEM"
           /\ \A j \in Phil : (k'.wait_state[j] = "WT_KSEM" <=> k.wait_state[j] = "WT_KSEM")
                                \/ pc[j] \in {"take_in", "put_in", "signalled"}
           /\ \A x \in Sems \ {Entry} : sem'[x].value = sem[x].value
           /\ phase # "sema" /\ sem'[Mutex].value = 1 => Signallers = {}
  <1>1. c \in PCs /\ Core /\ MutexOK
    BY DEF PCs, Inv
  <1>2. Core' /\ Raised(i, e)
    BY <1>1, UpStep
  <1>3. pc'[i] = c /\ \A j \in Phil \ {i} : pc'[j] = pc[j]
    BY <1>1 DEF Core
  <1>4. /\ sem[Entry].value = 0 /\ Entry \in Sems
        /\ \A j \in Phil : Inside(j) => j = i
        /\ \A j \in Phil : k.wait_state[j] = "WT_KSEM" => j # i
        /\ \A j \in Phil : pc[j] \in OnCpu => j = i
    <2>1. Inside(i)
      BY DEF Inside
    <2> QED
      BY <2>1, <1>1, Running, Names DEF MutexOK, Entry
  <1>5. Entry' = Entry /\ ~Inside(i)'
    BY <1>3 DEF Entry, Inside
  \* A signaller other than the leaving thread sleeps.
  <1>6. \A j \in Signallers : phase # "sema" =>
           /\ k.wait_state[j] = "WT_KSEM" /\ Place(phase, pc[j], j) = NextSem
    <2> SUFFICES ASSUME NEW j \in Signallers, phase # "sema"
                 PROVE  k.wait_state[j] = "WT_KSEM" /\ Place(phase, pc[j], j) = NextSem
      OBVIOUS
    <2>1. j \in Phil /\ j # i /\ pc[j] \in {"signal", "signalled"}
      BY DEF Signallers, Inside
    <2>2. pc[j] = "signalled"
      BY <2>1, <1>4 DEF OnCpu
    <2>3. k.wait_state[j] = "WT_KSEM"
      BY <2>1, <2>2, <1>4 DEF Inside, Asleep
    <2> QED
      BY <2>2, <2>3 DEF Place
  <1>7. e = Entry \/ (phase # "sema" /\ e = NextSem /\ Signallers # {})
    BY SomeSignaller DEF Entry, LeaveSem
  <1>8. e = Entry /\ phase # "sema" => Signallers = {}
    BY SomeSignaller, Names DEF Entry, LeaveSem, Inv, DataType
  <1>9. CASE \A j \in Phil : ~(k.wait_state[j] = "WT_KSEM" /\ Place(phase, pc[j], j) = e)
    <2>1. e = Entry
      BY <1>6, <1>7, <1>9 DEF Signallers
    <2>2. k' = k /\ \A x \in Sems : sem'[x].value = IF x = e THEN sem[x].value + 1 ELSE sem[x].value
      BY <1>2, <1>9 DEF Raised
    <2>3. \A j \in Phil : ~Inside(j)'
      BY <2>2, <1>3, <1>4, <1>5 DEF Inside, Asleep
    <2>4. sem'[Entry'].value = 1
      BY <2>1, <2>2, <1>4, <1>5
    <2>5. MutexOK'
      BY <2>3, <2>4 DEF MutexOK
    <2> QED
      BY <2>1, <2>2, <2>5, <1>2, <1>3, <1>4, <1>8
  <1>10. CASE ~\A j \in Phil : ~(k.wait_state[j] = "WT_KSEM" /\ Place(phase, pc[j], j) = e)
    <2>1. PICK h \in Phil \ {i} :
                 /\ k.wait_state[h] = "WT_KSEM" /\ Place(phase, pc[h], h) = e
                 /\ \A j \in Phil : k'.wait_state[j] = "WT_KSEM"
                                       <=> k.wait_state[j] = "WT_KSEM" /\ j # h
                 /\ \A x \in Sems : sem'[x].value = sem[x].value
      BY <1>2, <1>10 DEF Raised
    <2>2. pc[h] \in {"take_in", "put_in", "signalled"}
      BY <2>1, <1>7, Sleepers
    <2>3. Inside(h)' /\ \A j \in Phil \ {h} : ~Inside(j)'
      BY <2>1, <2>2, <1>3, <1>4, <1>5 DEF Inside, Asleep
    <2>4. sem'[Entry'].value = 0
      BY <2>1, <1>4, <1>5
    <2>5. MutexOK'
      BY <2>1, <2>3, <2>4 DEF MutexOK
    <2>6. phase # "sema" => sem'[Mutex].value = 0
      BY <2>4, <1>5 DEF Entry
    <2>7. k'.wait_state[i] # "WT_KSEM"
      BY <2>1, <1>4
    <2> QED
      BY <2>1, <2>2, <2>5, <2>6, <2>7, <1>2, <1>3
  <1> QED
    BY <1>9, <1>10

(* The ends of take_forks and of put_forks, and the first half of
   cond_wait. *)
LEMMA LeaveInv ==
    ASSUME Inv, NEW i \in Phil, k.current = i, NEW c, NEW e \in Sems,
           e = IF phase = "sema" THEN mutex ELSE LeaveSem(m),
           Up(e), pc' = [pc EXCEPT ![i] = c], phase' = phase, waitfor' = waitfor,
           state' = state, behind' = behind,
           \/ /\ phase = "sema" /\ pc[i] = "take_out" /\ c = "take_wait"
              /\ m' = m /\ iter' = iter
           \/ /\ phase # "sema" /\ pc[i] = "take_tested" /\ state[i] = "HUNGRY" /\ c = "wait"
              /\ m' = wait_enter(m, i) /\ iter' = iter
           \/ /\ phase # "sema" /\ c = "eat"
              /\ pc[i] = "take_out" \/ (pc[i] = "take_tested" /\ state[i] # "HUNGRY")
              /\ m' = m /\ iter' = iter
           \/ /\ pc[i] = "put_out" /\ c = IF iter[i] > 1 THEN "think" ELSE "quit"
              /\ m' = m /\ iter' = [iter EXCEPT ![i] = @ - 1]
    PROVE  Inv'
  <1>1. /\ c \in {"take_wait", "think", "quit", "wait", "eat"} /\ c \in PCs
        /\ pc[i] \in {"take_tested", "take_out", "put_out"}
    BY DEF PCs
  <1>2. /\ Core' /\ MutexOK'
        /\ pc'[i] = c /\ \A j \in Phil \ {i} : pc'[j] = pc[j]
        /\ k'.wait_state[i] # "WT_KSEM"
        /\ \A j \in Phil : (k'.wait_state[j] = "WT_KSEM" <=> k.wait_state[j] = "WT_KSEM")
                             \/ pc[j] \in {"take_in", "put_in", "signalled"}
        /\ \A x \in Sems \ {Entry} : sem'[x].value = sem[x].value
        /\ phase # "sema" /\ sem'[Mutex].value = 1 => Signallers = {}
    BY <1>1, LeaveFacts, ZenonT(40)
  <1>3. DataType /\ iter[i] \in 1 .. Times
    BY <1>1 DEF Inv, IterOK, DataType
  <1>4. /\ m' \in [next_count : 0 .. N, count : [Phil -> 0 .. N]]
        /\ m'.next_count = m.next_count
        /\ \A j \in Phil : m'.count[j] = IF j = i /\ c = "wait" THEN 1 ELSE m.count[j]
    <2>1. CASE m' = m /\ c # "wait"
      BY <2>1, <1>3 DEF DataType
    <2>2. CASE c = "wait"
      <3>1. m' = [m EXCEPT !.count = [m.count EXCEPT ![i] = @ + 1]] /\ m.count[i] = 0
        BY <2>2 DEF wait_enter, Inv, MonitorOK
      <3>2. [m.count EXCEPT ![i] = @ + 1] \in [Phil -> 0 .. N]
        BY <3>1, <1>3, PhilAssumption DEF DataType
      <3> QED
        BY <3>1, <3>2, <2>2, <1>3 DEF DataType
    <2> QED
      BY <2>1, <2>2
  <1>5. DataType'
    <2>1. iter' \in [Phil -> 0 .. Times]
      <3>1. CASE iter' = iter
        BY <3>1, <1>3 DEF DataType
      <3>2. CASE iter' = [iter EXCEPT ![i] = @ - 1]
        <4>1. iter[i] - 1 \in 0 .. Times
          BY <1>3, PhilAssumption
        <4> QED
          BY <4>1, <3>2, <1>3 DEF DataType
      <3> QED
        BY <3>1, <3>2
    <2>2. pc' \in [Phil -> PCs]
      BY <1>2 DEF Core
    <2> QED
      BY <2>1, <2>2, <1>3, <1>4 DEF DataType
  <1>6. IterOK'
    BY <1>1, <1>2, <1>3 DEF Inv, IterOK, DataType
  <1>7. PhaseOK'
    BY <1>1, <1>2 DEF Inv, PhaseOK
  <1>8. StateOK'
    BY <1>1, <1>2 DEF Inv, StateOK, Asleep, DataType
  <1>9. GrantOK'
    BY <1>1, <1>2, Names DEF Inv, GrantOK, Entry
  <1>10. NeighbourOK'
    BY DEF Inv, NeighbourOK
  <1>11. HungryOK'
    <2>1. \A j \in Phil : LooksRight(j)' <=> LooksRight(j)
      BY <1>1, <1>2 DEF LooksRight
    <2> QED
      BY <2>1, Neighbours DEF Inv, HungryOK
  <1>12. MonitorOK'
    <2>1. Signallers' = Signallers
      BY <1>1, <1>2 DEF Signallers
    <2>2. ASSUME phase # "sema"
          PROVE  \A j \in Phil : m'.count[j] = IF pc'[j] \in {"wait", "waited"} THEN 1 ELSE 0
      BY <2>2, <1>1, <1>2, <1>4 DEF Inv, MonitorOK
    <2>3. ASSUME phase # "sema"
          PROVE  sem'[NextSem].value = 0 /\ \A j \in Phil : sem'[CvSem(j)].value = 0
      BY <2>3, <1>2, Names DEF Inv, MonitorOK, Entry
    <2> QED
      BY <2>1, <2>2, <2>3, <1>2, <1>4 DEF Inv, MonitorOK
  <1> QED
    BY <1>2, <1>5, <1>6, <1>7, <1>8, <1>9, <1>10, <1>11, <1>12 DEF Inv

(* down() of the other semaphores: the philosopher's own, that of the
   condition variable, and the one where signallers wait. *)
WaitsAt(i, c, e) ==
    \/ phase = "sema" /\ pc[i] = "take_wait" /\ c = "eat" /\ e = s(i)
    \/ phase # "sema" /\ pc[i] = "signal" /\ c = "signalled" /\ e = NextSem
    \/ phase # "sema" /\ pc[i] = "wait" /\ c = "waited" /\ e = CvSem(i)

LEMMA WaitInv ==
    ASSUME Inv, NEW i \in Phil, k.current = i, NEW c, NEW e \in Sems,
           Down(i, e), pc' = [pc EXCEPT ![i] = c], phase' = phase, waitfor' = waitfor,
           m' = m, state' = state, iter' = iter, behind' = behind,
           WaitsAt(i, c, e)
    PROVE  Inv'
  <1> USE DEF WaitsAt
  <1>1. c \in PCs \ OnCpu /\ Place(phase, c, i) = e /\ Core
    BY DEF PCs, OnCpu, Place, Inv
  <1>2. /\ Core'
        /\ \A x \in Sems : sem'[x].value = IF x = e /\ sem[e].value > 0
                                           THEN sem[x].value - 1 ELSE sem[x].value
        /\ \A j \in Phil : k'.wait_state[j] = "WT_KSEM"
              <=> k.wait_state[j] = "WT_KSEM" \/ (j = i /\ ~(sem[e].value > 0))
    <2> HIDE DEF WaitsAt
    <2>1. Core' /\ Lowered(i, e)
      BY <1>1, DownStep
    <2> QED
      BY <2>1 DEF Lowered
  <1>3. pc \in [Phil -> PCs] /\ pc'[i] = c /\ \A j \in Phil \ {i} : pc'[j] = pc[j]
    BY DEF Inv, DataType
  <1>4. sem[e].value = IF phase = "sema" /\ state[i] = "EATING" THEN 1 ELSE 0
    BY DEF Inv, GrantOK, MonitorOK
  <1>5. e # Entry /\ Entry \in Sems /\ k.wait_state[i] # "WT_KSEM"
    BY <1>1, Names, Running DEF Entry
  <1>6. DataType'
    BY <1>2 DEF Inv, DataType, Core
  <1>7. PhaseOK' /\ IterOK'
    BY <1>3 DEF Inv, PhaseOK, IterOK
  <1>8. StateOK'
    <2>1. ASSUME NEW j \in Phil \ {i}
          PROVE  pc'[j] = pc[j] /\ (k'.wait_state[j] = "WT_KSEM" <=> k.wait_state[j] = "WT_KSEM")
      BY <1>2, <1>3
    <2>2. /\ pc[i] = "take_wait" => state[i] \in {"HUNGRY", "EATING"}
          /\ pc[i] = "wait" => state[i] = "HUNGRY"
          /\ pc[i] = "signal" => state[i] = "THINKING"
      BY DEF Inv, StateOK
    <2>3. k'.wait_state[i] = "WT_KSEM" <=> ~(phase = "sema" /\ state[i] = "EATING")
      BY <1>2, <1>4, <1>5
    <2> QED
      BY <2>1, <2>2, <2>3, <1>3 DEF Inv, StateOK, Asleep
  <1>9. GrantOK'
    <2> SUFFICES ASSUME phase = "sema", NEW j \in Phil
                 PROVE  sem'[s(j)].value = IF pc'[j] \in {"take_out", "take_wait"} /\ state[j] = "EATING"
                                           THEN 1 ELSE 0
      BY DEF GrantOK
    <2>1. /\ sem[s(j)].value = IF pc[j] \in {"take_out", "take_wait"} /\ state[j] = "EATING" THEN 1 ELSE 0
          /\ s(j) \in Sems /\ e = s(i) /\ c = "eat"
      BY Names DEF Inv, GrantOK
    <2>2. CASE j = i
      BY <2>1, <2>2, <1>2, <1>3, <1>4
    <2>3. CASE j # i
      <3>1. s(j) # e
        BY <2>1, <2>3, Names
      <3> QED
        BY <3>1, <2>1, <2>3, <1>2, <1>3
    <2> QED
      BY <2>2, <2>3
  <1>10. MutexOK'
    <2>1. \A j \in Phil : Inside(j)' <=> Inside(j)
      BY <1>2, <1>3, <1>4 DEF Inside, Asleep
    <2>2. sem'[Entry'].value = sem[Entry].value
      BY <1>2, <1>5 DEF Entry
    <2> QED
      BY <2>1, <2>2 DEF Inv, MutexOK
  <1>11. NeighbourOK'
    BY DEF Inv, NeighbourOK
  <1>12. HungryOK'
    <2>1. \A j \in Phil : LooksRight(j)' <=> LooksRight(j)
      BY <1>3 DEF LooksRight
    <2> QED
      BY <2>1, Neighbours DEF Inv, HungryOK
  <1>13. MonitorOK'
    <2>1. Signallers' = Signallers
      BY <1>3 DEF Signallers
    <2>2. ASSUME phase # "sema" PROVE \A x \in Sems : sem'[x].value = sem[x].value
      BY <2>2, <1>2, <1>4
    <2> QED
      BY <2>1, <2>2, <1>3, Names DEF Inv, MonitorOK
  <1> QED
    BY <1>2, <1>6, <1>7, <1>8, <1>9, <1>10, <1>11, <1>12, <1>13 DEF Inv

(* cond_signal goes on. *)
LEMMA SignalEndInv ==
    ASSUME Inv, NEW i \in Phil, cond_signal_end(i)
    PROVE  Inv'
  <1> USE DEF cond_signal_end, At, Goto
  <1>1. /\ k.current = i /\ phase = "condvar" /\ pc[i] = "signalled" /\ Core
        /\ pc \in [Phil -> PCs] /\ k.wait_state[i] # "WT_KSEM"
    BY Running DEF Inv, Core
  <1>2. PICK c : c = behind[i]
    OBVIOUS
  <1>3. c \in {"put_right", "put_out"} /\ c \in PCs
    BY <1>1, <1>2 DEF Inv, MonitorOK, Signallers, PCs
  <1>4. Core'
    BY <1>1, <1>2, <1>3, StayStep
  <1>5. pc'[i] = c /\ \A j \in Phil \ {i} : pc'[j] = pc[j]
    BY <1>1, <1>2
  <1>6. PICK S : S = Signallers
    OBVIOUS
  <1>7. i \in S /\ Signallers' = S \ {i}
    BY <1>1, <1>3, <1>5, <1>6 DEF Signallers
  <1>8. /\ Cardinality(S \ {i}) = Cardinality(S) - 1 /\ Cardinality(S) \in 0 .. N
        /\ Cardinality(S \ {i}) \in Nat /\ m.next_count = Cardinality(S)
    <2>1. IsFiniteSet(S) /\ Cardinality(S) \in 0 .. N /\ m.next_count = Cardinality(S)
      BY <1>1, <1>6, SignallersFinite DEF Inv, MonitorOK
    <2>2. IsFiniteSet(S \ {i}) /\ Cardinality(S \ {i}) = Cardinality(S) - 1
      BY <2>1, <1>7, FS_RemoveElement
    <2> QED
      BY <2>1, <2>2, FS_CardinalityType
  <1>9. /\ m' \in [next_count : 0 .. N, count : [Phil -> 0 .. N]]
        /\ m'.next_count = m.next_count - 1 /\ m'.count = m.count
    <2>1. m' = [m EXCEPT !.next_count = m.next_count - 1] /\ m.next_count - 1 \in 0 .. N
      BY <1>8, PhilAssumption DEF signal_leave
    <2> QED
      BY <2>1 DEF Inv, DataType
  <1>10. DataType'
    BY <1>4, <1>9 DEF Inv, DataType, Core
  <1>11. PhaseOK' /\ IterOK'
    BY <1>1, <1>3, <1>5 DEF Inv, PhaseOK, IterOK
  <1>12. StateOK'
    BY <1>1, <1>3, <1>5 DEF Inv, StateOK, Asleep
  <1>13. GrantOK' /\ NeighbourOK'
    BY <1>1 DEF Inv, GrantOK, NeighbourOK
  <1>14. MutexOK'
    <2>1. \A j \in Phil : Inside(j)' <=> Inside(j)
      BY <1>1, <1>3, <1>5 DEF Inside, Asleep
    <2>2. sem'[Entry'].value = sem[Entry].value
      BY DEF Entry
    <2> QED
      BY <2>1, <2>2 DEF Inv, MutexOK
  <1>15. HungryOK'
    <2>1. \A j \in Phil : LooksRight(j)' <=> LooksRight(j)
      BY <1>1, <1>2, <1>3, <1>5 DEF LooksRight
    <2> QED
      BY <2>1, Neighbours DEF Inv, HungryOK
  <1>16. MonitorOK'
    BY <1>1, <1>3, <1>5, <1>6, <1>7, <1>8, <1>9 DEF Inv, MonitorOK
  <1> QED
    BY <1>4, <1>10, <1>11, <1>12, <1>13, <1>14, <1>15, <1>16 DEF Inv

(* cond_wait goes on: the philosopher eats. *)
LEMMA WaitEndInv ==
    ASSUME Inv, NEW i \in Phil, cond_wait_end(i)
    PROVE  Inv'
  <1> USE DEF cond_wait_end, At, Goto
  <1>1. /\ k.current = i /\ phase = "condvar" /\ pc[i] = "waited" /\ Core
        /\ pc \in [Phil -> PCs] /\ k.wait_state[i] # "WT_KSEM" /\ "take_out" \in PCs
    BY Running DEF Inv, Core, PCs
  <1>2. Core'
    BY <1>1, StayStep
  <1>3. pc'[i] = "take_out" /\ \A j \in Phil \ {i} : pc'[j] = pc[j]
    BY <1>1
  <1>4. Signallers' = Signallers
    BY <1>1, <1>3 DEF Signallers
  <1>5. /\ m' \in [next_count : 0 .. N, count : [Phil -> 0 .. N]] /\ m'.next_count = m.next_count
        /\ \A j \in Phil : m'.count[j] = IF j = i THEN 0 ELSE m.count[j]
    <2>1. m' = [m EXCEPT !.count = [m.count EXCEPT ![i] = @ - 1]] /\ m.count[i] = 1
      BY <1>1 DEF wait_leave, Inv, MonitorOK
    <2>2. [m.count EXCEPT ![i] = @ - 1] \in [Phil -> 0 .. N]
      BY <2>1, PhilAssumption DEF Inv, DataType
    <2> QED
      BY <2>1, <2>2 DEF Inv, DataType
  <1>6. DataType'
    BY <1>2, <1>5 DEF Inv, DataType, Core
  <1>7. PhaseOK' /\ IterOK'
    BY <1>1, <1>3 DEF Inv, PhaseOK, IterOK
  <1>8. StateOK'
    BY <1>1, <1>3 DEF Inv, StateOK, Asleep
  <1>9. GrantOK' /\ NeighbourOK'
    BY <1>1 DEF Inv, GrantOK, NeighbourOK
  <1>10. MutexOK'
    <2>1. \A j \in Phil : Inside(j)' <=> Inside(j)
      BY <1>1, <1>3 DEF Inside, Asleep
    <2>2. sem'[Entry'].value = sem[Entry].value
      BY DEF Entry
    <2> QED
      BY <2>1, <2>2 DEF Inv, MutexOK
  <1>11. HungryOK'
    <2>1. \A j \in Phil : LooksRight(j)' <=> LooksRight(j)
      BY <1>1, <1>3 DEF LooksRight
    <2> QED
      BY <2>1, Neighbours DEF Inv, HungryOK
  <1>12. MonitorOK'
    BY <1>1, <1>3, <1>4, <1>5 DEF Inv, MonitorOK
  <1> QED
    BY <1>2, <1>6, <1>7, <1>8, <1>9, <1>10, <1>11, <1>12 DEF Inv

(* The three calls of phi_test: st is the state array it reads, and j the
   philosopher that it tests. *)
Tests(i, j, st, to) ==
    \/ /\ pc[i] = "take_in" /\ j = i /\ st = [state EXCEPT ![i] = "HUNGRY"]
       /\ to = IF phase = "sema" THEN "take_out" ELSE "take_tested"
    \/ /\ pc[i] = "put_in" /\ j = LEFT(i) /\ st = [state EXCEPT ![i] = "THINKING"]
       /\ to = "put_right"
    \/ pc[i] = "put_right" /\ j = RIGHT(i) /\ st = state /\ to = "put_out"

(* The state array before and after the test. *)
Tested(i, j, st) ==
    /\ j \in Phil /\ state' \in [Phil -> {"THINKING", "HUNGRY", "EATING"}]
    /\ st \in [Phil -> {"THINKING", "HUNGRY", "EATING"}]
    /\ \A x \in Phil \ {i} : st[x] = state[x]
    /\ st[i] = IF pc[i] = "take_in" THEN "HUNGRY" ELSE "THINKING"
    /\ \A x \in Phil : state'[x] = IF x = j /\ CanEat(st, j) THEN "EATING" ELSE st[x]
    /\ j = i <=> pc[i] = "take_in"

LEMMA TestedState ==
    ASSUME Inv, NEW i \in Phil, NEW j, NEW st, NEW to, Tests(i, j, st, to),
           state' = IF CanEat(st, j) THEN [st EXCEPT ![j] = "EATING"] ELSE st
    PROVE  Tested(i, j, st)
  <1>1. state \in [Phil -> {"THINKING", "HUNGRY", "EATING"}]
    BY DEF Inv, DataType
  <1>2. j \in Phil /\ (j = i <=> pc[i] = "take_in")
    BY Neighbours DEF Tests
  <1>3. st \in [Phil -> {"THINKING", "HUNGRY", "EATING"}]
    BY <1>1 DEF Tests
  <1>4. /\ \A x \in Phil \ {i} : st[x] = state[x]
        /\ st[i] = IF pc[i] = "take_in" THEN "HUNGRY" ELSE "THINKING"
    <2>1. pc[i] = "put_right" => state[i] = "THINKING"
      BY DEF Inv, StateOK
    <2> QED
      BY <2>1, <1>1 DEF Tests
  <1>5. /\ \A x \in Phil : state'[x] = IF x = j /\ CanEat(st, j) THEN "EATING" ELSE st[x]
        /\ state' \in [Phil -> {"THINKING", "HUNGRY", "EATING"}]
    <2>1. CASE CanEat(st, j)
      BY <2>1, <1>2, <1>3
    <2>2. CASE ~CanEat(st, j)
      BY <2>2, <1>3
    <2> QED
      BY <2>1, <2>2
  <1> QED
    BY <1>2, <1>3, <1>4, <1>5 DEF Tested

(* Another philosopher that may eat sleeps and waits for it. *)
LEMMA TestedSleeps ==
    ASSUME Inv, NEW i \in Phil, k.current = i, NEW j, NEW st, NEW to, Tests(i, j, st, to),
           CanEat(st, j), j # i
    PROVE  /\ k.wait_state[j] = "WT_KSEM"
           /\ pc[j] = IF phase = "sema" THEN "eat" ELSE "waited"
  <1>1. j \in Phil /\ state[j] = "HUNGRY"
    <2>1. j \in Phil /\ st[j] = state[j]
      BY Neighbours DEF Tests, Inv, DataType
    <2> QED
      BY <2>1 DEF CanEat
  <1>2. pc[j] \notin OnCpu /\ pc[j] \in PCs
    BY <1>1, Running DEF Inv, DataType
  <1>3. pc[j] \in {"eat", "waited"} /\ k.wait_state[j] = "WT_KSEM"
    BY <1>1, <1>2 DEF Inv, StateOK, Asleep, PCs, OnCpu
  <1> QED
    BY <1>1, <1>3, Sleepers

(* The test keeps neighbours from eating together, and leaves nobody hungry
   without a reason. *)
LEMMA TestedMeal ==
    ASSUME Inv, NEW i \in Phil, NEW j, NEW st, NEW to, Tests(i, j, st, to),
           state' = IF CanEat(st, j) THEN [st EXCEPT ![j] = "EATING"] ELSE st,
           \A x \in Phil \ {i} : LooksRight(x)' <=> LooksRight(x),
           pc[i] = "put_in" => LooksRight(i)'
    PROVE  NeighbourOK' /\ HungryOK'
  <1>1. /\ j \in Phil /\ state' \in [Phil -> {"THINKING", "HUNGRY", "EATING"}]
        /\ \A x \in Phil \ {i} : st[x] = state[x]
        /\ st[i] = IF pc[i] = "take_in" THEN "HUNGRY" ELSE "THINKING"
        /\ \A x \in Phil : state'[x] = IF x = j /\ CanEat(st, j) THEN "EATING" ELSE st[x]
        /\ j = i <=> pc[i] = "take_in"
    BY TestedState, ZenonT(40) DEF Tested
  <1>2. \A x \in Phil : st[x] = "EATING" => x # i /\ state[x] = "EATING"
    BY <1>1
  <1>3. NeighbourOK'
    <2> SUFFICES ASSUME NEW x \in Phil, state'[x] = "EATING" PROVE state'[RIGHT(x)] # "EATING"
      BY DEF NeighbourOK
    <2>1. PICK y \in Phil : y = RIGHT(x) /\ LEFT(y) = x /\ y # x
      BY Neighbours
    <2>2. ~(st[x] = "EATING" /\ st[y] = "EATING")
      BY <2>1, <1>2 DEF Inv, NeighbourOK
    <2>3. CASE y = j /\ CanEat(st, j)
      <3>1. st[x] # "EATING" /\ x # j
        BY <2>1, <2>3 DEF CanEat
      <3> QED
        BY <3>1, <1>1
    <2>4. CASE ~(y = j /\ CanEat(st, j))
      <3>1. state'[y] = st[y]
        BY <2>4, <1>1
      <3>2. CASE x = j /\ CanEat(st, j)
        BY <3>1, <3>2, <2>1 DEF CanEat
      <3>3. CASE ~(x = j /\ CanEat(st, j))
        BY <3>1, <3>3, <2>1, <2>2, <1>1
      <3> QED
        BY <3>2, <3>3
    <2> QED
      BY <2>3, <2>4
  <1>4. \A x \in Phil : st[x] = "EATING" => state'[x] = "EATING"
    BY <1>1
  <1>5. HungryOK'
    <2> SUFFICES ASSUME NEW x \in Phil, state'[x] = "HUNGRY"
                 PROVE  state'[LEFT(x)] = "EATING" \/ state'[RIGHT(x)] = "EATING" \/ LooksRight(LEFT(x))'
      BY DEF HungryOK
    <2>1. LEFT(x) \in Phil /\ RIGHT(x) \in Phil /\ LEFT(x) # x /\ RIGHT(x) # x
      BY Neighbours
    <2>2. st[x] = "HUNGRY" /\ (x = j => st[LEFT(x)] = "EATING" \/ st[RIGHT(x)] = "EATING")
      BY <1>1 DEF CanEat
    <2>3. CASE x = j
      BY <2>1, <2>2, <2>3, <1>4
    <2>4. CASE x # j
      \* x is not the philosopher that put its forks down.
      <3>1. x # i
        BY <2>2, <2>4, <1>1
      <3>2. state[LEFT(x)] = "EATING" \/ state[RIGHT(x)] = "EATING" \/ LooksRight(LEFT(x))
        BY <3>1, <2>2, <1>1 DEF Inv, HungryOK
      <3>3. CASE state[LEFT(x)] = "EATING"
        <4>1. CASE LEFT(x) # i
          BY <4>1, <3>3, <2>1, <1>1
        <4>2. CASE LEFT(x) = i
          <5>1. pc[i] \in {"take_in", "put_right"} => state[i] = "THINKING"
            BY DEF Inv, StateOK
          <5>2. pc[i] = "put_in"
            BY <5>1, <4>2, <3>3 DEF Tests
          <5> QED
            BY <5>2, <4>2
        <4> QED
          BY <4>1, <4>2
      <3>4. CASE state[RIGHT(x)] = "EATING"
        <4>1. CASE RIGHT(x) # i
          BY <4>1, <3>4, <2>1, <1>1
        <4>2. CASE RIGHT(x) = i
          <5>1. pc[i] \in {"take_in", "put_right"} => state[i] = "THINKING"
            BY DEF Inv, StateOK
          <5>2. pc[i] = "put_in" /\ j = LEFT(i)
            BY <5>1, <4>2, <3>4 DEF Tests
          <5>3. LEFT(i) = x
            BY <4>2, Neighbours
          <5> QED
            BY <5>2, <5>3, <2>4
        <4> QED
          BY <4>1, <4>2
      <3>5. CASE LooksRight(LEFT(x))
        <4>1. CASE LEFT(x) # i
          BY <4>1, <3>5, <2>1
        <4>2. CASE LEFT(x) = i
          <5>1. pc[i] = "put_right" /\ j = RIGHT(i)
            BY <4>2, <3>5 DEF LooksRight, Tests
          <5>2. RIGHT(i) = x
            BY <4>2, Neighbours
          <5> QED
            BY <5>1, <5>2, <2>4
        <4> QED
          BY <4>1, <4>2
      <3> QED
        BY <3>2, <3>3, <3>4, <3>5
    <2> QED
      BY <2>3, <2>4
  <1> QED
    BY <1>3, <1>5

(* phi_test_sema. *)
LEMMA TestSemaInv ==
    ASSUME Inv, NEW i \in Phil, k.current = i, phase = "sema", NEW j, NEW st, NEW to,
           Tests(i, j, st, to), TestSema(i, j, st, to)
    PROVE  Inv'
  <1>1. /\ state' = IF CanEat(st, j) THEN [st EXCEPT ![j] = "EATING"] ELSE st
        /\ pc' = [pc EXCEPT ![i] = to]
        /\ m' = m /\ phase' = phase /\ waitfor' = waitfor /\ iter' = iter /\ behind' = behind
    BY DEF TestSema, Goto
  <1>2. /\ j \in Phil /\ state' \in [Phil -> {"THINKING", "HUNGRY", "EATING"}]
        /\ \A x \in Phil \ {i} : st[x] = state[x]
        /\ st[i] = IF pc[i] = "take_in" THEN "HUNGRY" ELSE "THINKING"
        /\ \A x \in Phil : state'[x] = IF x = j /\ CanEat(st, j) THEN "EATING" ELSE st[x]
        /\ j = i <=> pc[i] = "take_in"
    <2>1. Tested(i, j, st)
      BY <1>1, TestedState
    <2> QED
      BY <2>1 DEF Tested
  <1>3. /\ to \in PCs /\ Core /\ pc[i] \in {"take_in", "put_in", "put_right"}
        /\ to = IF pc[i] = "take_in" THEN "take_out" ELSE IF pc[i] = "put_in" THEN "put_right" ELSE "put_out"
        /\ k.wait_state[i] # "WT_KSEM"
    BY Running DEF Tests, PCs, Inv
  <1>4. pc \in [Phil -> PCs] /\ pc'[i] = to /\ \A x \in Phil \ {i} : pc'[x] = pc[x]
    BY <1>1 DEF Inv, DataType
  <1>5. CanEat(st, j) /\ j # i => k.wait_state[j] = "WT_KSEM" /\ pc[j] = "eat"
    BY TestedSleeps
  \* Only the philosopher j may be woken, and only s[i] may get a permit.
  <1>6. /\ Core'
        /\ \A x \in Phil : k'.wait_state[x] = "WT_KSEM"
              <=> k.wait_state[x] = "WT_KSEM" /\ ~(CanEat(st, j) /\ x = j)
        /\ \A x \in Sems : sem'[x].value = IF CanEat(st, j) /\ j = i /\ x = s(i)
                                           THEN sem[x].value + 1 ELSE sem[x].value
    <2>1. CASE ~CanEat(st, j)
      <3>1. k' = k /\ sem' = sem
        BY <2>1 DEF TestSema
      <3>2. Core'
        BY <3>1, <1>1, <1>3, StayStep
      <3> QED
        BY <3>1, <3>2, <2>1
    <2>2. CASE CanEat(st, j)
      <3>1. PICK e \in Sems : e = s(j)
        BY <1>2, Names
      <3>2. Up(e)
        BY <3>1, <2>2 DEF TestSema
      <3>3. Core' /\ Raised(i, e)
        BY <3>1, <3>2, <1>1, <1>3, UpStep
      <3>4. \A h \in Phil : k.wait_state[h] = "WT_KSEM" /\ Place(phase, pc[h], h) = e => h = j
        BY <3>1, <1>2, Sleepers
      <3>5. CASE j = i
        <4>1. \A h \in Phil : ~(k.wait_state[h] = "WT_KSEM" /\ Place(phase, pc[h], h) = e)
          BY <3>4, <3>5, <1>3
        <4>2. k' = k /\ \A x \in Sems : sem'[x].value = IF x = e THEN sem[x].value + 1 ELSE sem[x].value
          BY <4>1, <3>3 DEF Raised
        <4> QED
          BY <4>2, <3>1, <3>3, <3>5, <2>2, <1>3
      <3>6. CASE j # i
        <4>1. k.wait_state[j] = "WT_KSEM" /\ Place(phase, pc[j], j) = e
          BY <3>1, <3>6, <2>2, <1>5 DEF Place
        <4>2. /\ \A x \in Phil : k'.wait_state[x] = "WT_KSEM" <=> k.wait_state[x] = "WT_KSEM" /\ x # j
              /\ \A x \in Sems : sem'[x].value = sem[x].value
          BY <4>1, <3>3, <3>4, <1>2 DEF Raised
        <4> QED
          BY <4>2, <3>3, <3>6, <2>2
      <3> QED
        BY <3>5, <3>6
    <2> QED
      BY <2>1, <2>2
  <1>7. DataType'
    BY <1>1, <1>2, <1>6 DEF Inv, DataType, Core
  <1>8. PhaseOK' /\ IterOK'
    BY <1>1, <1>3, <1>4 DEF Inv, PhaseOK, IterOK
  <1>9. StateOK'
    <2> SUFFICES ASSUME NEW x \in Phil
                 PROVE  /\ pc'[x] \in {"think", "take", "take_in", "put_right", "put_out", "signal", "signalled", "quit"}
                              => state'[x] = "THINKING"
                        /\ pc'[x] \in {"put", "put_in"} => state'[x] = "EATING"
                        /\ pc'[x] \in {"eat", "waited"}
                              => state'[x] = IF k'.wait_state[x] = "WT_KSEM" THEN "HUNGRY" ELSE "EATING"
                        /\ pc'[x] = "wait" => state'[x] = "HUNGRY"
                        /\ pc'[x] \in {"take_tested", "take_out", "take_wait"} => state'[x] \in {"HUNGRY", "EATING"}
      BY <1>1 DEF StateOK, Asleep
    <2>1. CASE x = i
      BY <2>1, <1>2, <1>3, <1>4
    <2>2. CASE x # i /\ x = j /\ CanEat(st, j)
      BY <2>2, <1>2, <1>4, <1>5, <1>6
    <2>3. CASE x # i /\ ~(x = j /\ CanEat(st, j))
      <3>1. /\ state'[x] = state[x] /\ pc'[x] = pc[x]
            /\ k'.wait_state[x] = "WT_KSEM" <=> k.wait_state[x] = "WT_KSEM"
        BY <2>3, <1>2, <1>4, <1>6
      <3> QED
        BY <3>1 DEF Inv, StateOK, Asleep
    <2> QED
      BY <2>1, <2>2, <2>3
  <1>10. GrantOK'
    <2> SUFFICES ASSUME NEW x \in Phil
                 PROVE  sem'[s(x)].value = IF pc'[x] \in {"take_out", "take_wait"} /\ state'[x] = "EATING"
                                           THEN 1 ELSE 0
      BY DEF GrantOK
    <2>1. /\ s(x) \in Sems /\ (s(x) = s(i) => x = i)
          /\ sem[s(x)].value = IF pc[x] \in {"take_out", "take_wait"} /\ state[x] = "EATING" THEN 1 ELSE 0
      BY Names DEF Inv, GrantOK
    <2>2. CASE x = i
      BY <2>1, <2>2, <1>2, <1>3, <1>4, <1>6
    <2>3. CASE x # i /\ x = j /\ CanEat(st, j)
      BY <2>1, <2>3, <1>2, <1>4, <1>5, <1>6
    <2>4. CASE x # i /\ ~(x = j /\ CanEat(st, j))
      BY <2>1, <2>4, <1>2, <1>4, <1>6
    <2> QED
      BY <2>2, <2>3, <2>4
  <1>11. MutexOK'
    <2>1. \A x \in Phil : Inside(x)' <=> Inside(x)
      <3> SUFFICES ASSUME NEW x \in Phil PROVE Inside(x)' <=> Inside(x)
        OBVIOUS
      <3>1. CASE x = i
        BY <3>1, <1>3, <1>4, <1>6 DEF Inside, Asleep
      <3>2. CASE x # i
        BY <3>2, <1>4, <1>5, <1>6 DEF Inside, Asleep
      <3> QED
        BY <3>1, <3>2
    <2>2. sem'[Entry'].value = sem[Entry].value
      BY <1>1, <1>6, Names DEF Entry
    <2> QED
      BY <2>1, <2>2 DEF Inv, MutexOK
  <1>12. NeighbourOK' /\ HungryOK'
    <2>1. \A x \in Phil \ {i} : LooksRight(x)' <=> LooksRight(x)
      BY <1>1, <1>4 DEF LooksRight
    <2>2. pc[i] = "put_in" => LooksRight(i)'
      BY <1>3, <1>4 DEF LooksRight
    <2> QED
      BY <2>1, <2>2, <1>1, TestedMeal
  <1>13. MonitorOK'
    BY <1>1 DEF MonitorOK
  <1> QED
    BY <1>6, <1>7, <1>8, <1>9, <1>10, <1>11, <1>12, <1>13 DEF Inv

(* phi_test_condvar, with the first half of its cond_signal. *)
LEMMA TestCondvarInv ==
    ASSUME Inv, NEW i \in Phil, k.current = i, phase = "condvar", NEW j, NEW st, NEW to,
           Tests(i, j, st, to), TestCondvar(i, j, st, to)
    PROVE  Inv'
  <1>1. /\ state' = IF CanEat(st, j) THEN [st EXCEPT ![j] = "EATING"] ELSE st
        /\ phase' = phase /\ waitfor' = waitfor /\ iter' = iter
    BY DEF TestCondvar
  <1>2. /\ j \in Phil /\ state' \in [Phil -> {"THINKING", "HUNGRY", "EATING"}]
        /\ \A x \in Phil \ {i} : st[x] = state[x]
        /\ st[i] = IF pc[i] = "take_in" THEN "HUNGRY" ELSE "THINKING"
        /\ \A x \in Phil : state'[x] = IF x = j /\ CanEat(st, j) THEN "EATING" ELSE st[x]
        /\ j = i <=> pc[i] = "take_in"
    <2>1. Tested(i, j, st)
      BY <1>1, TestedState
    <2> QED
      BY <2>1 DEF Tested
  <1>3. /\ to \in PCs /\ "signal" \in PCs /\ Core /\ pc[i] \in {"take_in", "put_in", "put_right"}
        /\ to = IF pc[i] = "take_in" THEN "take_tested" ELSE IF pc[i] = "put_in" THEN "put_right" ELSE "put_out"
        /\ k.wait_state[i] # "WT_KSEM"
    BY Running DEF Tests, PCs, Inv
  <1>4. CanEat(st, j) /\ j # i => k.wait_state[j] = "WT_KSEM" /\ pc[j] = "waited"
    BY TestedSleeps
  \* The signal is sent exactly when another philosopher may eat.
  <1>5. PICK sig \in BOOLEAN : sig <=> (CanEat(st, j) /\ j # i)
    OBVIOUS
  <1>6. (CanEat(st, j) /\ Signals(m, j)) <=> sig
    <2>1. m.count[j] = IF pc[j] \in {"wait", "waited"} THEN 1 ELSE 0
      BY <1>2 DEF Inv, MonitorOK
    <2> QED
      <3>1. CASE CanEat(st, j) /\ j # i
        BY <3>1, <2>1, <1>4, <1>5 DEF Signals
      <3>2. CASE j = i
        BY <3>2, <2>1, <1>3, <1>5 DEF Signals
      <3>3. CASE ~CanEat(st, j)
        BY <3>3, <1>5
      <3> QED
        BY <3>1, <3>2, <3>3
  <1>7. /\ pc' = [pc EXCEPT ![i] = IF sig THEN "signal" ELSE to]
        /\ behind' = IF sig THEN [behind EXCEPT ![i] = to] ELSE behind
        /\ m' = IF sig THEN signal_enter(m) ELSE m
        /\ sig => Up(CvSem(j))
        /\ ~sig => k' = k /\ sem' = sem
    BY <1>6 DEF TestCondvar, Goto
  <1>8. /\ pc \in [Phil -> PCs] /\ behind \in [Phil -> PCs] /\ behind' \in [Phil -> PCs]
        /\ pc'[i] = IF sig THEN "signal" ELSE to
        /\ behind'[i] = IF sig THEN to ELSE behind[i]
        /\ \A x \in Phil \ {i} : pc'[x] = pc[x] /\ behind'[x] = behind[x]
    BY <1>3, <1>7 DEF Inv, DataType
  <1>9. /\ Core'
        /\ \A x \in Phil : k'.wait_state[x] = "WT_KSEM" <=> k.wait_state[x] = "WT_KSEM" /\ ~(sig /\ x = j)
        /\ \A x \in Sems : sem'[x].value = sem[x].value
    <2>1. CASE ~sig
      <3>1. k' = k /\ sem' = sem /\ pc' = [pc EXCEPT ![i] = to]
        BY <2>1, <1>7
      <3>2. Core'
        BY <3>1, <1>1, <1>3, StayStep
      <3> QED
        BY <3>1, <3>2, <2>1
    <2>2. CASE sig
      <3>1. PICK e \in Sems : e = CvSem(j)
        BY <1>2, Names
      <3>2. Up(e) /\ pc' = [pc EXCEPT ![i] = "signal"]
        BY <3>1, <2>2, <1>7
      <3>3. Core' /\ Raised(i, e)
        BY <3>1, <3>2, <1>1, <1>3, UpStep
      <3>4. \A h \in Phil : k.wait_state[h] = "WT_KSEM" /\ Place(phase, pc[h], h) = e => h = j
        BY <3>1, <1>2, Sleepers
      <3>5. k.wait_state[j] = "WT_KSEM" /\ Place(phase, pc[j], j) = e
        BY <3>1, <2>2, <1>4, <1>5 DEF Place
      <3>6. /\ \A x \in Phil : k'.wait_state[x] = "WT_KSEM" <=> k.wait_state[x] = "WT_KSEM" /\ x # j
            /\ \A x \in Sems : sem'[x].value = sem[x].value
        BY <3>5, <3>3, <3>4, <1>2 DEF Raised
      <3> QED
        BY <3>3, <3>6, <2>2
    <2> QED
      BY <2>1, <2>2
  <1>10. PICK S : S = Signallers
    OBVIOUS
  <1>11. i \notin S /\ Signallers' = IF sig THEN S \cup {i} ELSE S
    BY <1>3, <1>8, <1>10 DEF Signallers
  <1>12. /\ m'.next_count = Cardinality(Signallers')
         /\ m' \in [next_count : 0 .. N, count : [Phil -> 0 .. N]] /\ m'.count = m.count
    <2>1. IsFiniteSet(S) /\ m.next_count = Cardinality(S) /\ m \in [next_count : 0 .. N, count : [Phil -> 0 .. N]]
      BY <1>10, SignallersFinite DEF Inv, MonitorOK, DataType
    <2>2. CASE ~sig
      BY <2>1, <2>2, <1>7, <1>11
    <2>3. CASE sig
      <3>1. Cardinality(S \cup {i}) = Cardinality(S) + 1
        BY <2>1, <1>11, FS_AddElement
      <3>2. Cardinality(S \cup {i}) \in 0 .. N
        <4>1. IsFiniteSet(Phil) /\ Cardinality(Phil) = N
          BY PhilAssumption, FS_Interval DEF Phil
        <4>2. S \cup {i} \subseteq Phil
          BY <1>10 DEF Signallers
        <4>3. PICK T : T = S \cup {i}
          OBVIOUS
        <4>4. IsFiniteSet(T) /\ Cardinality(T) <= N /\ Cardinality(T) \in Nat
          BY <4>1, <4>2, <4>3, FS_Subset, FS_CardinalityType
        <4> QED
          BY <4>3, <4>4, PhilAssumption
      <3>3. m' = [m EXCEPT !.next_count = m.next_count + 1] /\ m.next_count + 1 \in 0 .. N
        BY <3>1, <3>2, <2>1, <2>3, <1>7 DEF signal_enter
      <3>4. /\ m'.next_count = m.next_count + 1 /\ m'.count = m.count
            /\ m' \in [next_count : 0 .. N, count : [Phil -> 0 .. N]]
        BY <3>3, <2>1
      <3> QED
        BY <3>1, <3>4, <2>1, <2>3, <1>11
    <2> QED
      BY <2>2, <2>3
  <1>13. DataType'
    BY <1>1, <1>2, <1>8, <1>9, <1>12 DEF Inv, DataType, Core
  <1>14. PhaseOK' /\ IterOK'
    BY <1>1, <1>3, <1>8 DEF Inv, PhaseOK, IterOK
  <1>15. StateOK'
    <2> SUFFICES ASSUME NEW x \in Phil
                 PROVE  /\ pc'[x] \in {"think", "take", "take_in", "put_right", "put_out", "signal", "signalled", "quit"}
                              => state'[x] = "THINKING"
                        /\ pc'[x] \in {"put", "put_in"} => state'[x] = "EATING"
                        /\ pc'[x] \in {"eat", "waited"}
                              => state'[x] = IF k'.wait_state[x] = "WT_KSEM" THEN "HUNGRY" ELSE "EATING"
                        /\ pc'[x] = "wait" => state'[x] = "HUNGRY"
                        /\ pc'[x] \in {"take_tested", "take_out", "take_wait"} => state'[x] \in {"HUNGRY", "EATING"}
                        /\ pc'[x] = "take_out" => state'[x] = "EATING"
      BY <1>1 DEF StateOK, Asleep
    <2>1. CASE x = i
      BY <2>1, <1>2, <1>3, <1>5, <1>8
    <2>2. CASE x # i /\ x = j /\ CanEat(st, j)
      BY <2>2, <1>2, <1>4, <1>5, <1>8, <1>9
    <2>3. CASE x # i /\ ~(x = j /\ CanEat(st, j))
      <3>1. /\ state'[x] = state[x] /\ pc'[x] = pc[x]
            /\ k'.wait_state[x] = "WT_KSEM" <=> k.wait_state[x] = "WT_KSEM"
        BY <2>3, <1>2, <1>5, <1>8, <1>9
      <3> QED
        BY <3>1 DEF Inv, StateOK, Asleep
    <2> QED
      BY <2>1, <2>2, <2>3
  <1>16. GrantOK'
    BY <1>1 DEF GrantOK
  <1>17. MutexOK'
    <2>1. Inside(i) /\ sem'[Entry'].value = sem[Entry].value
      BY <1>1, <1>3, <1>9, Names DEF Entry, Inside, Asleep
    <2>2. sem'[Entry'].value = 0 /\ \A x \in Phil : Inside(x) => x = i
      BY <2>1 DEF Inv, MutexOK
    <2>3. CASE sig
      <3>1. \A x \in Phil : Inside(x)' <=> x = j
        <4> SUFFICES ASSUME NEW x \in Phil PROVE Inside(x)' <=> x = j
          OBVIOUS
        <4>1. CASE x = i
          BY <4>1, <2>3, <1>5, <1>8 DEF Inside
        <4>2. CASE x = j
          BY <4>2, <2>3, <1>4, <1>5, <1>8, <1>9 DEF Inside, Asleep
        <4>3. CASE x # i /\ x # j
          BY <4>3, <2>2, <1>8, <1>9 DEF Inside, Asleep
        <4> QED
          BY <4>1, <4>2, <4>3
      <3> QED
        BY <3>1, <2>2, <1>2 DEF MutexOK
    <2>4. CASE ~sig
      <3>1. \A x \in Phil : Inside(x)' <=> x = i
        BY <2>1, <2>2, <2>4, <1>3, <1>8, <1>9 DEF Inside, Asleep
      <3> QED
        BY <3>1, <2>2 DEF MutexOK
    <2> QED
      BY <2>3, <2>4
  <1>18. NeighbourOK' /\ HungryOK'
    <2>1. \A x \in Phil \ {i} : LooksRight(x)' <=> LooksRight(x)
      BY <1>8 DEF LooksRight
    <2>2. pc[i] = "put_in" => LooksRight(i)'
      BY <1>3, <1>8 DEF LooksRight
    <2> QED
      BY <2>1, <2>2, <1>1, TestedMeal
  <1>19. MonitorOK'
    <2>1. \A x \in Phil : m'.count[x] = IF pc'[x] \in {"wait", "waited"} THEN 1 ELSE 0
      BY <1>3, <1>8, <1>12 DEF Inv, MonitorOK
    <2>2. sem'[NextSem].value = 0 /\ \A x \in Phil : sem'[CvSem(x)].value = 0
      BY <1>9, Names DEF Inv, MonitorOK
    <2>3. \A x \in Phil : x \in Signallers' => behind'[x] \in {"put_right", "put_out"}
      <3> SUFFICES ASSUME NEW x \in Phil, x \in Signallers' PROVE behind'[x] \in {"put_right", "put_out"}
        OBVIOUS
      <3>1. CASE x = i
        <4>1. sig
          BY <3>1, <1>11
        <4> QED
          BY <4>1, <3>1, <1>2, <1>3, <1>5, <1>8
      <3>2. CASE x # i
        BY <3>2, <1>8, <1>10, <1>11 DEF Inv, MonitorOK
      <3> QED
        BY <3>1, <3>2
    <2>4. sem'[Mutex].value # 1
      <3>1. Inside(i) /\ Entry = Mutex
        BY <1>3 DEF Inside, Asleep, Entry
      <3> QED
        BY <3>1, <1>9, Names DEF Inv, MutexOK
    <2> QED
      BY <2>1, <2>2, <2>3, <2>4, <1>12 DEF MonitorOK
  <1> QED
    BY <1>9, <1>13, <1>14, <1>15, <1>16, <1>17, <1>18, <1>19 DEF Inv

(* Steps of the scheduler that leave the semaphores and the meal alone: at
   most, philosophers that do not sleep in down() move to their next place. *)
LEMMA QuietInv ==
    ASSUME Inv, KOK(k'), CpuOK', ReapOK', waitfor' \in Phil, pc' \in [Phil -> PCs],
           sem' = sem, m' = m, state' = state, phase' = phase, iter' = iter, behind' = behind,
           \A j \in Phil : k'.wait_state[j] = "WT_KSEM" <=> k.wait_state[j] = "WT_KSEM",
           \A j \in Phil : \/ pc'[j] = pc[j]
                           \/ /\ k.wait_state[j] # "WT_KSEM"
                              /\ \/ pc[j] = "think" /\ pc'[j] = "take"
                                 \/ pc[j] = "eat" /\ pc'[j] = "put"
    PROVE  Inv'
  <1>1. QOK(k, sem, phase, pc)
    BY DEF Inv, Core
  <1>2. \A x \in Sems : \A p \in Procs :
           InQueue(sem'[x], p) <=> /\ p \in Phil /\ k'.wait_state[p] = "WT_KSEM"
                                   /\ Place(phase', pc'[p], p) = x
    <2> SUFFICES ASSUME NEW x \in Sems, NEW p \in Procs
                 PROVE  InQueue(sem[x], p) <=> /\ p \in Phil /\ k'.wait_state[p] = "WT_KSEM"
                                               /\ Place(phase, pc'[p], p) = x
      OBVIOUS
    <2>1. InQueue(sem[x], p) <=> /\ p \in Phil /\ k.wait_state[p] = "WT_KSEM"
                                 /\ Place(phase, pc[p], p) = x
      BY <1>1 DEF QOK
    <2>2. p \in Phil /\ k.wait_state[p] = "WT_KSEM" => pc'[p] = pc[p]
      OBVIOUS
    <2>3. p \in Phil => (k'.wait_state[p] = "WT_KSEM" <=> k.wait_state[p] = "WT_KSEM")
      OBVIOUS
    <2> QED
      BY <2>1, <2>2, <2>3
  <1>3. QOK(k', sem', phase', pc')
    BY <1>1, <1>2 DEF QOK
  <1>4. Core'
    BY <1>3 DEF Core
  <1>5. DataType'
    BY DEF Inv, DataType
  <1>6. PhaseOK' /\ IterOK'
    BY DEF Inv, PhaseOK, IterOK
  <1>7. StateOK'
    <2> SUFFICES ASSUME NEW x \in Phil
                 PROVE  /\ pc'[x] \in {"think", "take", "take_in", "put_right", "put_out", "signal", "signalled", "quit"}
                              => state[x] = "THINKING"
                        /\ pc'[x] \in {"put", "put_in"} => state[x] = "EATING"
                        /\ pc'[x] \in {"eat", "waited"}
                              => state[x] = IF k'.wait_state[x] = "WT_KSEM" THEN "HUNGRY" ELSE "EATING"
                        /\ pc'[x] = "wait" => state[x] = "HUNGRY"
                        /\ pc'[x] \in {"take_tested", "take_out", "take_wait"} => state[x] \in {"HUNGRY", "EATING"}
                        /\ pc'[x] = "take_out" /\ phase # "sema" => state[x] = "EATING"
      BY DEF StateOK, Asleep
    <2>1. CASE pc'[x] = pc[x]
      BY <2>1 DEF Inv, StateOK, Asleep
    <2>2. CASE pc'[x] # pc[x]
      BY <2>2 DEF Inv, StateOK, Asleep
    <2> QED
      BY <2>1, <2>2
  <1>8. GrantOK' /\ NeighbourOK'
    BY DEF Inv, GrantOK, NeighbourOK
  <1>9. MutexOK'
    <2>1. \A j \in Phil : Inside(j)' <=> Inside(j)
      BY DEF Inside, Asleep
    <2>2. sem'[Entry'].value = sem[Entry].value
      BY DEF Entry
    <2> QED
      BY <2>1, <2>2 DEF Inv, MutexOK
  <1>10. HungryOK'
    <2>1. \A j \in Phil : LooksRight(j)' <=> LooksRight(j)
      BY DEF LooksRight
    <2> QED
      BY <2>1, Neighbours DEF Inv, HungryOK
  <1>11. MonitorOK'
    <2>1. Signallers' = Signallers
      BY DEF Signallers
    <2>2. \A j \in Phil : pc'[j] \in {"wait", "waited"} <=> pc[j] \in {"wait", "waited"}
      OBVIOUS
    <2> QED
      BY <2>1, <2>2 DEF Inv, MonitorOK
  <1> QED
    BY <1>4, <1>5, <1>6, <1>7, <1>8, <1>9, <1>10, <1>11 DEF Inv

(* do_sleep of a philosopher. *)
LEMMA SleepInv ==
    ASSUME Inv, NEW i \in Phil, NEW from, NEW to, Sleep(i, from, to),
           (from = "think" /\ to = "take") \/ (from = "eat" /\ to = "put")
    PROVE  Inv'
  <1>1. /\ k.current = i /\ pc[i] = from /\ k' = schedule(SleepCurrent(k, "WT_TIMER"))
        /\ pc' = [pc EXCEPT ![i] = to] /\ UNCHANGED <<sem, m, state, phase, waitfor, iter, behind>>
    BY DEF Sleep, Goto
  <1>2. /\ Core /\ KOK(k) /\ waitfor \in Phil /\ pc \in [Phil -> PCs] /\ to \in PCs
        /\ "WT_TIMER" \in WaitStates \ {"0"} /\ k.current # idleproc
    BY <1>1, PhilFacts DEF Inv, Core, PCs, WaitStates
  <1>3. /\ KOK(k')
        /\ \A p \in Procs :
              /\ k'.wait_state[p] = IF p = i THEN "WT_TIMER" ELSE k.wait_state[p]
              /\ k'.state[p] = IF p = i THEN "PROC_SLEEPING" ELSE k.state[p]
    BY <1>1, <1>2, SleepKOK
  <1>4. /\ k.state[i] = "PROC_RUNNABLE" /\ k.wait_state[i] = "0" /\ ~(i < waitfor)
        /\ \A j \in Phil : pc[j] \in OnCpu => j = i
    BY <1>1, <1>2, Running
  <1>5. pc' \in [Phil -> PCs] /\ pc'[i] = to /\ \A j \in Phil \ {i} : pc'[j] = pc[j]
    BY <1>1, <1>2
  <1>6. CpuOK'
    BY <1>4, <1>5 DEF CpuOK, OnCpu
  <1>7. ReapOK'
    BY <1>1, <1>2, <1>3, <1>4, <1>5, PhilFacts DEF Core, ReapOK
  <1>8. \A j \in Phil : k'.wait_state[j] = "WT_KSEM" <=> k.wait_state[j] = "WT_KSEM"
    BY <1>3, <1>4, PhilFacts
  <1>9. \A j \in Phil : \/ pc'[j] = pc[j]
                        \/ /\ k.wait_state[j] # "WT_KSEM"
                           /\ \/ pc[j] = "think" /\ pc'[j] = "take"
                              \/ pc[j] = "eat" /\ pc'[j] = "put"
    BY <1>1, <1>4, <1>5
  <1> QED
    BY <1>1, <1>2, <1>3, <1>5, <1>6, <1>7, <1>8, <1>9, QuietInv

(* Giving up the CPU without sleeping. *)
LEMMA ScheduleKOK ==
    ASSUME NEW a, a \in SchedRecords, RunQueueOK(a), a.state[idleproc] = "PROC_RUNNABLE",
           \A p \in Procs : a.wait_state[p] # "0" <=> a.state[p] = "PROC_SLEEPING",
           NEW b, b = schedule(a)
    PROVE  KOK(b) /\ b.state = a.state /\ b.wait_state = a.wait_state
  <1>1. /\ b \in SchedRecords /\ RunQueueOK(b) /\ b.state = a.state /\ b.wait_state = a.wait_state
        /\ b.current = idleproc \/ b.state[b.current] = "PROC_RUNNABLE"
    BY ScheduleFacts
  <1> QED
    BY <1>1 DEF KOK

(* do_exit of a philosopher. *)
LEMMA QuitInv ==
    ASSUME Inv, NEW i \in Phil, quit(i)
    PROVE  Inv'
  <1>1. /\ k.current = i /\ pc[i] = "quit" /\ UNCHANGED <<sem, m, state, phase, waitfor, iter, pc, behind>>
    BY DEF quit
  <1>2. PICK z : z = [k EXCEPT !.state[i] = "PROC_ZOMBIE"]
    OBVIOUS
  <1>3. PICK y : y = IF z.wait_state[mainproc] = "WT_CHILD" THEN wakeup_proc(z, mainproc) ELSE z
    OBVIOUS
  <1>4. k' = schedule(y)
    BY <1>2, <1>3 DEF quit
  <1>5. Core /\ KOK(k) /\ k \in SchedRecords /\ RunQueueOK(k) /\ waitfor \in Phil
    BY DEF Inv, Core, KOK
  <1>6. /\ k.state[i] = "PROC_RUNNABLE" /\ k.wait_state[i] = "0"
        /\ \A j \in Phil : pc[j] \in OnCpu => j = i
    BY <1>1, <1>5, Running
  <1>7. /\ z \in SchedRecords /\ z.current = i /\ z.run_list = k.run_list /\ z.wait_state = k.wait_state
        /\ \A p \in Procs : z.state[p] = IF p = i THEN "PROC_ZOMBIE" ELSE k.state[p]
    <2>1. [k.state EXCEPT ![i] = "PROC_ZOMBIE"] \in [Procs -> ProcStates]
      BY <1>5 DEF SchedRecords, ProcStates
    <2>2. z = [k EXCEPT !.state = [k.state EXCEPT ![i] = "PROC_ZOMBIE"]]
      BY <1>2
    <2> QED
      BY <2>1, <2>2, <1>1, <1>5 DEF SchedRecords
  <1>8. RunQueueOK(z)
    BY <1>1, <1>5, <1>7, RunQueueFrame
  <1>9. /\ y \in SchedRecords /\ RunQueueOK(y)
        /\ \A p \in Phil : y.state[p] = z.state[p] /\ y.wait_state[p] = z.wait_state[p]
        /\ y.state[idleproc] = "PROC_RUNNABLE"
        /\ \A p \in Procs : y.wait_state[p] # "0" <=> y.state[p] = "PROC_SLEEPING"
    <2>1. z.state[idleproc] = "PROC_RUNNABLE"
      BY <1>5, <1>7, PhilFacts DEF KOK
    <2>2. \A p \in Procs : z.wait_state[p] # "0" <=> z.state[p] = "PROC_SLEEPING"
      BY <1>5, <1>6, <1>7 DEF KOK
    <2>3. CASE z.wait_state[mainproc] # "WT_CHILD"
      BY <2>1, <2>2, <2>3, <1>3, <1>7, <1>8
    <2>4. CASE z.wait_state[mainproc] = "WT_CHILD"
      <3>1. y = wakeup_proc(z, mainproc) /\ mainproc \in Procs
            /\ (z.state[mainproc] = "PROC_RUNNABLE" => z.wait_state[mainproc] = "0")
        BY <2>2, <2>4, <1>3, PhilFacts
      <3>2. /\ y \in SchedRecords /\ RunQueueOK(y)
            /\ \A x \in Procs : /\ y.state[x] = IF x = mainproc THEN "PROC_RUNNABLE" ELSE z.state[x]
                                /\ y.wait_state[x] = IF x = mainproc THEN "0" ELSE z.wait_state[x]
        BY <3>1, <1>7, <1>8, WakeupPointwise
      <3> QED
        BY <3>2, <2>1, <2>2, PhilFacts
    <2> QED
      BY <2>3, <2>4
  <1>10. KOK(k') /\ k'.state = y.state /\ k'.wait_state = y.wait_state
    BY <1>4, <1>9, ScheduleKOK
  <1>11. CpuOK'
    BY <1>1, <1>6 DEF CpuOK, OnCpu
  <1>12. ReapOK'
    BY <1>1, <1>5, <1>6, <1>7, <1>9, <1>10, PhilFacts DEF Core, ReapOK
  <1>13. \A j \in Phil : k'.wait_state[j] = "WT_KSEM" <=> k.wait_state[j] = "WT_KSEM"
    BY <1>7, <1>9, <1>10
  <1>14. pc' \in [Phil -> PCs] /\ \A j \in Phil : pc'[j] = pc[j]
    BY <1>1, <1>5 DEF Core
  <1> QED
    BY <1>1, <1>5, <1>10, <1>11, <1>12, <1>13, <1>14, QuietInv

(* The main thread waits in do_wait. *)
LEMMA DoWaitSleepInv ==
    ASSUME Inv, do_wait_sleep
    PROVE  Inv'
  <1>1. /\ k.current = mainproc /\ k' = schedule(SleepCurrent(k, "WT_CHILD"))
        /\ UNCHANGED <<sem, m, state, phase, waitfor, iter, pc, behind>>
    BY DEF do_wait_sleep
  <1>2. /\ Core /\ KOK(k) /\ waitfor \in Phil /\ pc \in [Phil -> PCs]
        /\ "WT_CHILD" \in WaitStates \ {"0"} /\ k.current # idleproc
    BY <1>1, PhilFacts DEF Inv, Core, WaitStates
  <1>3. /\ KOK(k')
        /\ \A p \in Procs :
              /\ k'.wait_state[p] = IF p = mainproc THEN "WT_CHILD" ELSE k.wait_state[p]
              /\ k'.state[p] = IF p = mainproc THEN "PROC_SLEEPING" ELSE k.state[p]
    BY <1>1, <1>2, SleepKOK
  <1>4. \A j \in Phil : k'.wait_state[j] = k.wait_state[j] /\ k'.state[j] = k.state[j]
    BY <1>3, PhilFacts
  <1>5. CpuOK'
    BY <1>1, <1>2, PhilFacts DEF Core, CpuOK
  <1>6. ReapOK'
    BY <1>1, <1>2, <1>4 DEF Core, ReapOK
  <1> QED
    BY <1>1, <1>2, <1>3, <1>4, <1>5, <1>6, QuietInv

(* A timer expires. *)
LEMMA TimerInv ==
    ASSUME Inv, NEW i \in Phil, run_timer_list(i)
    PROVE  Inv'
  <1>1. /\ k.wait_state[i] = "WT_TIMER" /\ k' = wakeup_proc(k, i)
        /\ UNCHANGED <<sem, m, state, phase, waitfor, iter, pc, behind>>
    BY DEF run_timer_list
  <1>2. Core /\ KOK(k) /\ waitfor \in Phil /\ pc \in [Phil -> PCs] /\ i \in Procs
    BY PhilFacts DEF Inv, Core
  <1>3. k.state[i] = "PROC_SLEEPING"
    BY <1>1, <1>2 DEF KOK
  <1>4. /\ KOK(k') /\ k'.current = k.current
        /\ \A p \in Procs :
              /\ k'.wait_state[p] = IF p = i THEN "0" ELSE k.wait_state[p]
              /\ k'.state[p] = IF p = i THEN "PROC_RUNNABLE" ELSE k.state[p]
    BY <1>1, <1>2, <1>3, WakeKOK
  <1>5. \A j \in Phil : k'.wait_state[j] = "WT_KSEM" <=> k.wait_state[j] = "WT_KSEM"
    BY <1>1, <1>4, PhilFacts
  <1>6. CpuOK'
    BY <1>1, <1>2, <1>4 DEF Core, CpuOK
  <1>7. ReapOK'
    BY <1>1, <1>2, <1>3, <1>4, PhilFacts DEF Core, ReapOK
  <1> QED
    BY <1>1, <1>2, <1>4, <1>5, <1>6, <1>7, QuietInv

(* The idle thread gives up the CPU. *)
LEMMA IdleInv ==
    ASSUME Inv, cpu_idle
    PROVE  Inv'
  <1>1. /\ k.current = idleproc /\ k' = schedule(k)
        /\ UNCHANGED <<sem, m, state, phase, waitfor, iter, pc, behind>>
    BY DEF cpu_idle
  <1>2. /\ Core /\ KOK(k) /\ waitfor \in Phil /\ pc \in [Phil -> PCs]
        /\ k \in SchedRecords /\ RunQueueOK(k) /\ k.state[idleproc] = "PROC_RUNNABLE"
        /\ \A p \in Procs : k.wait_state[p] # "0" <=> k.state[p] = "PROC_SLEEPING"
    BY DEF Inv, Core, KOK
  <1>3. KOK(k') /\ k'.state = k.state /\ k'.wait_state = k.wait_state
    BY <1>1, <1>2, ScheduleKOK
  <1>4. CpuOK'
    BY <1>1, <1>2, PhilFacts DEF Core, CpuOK
  <1>5. ReapOK'
    BY <1>1, <1>2, <1>3 DEF Core, ReapOK
  <1> QED
    BY <1>1, <1>2, <1>3, <1>4, <1>5, QuietInv

---------------------------------------------------------------------------
(* The two phases.                                                         *)

(* The threads that kernel_thread has created are runnable and in the run
   queue, in the order of their numbers. *)
LEMMA CreatedFacts ==
    ASSUME NEW a \in SchedRecords, a.current = mainproc, a.run_list = << >>,
           a.state[mainproc] = "PROC_RUNNABLE", a.state[idleproc] = "PROC_RUNNABLE",
           \A p \in Procs : a.wait_state[p] = "0",
           NEW b, b = Created(a)
    PROVE  /\ KOK(b) /\ b.current = mainproc
           /\ \A p \in Procs : b.wait_state[p] = "0" /\ b.state[p] = "PROC_RUNNABLE"
  <1>1. PICK st : st = [p \in Procs |-> IF p \in Phil THEN "PROC_RUNNABLE" ELSE a.state[p]]
    OBVIOUS
  <1>2. PICK ts : ts = [p \in Procs |-> IF p \in Phil THEN MaxTimeSlice ELSE a.time_slice[p]]
    OBVIOUS
  <1>3. PICK q : q = [i \in 1 .. N |-> i - 1]
    OBVIOUS
  <1>4. st \in [Procs -> ProcStates] /\ \A p \in Procs : st[p] = "PROC_RUNNABLE"
    BY <1>1, PhilFacts DEF ProcStates, SchedRecords
  <1>5. ts \in [Procs -> 0 .. MaxTimeSlice]
    BY <1>2, SliceAssumption DEF SchedRecords
  <1>6. /\ q \in Seq(Procs) /\ Len(q) = N /\ N \in Nat
        /\ \A i \in 1 .. N : q[i] = i - 1 /\ q[i] \in Phil
    <2>1. N \in Nat /\ \A i \in 1 .. N : i - 1 \in Phil
      BY PhilAssumption DEF Phil
    <2>2. q \in [1 .. N -> Procs]
      BY <2>1, <1>3, PhilFacts
    <2> QED
      BY <2>1, <2>2, <1>3
  <1>7. a.run_list \o q = q
    BY <1>6
  <1>8. b = [a EXCEPT !.state = st, !.time_slice = ts, !.run_list = q]
    BY <1>1, <1>2, <1>3, <1>7 DEF Created
  <1>9. /\ b \in SchedRecords /\ b.current = mainproc /\ b.state = st
        /\ b.wait_state = a.wait_state /\ b.run_list = q
    <2>1. PICK d : d = [a EXCEPT !.state = st]
      OBVIOUS
    <2>2. PICK f : f = [d EXCEPT !.time_slice = ts]
      OBVIOUS
    <2>3. d \in SchedRecords /\ d.current = mainproc /\ d.state = st /\ d.wait_state = a.wait_state
      BY <2>1, <1>4 DEF SchedRecords
    <2>4. f \in SchedRecords /\ f.current = mainproc /\ f.state = st /\ f.wait_state = a.wait_state
      BY <2>2, <2>3, <1>5 DEF SchedRecords
    <2>5. b = [f EXCEPT !.run_list = q]
      BY <2>1, <2>2, <1>8
    <2> QED
      BY <2>4, <2>5, <1>6, ZenonT(40) DEF SchedRecords
  <1>10. RunQueueOK(b)
    <2>1. \A p \in Procs : OnRunList(b, p) <=> p \in Phil
      <3>1. ASSUME NEW p \in Phil PROVE OnRunList(b, p)
        <4>1. p + 1 \in 1 .. N /\ (p + 1) - 1 = p
          BY PhilAssumption DEF Phil
        <4> QED
          BY <4>1, <1>6, <1>9 DEF OnRunList
      <3>2. ASSUME NEW p \in Procs, OnRunList(b, p) PROVE p \in Phil
        BY <3>2, <1>6, <1>9 DEF OnRunList
      <3> QED
        BY <3>1, <3>2
    <2>2. \A i, j \in 1 .. Len(b.run_list) : b.run_list[i] = b.run_list[j] => i = j
      BY <1>6, <1>9
    <2>3. \A p \in Procs : p \in Phil <=> p # mainproc /\ p # idleproc
      BY PhilFacts
    <2> QED
      BY <2>1, <2>2, <2>3, <1>4, <1>9 DEF RunQueueOK
  <1> QED
    BY <1>4, <1>9, <1>10, PhilFacts DEF KOK

(* The beginning of a phase. *)
Start ==
    /\ KOK(k) /\ k.current = mainproc
    /\ \A p \in Procs : k.wait_state[p] = "0" /\ k.state[p] = "PROC_RUNNABLE"
    /\ sem \in [Sems -> SemRecords]
    /\ \A id \in Sems : \A p \in Procs : ~InQueue(sem[id], p)
    /\ sem[Entry].value = 1
    /\ phase = "sema" => \A i \in Phil : sem[s(i)].value = 0
    /\ phase # "sema" => sem[NextSem].value = 0 /\ \A i \in Phil : sem[CvSem(i)].value = 0
    /\ m = monitor_init /\ phase \in {"sema", "condvar"} /\ waitfor = 0
    /\ state = [i \in Phil |-> "THINKING"] /\ iter = [i \in Phil |-> Times]
    /\ pc = [i \in Phil |-> "think"] /\ behind \in [Phil -> PCs]

LEMMA StartInv == Start => Inv
  <1> SUFFICES ASSUME Start PROVE Inv
    OBVIOUS
  <1>1. /\ \A i \in Phil : /\ state[i] = "THINKING" /\ iter[i] = Times /\ pc[i] = "think"
                           /\ k.wait_state[i] = "0" /\ k.state[i] = "PROC_RUNNABLE"
        /\ Times \in Nat \ {0} /\ N \in Nat \ {0, 1} /\ 0 \in Phil
    BY PhilFacts, PhilAssumption DEF Start, Phil
  <1>2. DataType
    <2>1. m \in [next_count : 0 .. N, count : [Phil -> 0 .. N]]
      BY <1>1, PhilAssumption DEF Start, monitor_init
    <2>2. iter \in [Phil -> 0 .. Times] /\ pc \in [Phil -> PCs]
      BY <1>1 DEF Start, PCs
    <2> QED
      BY <2>1, <2>2, <1>1 DEF Start, DataType
  <1>3. QOK(k, sem, phase, pc)
    <2>1. ASSUME NEW id \in Sems, NEW a \in 1 .. Len(sem[id].wait_queue) PROVE FALSE
      <3>1. sem[id].wait_queue \in Seq(Procs)
        BY DEF Start, SemRecords
      <3>2. sem[id].wait_queue[a] \in Procs
        BY <3>1
      <3> QED
        BY <3>2 DEF Start, InQueue
    <2> QED
      BY <2>1, <1>1 DEF Start, QOK
  <1>4. Core
    <2>1. ReapOK
      BY <1>1 DEF Start, ReapOK, Phil
    <2>2. CpuOK
      BY <1>1 DEF CpuOK, OnCpu
    <2> QED
      BY <2>1, <2>2, <1>1, <1>2, <1>3 DEF Core, Start, DataType
  <1>5. PhaseOK /\ StateOK /\ IterOK /\ NeighbourOK /\ HungryOK
    <2>1. PhaseOK /\ StateOK /\ IterOK
      BY <1>1 DEF PhaseOK, StateOK, IterOK
    <2>2. NeighbourOK /\ HungryOK
      BY <1>1 DEF NeighbourOK, HungryOK
    <2> QED
      BY <2>1, <2>2
  <1>6. GrantOK
    BY <1>1 DEF Start, GrantOK
  <1>7. MutexOK
    <2>1. \A i \in Phil : ~Inside(i)
      BY <1>1 DEF Inside
    <2> QED
      BY <2>1 DEF Start, MutexOK
  <1>8. MonitorOK
    <2>1. Signallers = {}
      BY <1>1 DEF Signallers
    <2>2. Cardinality({}) = 0
      BY FS_EmptySet
    <2>3. m.next_count = 0 /\ \A i \in Phil : m.count[i] = 0
      BY PhilAssumption DEF Start, monitor_init
    <2> QED
      BY <2>1, <2>2, <2>3, <1>1 DEF Start, MonitorOK
  <1> QED
    BY <1>2, <1>4, <1>5, <1>6, <1>7, <1>8 DEF Inv

LEMMA InitStart == Init => Start
  <1> SUFFICES ASSUME Init PROVE Start
    OBVIOUS
  <1>1. PICK a : a = [current |-> mainproc,
                      state |-> [p \in Procs |-> IF p \in Phil THEN "FREE" ELSE "PROC_RUNNABLE"],
                      wait_state |-> [p \in Procs |-> "0"],
                      run_list |-> << >>,
                      time_slice |-> [p \in Procs |-> 0],
                      need_resched |-> [p \in Procs |-> FALSE],
                      panic |-> FALSE]
    OBVIOUS
  <1>2. /\ a \in SchedRecords /\ a.current = mainproc /\ a.run_list = << >>
        /\ a.state[mainproc] = "PROC_RUNNABLE" /\ a.state[idleproc] = "PROC_RUNNABLE"
        /\ \A p \in Procs : a.wait_state[p] = "0"
    <2>1. /\ [p \in Procs |-> IF p \in Phil THEN "FREE" ELSE "PROC_RUNNABLE"] \in [Procs -> ProcStates]
          /\ [p \in Procs |-> "0"] \in [Procs -> WaitStates]
          /\ [p \in Procs |-> 0] \in [Procs -> 0 .. MaxTimeSlice]
          /\ [p \in Procs |-> FALSE] \in [Procs -> BOOLEAN]
          /\ << >> \in Seq(Procs)
      BY SliceAssumption DEF ProcStates, WaitStates
    <2>2. a \in SchedRecords
      BY <2>1, <1>1, PhilFacts DEF SchedRecords
    <2> QED
      BY <2>2, <1>1, PhilFacts
  <1>3. k = Created(a)
    BY <1>1 DEF Init
  <1>4. /\ KOK(k) /\ k.current = mainproc
        /\ \A p \in Procs : k.wait_state[p] = "0" /\ k.state[p] = "PROC_RUNNABLE"
    BY <1>2, <1>3, CreatedFacts
  <1>5. /\ sem \in [Sems -> SemRecords]
        /\ \A id \in Sems : \A p \in Procs : ~InQueue(sem[id], p)
        /\ \A id \in Sems : sem[id].value = IF id \in {mutex, Mutex} THEN 1 ELSE 0
    <2>1. sem = [id \in Sems |-> IF id \in SemaSems THEN sem_init(IF id = mutex THEN 1 ELSE 0)
                                                    ELSE monitor_init_sem(id)]
      BY DEF Init, Sems
    <2>2. mutex \in SemaSems /\ Mutex \notin SemaSems
      BY Names DEF SemaSems
    <2>3. ASSUME NEW id \in Sems
          PROVE  /\ sem[id] \in SemRecords /\ \A p : ~InQueue(sem[id], p)
                 /\ sem[id].value = IF id \in {mutex, Mutex} THEN 1 ELSE 0
      <3>1. PICK n \in {0, 1} : n = IF id \in {mutex, Mutex} THEN 1 ELSE 0
        OBVIOUS
      <3>2. PICK u : u = sem[id]
        OBVIOUS
      <3>3. u = sem_init(n)
        BY <3>1, <3>2, <2>1, <2>2 DEF monitor_init_sem
      <3>4. u \in SemRecords /\ u.value = n /\ \A p : ~InQueue(u, p)
        BY <3>3, SemInitFacts
      <3> QED
        BY <3>1, <3>2, <3>4
    <2> QED
      BY <2>1, <2>3
  <1>6. sem[Entry].value = 1 /\ \A i \in Phil : sem[s(i)].value = 0
    BY <1>5, Names DEF Init, Entry
  <1>7. behind \in [Phil -> PCs]
    BY DEF Init, PCs
  <1> QED
    BY <1>4, <1>5, <1>6, <1>7 DEF Init, Start

(* do_wait reaps a philosopher; the last one ends the phase. *)
LEMMA ReapInv ==
    ASSUME Inv, do_wait_reap
    PROVE  Inv'
  <1>1. PICK r : r = [k EXCEPT !.state[waitfor] = "FREE"]
    OBVIOUS
  <1>2. k.current = mainproc /\ phase # "done" /\ k.state[waitfor] = "PROC_ZOMBIE"
    BY DEF do_wait_reap
  <1>3. /\ Core /\ KOK(k) /\ k \in SchedRecords /\ RunQueueOK(k) /\ waitfor \in Phil
        /\ pc \in [Phil -> PCs] /\ k.state[mainproc] = "PROC_RUNNABLE"
    BY <1>2 DEF Inv, Core, KOK
  <1>4. /\ r \in SchedRecords /\ r.current = mainproc /\ r.run_list = k.run_list /\ r.wait_state = k.wait_state
        /\ \A p \in Procs : r.state[p] = IF p = waitfor THEN "FREE" ELSE k.state[p]
    <2>1. [k.state EXCEPT ![waitfor] = "FREE"] \in [Procs -> ProcStates]
      BY <1>3 DEF SchedRecords, ProcStates
    <2>2. r = [k EXCEPT !.state = [k.state EXCEPT ![waitfor] = "FREE"]]
      BY <1>1
    <2> QED
      BY <2>1, <2>2, <1>2, <1>3 DEF SchedRecords
  <1>5. RunQueueOK(r)
    BY <1>2, <1>3, <1>4, RunQueueFrame
  <1>6. KOK(r)
    BY <1>2, <1>3, <1>4, <1>5, PhilFacts DEF KOK
  <1>7. \A j \in Phil : pc[j] \notin OnCpu
    BY <1>2, <1>3, PhilFacts DEF Core, CpuOK
  <1>8. pc[waitfor] = "quit"
    BY <1>2, <1>3 DEF Core, ReapOK
  <1>9. CASE waitfor < N - 1
    <2>1. k' = r /\ waitfor' = waitfor + 1 /\ UNCHANGED <<sem, m, state, phase, iter, pc, behind>>
      BY <1>1, <1>9 DEF do_wait_reap
    <2>2. waitfor' \in Phil
      BY <2>1, <1>3, <1>9, PhilAssumption DEF Phil
    <2>3. CpuOK'
      BY <2>1, <1>7 DEF CpuOK
    <2>4. ReapOK'
      <3> SUFFICES ASSUME NEW j \in Phil
                   PROVE  /\ r.state[j] \in {"PROC_ZOMBIE", "FREE"} => pc[j] = "quit"
                          /\ j < waitfor + 1 => r.state[j] = "FREE"
        BY <2>1 DEF ReapOK
      <3>1. /\ k.state[j] \in {"PROC_ZOMBIE", "FREE"} => pc[j] = "quit"
            /\ j < waitfor => k.state[j] = "FREE"
        BY <1>3 DEF Core, ReapOK
      <3>2. j < waitfor + 1 => j = waitfor \/ j < waitfor
        BY <1>3 DEF Phil
      <3> QED
        BY <3>1, <3>2, <1>4, <1>8, PhilFacts
    <2>5. \A j \in Phil : k'.wait_state[j] = "WT_KSEM" <=> k.wait_state[j] = "WT_KSEM"
      BY <2>1, <1>4
    <2> QED
      BY <2>1, <2>2, <2>3, <2>4, <2>5, <1>3, <1>6, QuietInv
  <1>10. CASE ~(waitfor < N - 1) /\ phase = "condvar"
    <2>1. k' = r /\ phase' = "done" /\ UNCHANGED <<sem, m, state, waitfor, iter, pc, behind>>
      BY <1>1, <1>10 DEF do_wait_reap
    <2>2. CpuOK'
      BY <2>1, <1>7 DEF CpuOK
    <2>3. ReapOK'
      <3> SUFFICES ASSUME NEW j \in Phil
                   PROVE  /\ r.state[j] \in {"PROC_ZOMBIE", "FREE"} => pc[j] = "quit"
                          /\ j < waitfor => r.state[j] = "FREE"
        BY <2>1 DEF ReapOK
      <3> QED
        BY <1>3, <1>4, <1>8, PhilFacts DEF Core, ReapOK
    <2>4. QOK(k', sem', phase', pc')
      <3>1. \A j \in Phil : Place(phase', pc'[j], j) = Place(phase, pc[j], j)
        BY <2>1, <1>10 DEF Place
      <3> QED
        BY <3>1, <2>1, <1>3, <1>4 DEF Core, QOK
    <2>5. Core'
      BY <2>1, <2>2, <2>3, <2>4, <1>3, <1>6 DEF Core
    <2>6. DataType' /\ PhaseOK' /\ IterOK' /\ NeighbourOK' /\ GrantOK'
      BY <2>1, <1>10 DEF Inv, DataType, PhaseOK, IterOK, NeighbourOK, GrantOK
    <2>7. StateOK'
      BY <2>1, <1>4, <1>10 DEF Inv, StateOK, Asleep
    <2>8. MutexOK'
      <3>1. \A j \in Phil : Inside(j)' <=> Inside(j)
        BY <2>1, <1>4 DEF Inside, Asleep
      <3>2. sem'[Entry'].value = sem[Entry].value
        BY <2>1, <1>10 DEF Entry
      <3> QED
        BY <3>1, <3>2 DEF Inv, MutexOK
    <2>9. HungryOK'
      BY <2>1 DEF Inv, HungryOK, LooksRight
    <2>10. MonitorOK'
      <3>1. Signallers' = Signallers
        BY <2>1 DEF Signallers
      <3> QED
        BY <3>1, <2>1, <1>10 DEF Inv, MonitorOK
    <2> QED
      BY <2>5, <2>6, <2>7, <2>8, <2>9, <2>10 DEF Inv
  <1>11. CASE ~(waitfor < N - 1) /\ phase = "sema"
    <2>1. /\ k' = Created(r) /\ phase' = "condvar" /\ waitfor' = 0 /\ m' = monitor_init
          /\ sem' = [id \in DOMAIN sem |-> IF id \in MonitorSems THEN monitor_init_sem(id) ELSE sem[id]]
          /\ state' = [i \in Phil |-> "THINKING"] /\ iter' = [i \in Phil |-> Times]
          /\ pc' = [i \in Phil |-> "think"] /\ behind' = behind
      BY <1>1, <1>11 DEF do_wait_reap
    \* Every philosopher has been reaped, so the run queue is empty.
    <2>2. \A j \in Phil : r.state[j] = "FREE" /\ k.state[j] # "PROC_SLEEPING"
      <3> SUFFICES ASSUME NEW j \in Phil PROVE r.state[j] = "FREE" /\ k.state[j] # "PROC_SLEEPING"
        OBVIOUS
      <3>1. j = waitfor \/ j < waitfor
        BY <1>3, <1>11, PhilAssumption DEF Phil
      <3>2. j < waitfor => k.state[j] = "FREE"
        BY <1>3 DEF Core, ReapOK
      <3> QED
        BY <3>1, <3>2, <1>2, <1>4, PhilFacts
    <2>3. \A p \in Procs : k.wait_state[p] = "0"
      BY <2>2, <1>3, PhilFacts DEF KOK
    <2>4. r.run_list = << >>
      <3>1. \A p \in Procs : ~OnRunList(r, p)
        BY <2>2, <1>4, <1>5, PhilFacts DEF RunQueueOK
      <3>2. r.run_list \in Seq(Procs)
        BY <1>4 DEF SchedRecords
      <3>3. ASSUME r.run_list # << >> PROVE FALSE
        <4>1. 1 \in 1 .. Len(r.run_list) /\ r.run_list[1] \in Procs
          BY <3>2, <3>3
        <4> QED
          BY <4>1, <3>1 DEF OnRunList
      <3> QED
        BY <3>3
    <2>5. /\ r.state[mainproc] = "PROC_RUNNABLE" /\ r.state[idleproc] = "PROC_RUNNABLE"
          /\ \A p \in Procs : r.wait_state[p] = "0"
      BY <2>3, <1>3, <1>4, <1>6, PhilFacts DEF KOK
    <2>6. /\ KOK(k') /\ k'.current = mainproc
          /\ \A p \in Procs : k'.wait_state[p] = "0" /\ k'.state[p] = "PROC_RUNNABLE"
      BY <2>1, <2>4, <2>5, <1>4, CreatedFacts
    <2>7. sem \in [Sems -> SemRecords] /\ \A id \in Sems : \A p \in Procs : ~InQueue(sem[id], p)
      BY <2>3, <1>3 DEF Core, QOK
    <2>8. ASSUME NEW id \in MonitorSems
          PROVE  /\ sem'[id] \in SemRecords /\ \A p : ~InQueue(sem'[id], p)
                 /\ sem'[id].value = IF id = Mutex THEN 1 ELSE 0
      <3>1. PICK n \in {0, 1} : n = IF id = Mutex THEN 1 ELSE 0
        OBVIOUS
      <3>2. PICK u : u = sem'[id]
        OBVIOUS
      <3>3. u = sem_init(n)
        BY <3>1, <3>2, <2>1, <2>7 DEF Sems, monitor_init_sem
      <3>4. u \in SemRecords /\ u.value = n /\ \A p : ~InQueue(u, p)
        BY <3>3, SemInitFacts
      <3> QED
        BY <3>1, <3>2, <3>4
    <2>9. \A id \in Sems \ MonitorSems : sem'[id] = sem[id]
      BY <2>1, <2>7
    <2>10. sem' \in [Sems -> SemRecords] /\ \A id \in Sems : \A p \in Procs : ~InQueue(sem'[id], p)
      <3>1. sem' = [id \in Sems |-> sem'[id]]
        BY <2>1, <2>7
      <3>2. \A id \in Sems : sem'[id] \in SemRecords /\ \A p \in Procs : ~InQueue(sem'[id], p)
        BY <2>7, <2>8, <2>9
      <3> QED
        BY <3>1, <3>2
    <2>11. /\ sem'[Mutex].value = 1 /\ sem'[NextSem].value = 0
           /\ \A i \in Phil : sem'[CvSem(i)].value = 0
      <3>1. Mutex \in MonitorSems /\ NextSem \in MonitorSems /\ \A i \in Phil : CvSem(i) \in MonitorSems
        BY PhilAssumption DEF MonitorSems
      <3> QED
        BY <3>1, <2>8, Names
    <2>12. behind' \in [Phil -> PCs]
      BY <2>1 DEF Inv, DataType
    <2>13. Start'
      BY <2>1, <2>6, <2>10, <2>11, <2>12 DEF Start, Entry
    <2> QED
      BY <2>13, StartInv, PTL
  <1>12. phase \in {"sema", "condvar"}
    BY <1>2 DEF Inv, DataType
  <1> QED
    BY <1>9, <1>10, <1>11, <1>12

---------------------------------------------------------------------------
(* Every step keeps the invariant.                                         *)

LEMMA SemaInv ==
    ASSUME Inv, NEW i \in Phil,
           \/ take_sema(i) \/ take_sema_in(i) \/ take_sema_out(i) \/ take_sema_wait(i)
           \/ put_sema(i) \/ put_sema_left(i) \/ put_sema_right(i) \/ put_sema_out(i)
    PROVE  Inv'
  <1> USE DEF At, Goto
  <1>1. CASE take_sema(i) \/ put_sema(i)
    <2>1. PICK c : c = IF pc[i] = "take" THEN "take_in" ELSE "put_in"
      OBVIOUS
    <2>2. /\ (pc[i] = "take" /\ c = "take_in") \/ (pc[i] = "put" /\ c = "put_in")
          /\ k.current = i /\ Down(i, Entry) /\ pc' = [pc EXCEPT ![i] = c]
          /\ UNCHANGED <<m, state, phase, waitfor, iter, behind>>
      BY <1>1, <2>1 DEF take_sema, put_sema, Entry
    <2> QED
      BY <2>2, EnterInv
  <1>2. CASE take_sema_in(i)
    <2>1. PICK st : st = [state EXCEPT ![i] = "HUNGRY"]
      OBVIOUS
    <2>2. /\ k.current = i /\ phase = "sema"
          /\ Tests(i, i, st, "take_out") /\ TestSema(i, i, st, "take_out")
      BY <1>2, <2>1 DEF take_sema_in, Tests
    <2> QED
      BY <2>2, TestSemaInv
  <1>3. CASE put_sema_left(i)
    <2>1. PICK st : st = [state EXCEPT ![i] = "THINKING"]
      OBVIOUS
    <2>2. /\ k.current = i /\ phase = "sema"
          /\ Tests(i, LEFT(i), st, "put_right") /\ TestSema(i, LEFT(i), st, "put_right")
      BY <1>3, <2>1 DEF put_sema_left, Tests
    <2> QED
      BY <2>2, TestSemaInv
  <1>4. CASE put_sema_right(i)
    <2>1. PICK st : st = state
      OBVIOUS
    <2>2. /\ k.current = i /\ phase = "sema"
          /\ Tests(i, RIGHT(i), st, "put_out") /\ TestSema(i, RIGHT(i), st, "put_out")
      BY <1>4, <2>1 DEF put_sema_right, Tests
    <2> QED
      BY <2>2, TestSemaInv
  <1>5. CASE take_sema_out(i) \/ put_sema_out(i)
    <2>1. PICK c : c = IF pc[i] = "take_out" THEN "take_wait" ELSE IF iter[i] > 1 THEN "think" ELSE "quit"
      OBVIOUS
    <2>2. PICK e \in Sems : e = mutex
      BY Names
    <2>3. /\ k.current = i /\ e = (IF phase = "sema" THEN mutex ELSE LeaveSem(m)) /\ Up(e)
          /\ pc' = [pc EXCEPT ![i] = c] /\ phase' = phase /\ waitfor' = waitfor
          /\ state' = state /\ behind' = behind
          /\ \/ /\ phase = "sema" /\ pc[i] = "take_out" /\ c = "take_wait"
                /\ m' = m /\ iter' = iter
             \/ /\ pc[i] = "put_out" /\ c = IF iter[i] > 1 THEN "think" ELSE "quit"
                /\ m' = m /\ iter' = [iter EXCEPT ![i] = @ - 1]
      BY <1>5, <2>1, <2>2 DEF take_sema_out, put_sema_out, Again
    <2> QED
      BY <2>2, <2>3, LeaveInv
  <1>6. CASE take_sema_wait(i)
    <2>1. PICK e \in Sems : e = s(i)
      BY Names
    <2>2. /\ k.current = i /\ Down(i, e) /\ pc' = [pc EXCEPT ![i] = "eat"]
          /\ m' = m /\ state' = state /\ phase' = phase /\ waitfor' = waitfor
          /\ iter' = iter /\ behind' = behind /\ WaitsAt(i, "eat", e)
      BY <1>6, <2>1 DEF take_sema_wait, WaitsAt
    <2> QED
      BY <2>1, <2>2, WaitInv
  <1> QED
    BY <1>1, <1>2, <1>3, <1>4, <1>5, <1>6

LEMMA CondvarInv ==
    ASSUME Inv, NEW i \in Phil,
           \/ take_condvar(i) \/ take_condvar_in(i) \/ take_condvar_out(i)
           \/ cond_wait(i) \/ cond_wait_down(i) \/ cond_wait_end(i)
           \/ cond_signal_down(i) \/ cond_signal_end(i)
           \/ put_condvar(i) \/ put_condvar_left(i) \/ put_condvar_right(i) \/ put_condvar_out(i)
    PROVE  Inv'
  <1> USE DEF At, Goto
  <1>1. CASE take_condvar(i) \/ put_condvar(i)
    <2>1. PICK c : c = IF pc[i] = "take" THEN "take_in" ELSE "put_in"
      OBVIOUS
    <2>2. /\ (pc[i] = "take" /\ c = "take_in") \/ (pc[i] = "put" /\ c = "put_in")
          /\ k.current = i /\ Down(i, Entry) /\ pc' = [pc EXCEPT ![i] = c]
          /\ UNCHANGED <<m, state, phase, waitfor, iter, behind>>
      BY <1>1, <2>1 DEF take_condvar, put_condvar, Entry
    <2> QED
      BY <2>2, EnterInv
  <1>2. CASE take_condvar_in(i)
    <2>1. PICK st : st = [state EXCEPT ![i] = "HUNGRY"]
      OBVIOUS
    <2>2. /\ k.current = i /\ phase = "condvar"
          /\ Tests(i, i, st, "take_tested") /\ TestCondvar(i, i, st, "take_tested")
      BY <1>2, <2>1 DEF take_condvar_in, Tests
    <2> QED
      BY <2>2, TestCondvarInv
  <1>3. CASE put_condvar_left(i)
    <2>1. PICK st : st = [state EXCEPT ![i] = "THINKING"]
      OBVIOUS
    <2>2. /\ k.current = i /\ phase = "condvar"
          /\ Tests(i, LEFT(i), st, "put_right") /\ TestCondvar(i, LEFT(i), st, "put_right")
      BY <1>3, <2>1 DEF put_condvar_left, Tests
    <2> QED
      BY <2>2, TestCondvarInv
  <1>4. CASE put_condvar_right(i)
    <2>1. PICK st : st = state
      OBVIOUS
    <2>2. /\ k.current = i /\ phase = "condvar"
          /\ Tests(i, RIGHT(i), st, "put_out") /\ TestCondvar(i, RIGHT(i), st, "put_out")
      BY <1>4, <2>1 DEF put_condvar_right, Tests
    <2> QED
      BY <2>2, TestCondvarInv
  <1>5. PICK e \in Sems : e = LeaveSem(m)
    BY Names DEF LeaveSem
  <1>6. CASE cond_wait(i)
    <2>1. /\ k.current = i /\ e = (IF phase = "sema" THEN mutex ELSE LeaveSem(m)) /\ Up(e)
          /\ pc' = [pc EXCEPT ![i] = "wait"] /\ phase' = phase /\ waitfor' = waitfor
          /\ state' = state /\ behind' = behind
          /\ phase # "sema" /\ pc[i] = "take_tested" /\ state[i] = "HUNGRY"
          /\ m' = wait_enter(m, i) /\ iter' = iter
      BY <1>5, <1>6 DEF cond_wait
    <2> QED
      BY <2>1, <1>5, LeaveInv
  <1>7. CASE take_condvar_out(i)
    <2>1. /\ k.current = i /\ e = (IF phase = "sema" THEN mutex ELSE LeaveSem(m)) /\ Up(e)
          /\ pc' = [pc EXCEPT ![i] = "eat"] /\ phase' = phase /\ waitfor' = waitfor
          /\ state' = state /\ behind' = behind
          /\ phase # "sema" /\ m' = m /\ iter' = iter
          /\ pc[i] = "take_out" \/ (pc[i] = "take_tested" /\ state[i] # "HUNGRY")
      BY <1>5, <1>7 DEF take_condvar_out
    <2> QED
      BY <2>1, <1>5, LeaveInv
  <1>8. CASE put_condvar_out(i)
    <2>1. PICK c : c = IF iter[i] > 1 THEN "think" ELSE "quit"
      OBVIOUS
    <2>2. /\ k.current = i /\ e = (IF phase = "sema" THEN mutex ELSE LeaveSem(m)) /\ Up(e)
          /\ pc' = [pc EXCEPT ![i] = c] /\ phase' = phase /\ waitfor' = waitfor
          /\ state' = state /\ behind' = behind
          /\ pc[i] = "put_out" /\ m' = m /\ iter' = [iter EXCEPT ![i] = @ - 1]
      BY <2>1, <1>5, <1>8 DEF put_condvar_out, Again
    <2> QED
      BY <2>1, <2>2, <1>5, LeaveInv
  <1>9. CASE cond_wait_down(i)
    <2>1. PICK f \in Sems : f = CvSem(i)
      BY Names
    <2>2. /\ k.current = i /\ Down(i, f) /\ pc' = [pc EXCEPT ![i] = "waited"]
          /\ m' = m /\ state' = state /\ phase' = phase /\ waitfor' = waitfor
          /\ iter' = iter /\ behind' = behind /\ WaitsAt(i, "waited", f)
      BY <1>9, <2>1 DEF cond_wait_down, WaitsAt
    <2> QED
      BY <2>1, <2>2, WaitInv
  <1>10. CASE cond_signal_down(i)
    <2>1. PICK f \in Sems : f = NextSem
      BY Names
    <2>2. /\ k.current = i /\ Down(i, f) /\ pc' = [pc EXCEPT ![i] = "signalled"]
          /\ m' = m /\ state' = state /\ phase' = phase /\ waitfor' = waitfor
          /\ iter' = iter /\ behind' = behind /\ WaitsAt(i, "signalled", f)
      BY <1>10, <2>1 DEF cond_signal_down, WaitsAt
    <2> QED
      BY <2>1, <2>2, WaitInv
  <1> QED
    BY <1>1, <1>2, <1>3, <1>4, <1>6, <1>7, <1>8, <1>9, <1>10, SignalEndInv, WaitEndInv

LEMMA NextInv == Inv /\ [Next]_vars => Inv'
  <1> SUFFICES ASSUME Inv, [Next]_vars PROVE Inv'
    OBVIOUS
  <1>1. CASE UNCHANGED vars
    BY <1>1 DEF vars, Inv, DataType, Core, ReapOK, CpuOK, PhaseOK, StateOK, GrantOK, MutexOK,
                NeighbourOK, HungryOK, MonitorOK, IterOK, Asleep, Entry, Inside, LooksRight, Signallers
  <1>2. ASSUME NEW i \in Phil, think(i) \/ eat(i) PROVE Inv'
    BY <1>2, SleepInv DEF think, eat
  <1>3. ASSUME NEW i \in Phil, Philosopher(i) PROVE Inv'
    BY <1>2, <1>3, QuitInv, SemaInv, CondvarInv DEF Philosopher
  <1> QED
    BY <1>1, <1>3, ReapInv, DoWaitSleepInv, TimerInv, IdleInv DEF Next, CPU, Done

(* Every step of the philosophers, of check_sync and of the clock keeps the
   invariant. *)
THEOREM Invariance == Spec => []Inv
  <1>1. Init => Inv
    BY InitStart, StartInv
  <1> QED
    BY <1>1, NextInv, PTL DEF Spec

---------------------------------------------------------------------------
(* What the invariant says.                                                *)

(* A philosopher is in the queue of a semaphore when it sleeps there. *)
LEMMA Queued ==
    ASSUME Inv, NEW i \in Phil, NEW id \in Sems
    PROVE  InQueue(sem[id], i) <=> k.wait_state[i] = "WT_KSEM" /\ Place(phase, pc[i], i) = id
  BY PhilFacts DEF Inv, Core, QOK

(* Neighbours never use a fork at the same time, in either kind of
   philosophers, for any number of them and of meals: from the return of
   take_forks to put_forks the state array says EATING, and phi_test lets
   nobody eat beside an eating neighbour. *)
THEOREM ForksExclusiveCorrect == Spec => []ForksExclusive
  <1>1. Inv => ForksExclusive
    <2> SUFFICES ASSUME Inv, NEW i \in Phil, HasForks(i)
                 PROVE  state[i] = "EATING" /\ ~HasForks(LEFT(i)) /\ ~HasForks(RIGHT(i))
      BY DEF ForksExclusive
    <2>1. ASSUME NEW j \in Phil, HasForks(j) PROVE state[j] = "EATING"
      <3>1. pc[j] \in {"eat", "put", "put_in"} /\ ~InQueue(sem[s(j)], j) /\ s(j) \in Sems
        BY <2>1, Names DEF HasForks
      <3>2. pc[j] = "eat" => k.wait_state[j] # "WT_KSEM"
        BY <3>1, Queued, Sleepers
      <3> QED
        BY <3>1, <3>2 DEF Inv, StateOK, Asleep
    <2>2. state[i] = "EATING" /\ state[RIGHT(i)] # "EATING"
      BY <2>1 DEF Inv, NeighbourOK
    <2>3. state[LEFT(i)] # "EATING"
      BY <2>2, Neighbours DEF Inv, NeighbourOK
    <2> QED
      BY <2>1, <2>2, <2>3, Neighbours
  <1> QED
    BY <1>1, Invariance, PTL

(* While nobody is inside the critical section or the monitor, every hungry
   philosopher has an eating neighbour: phi_test, called for oneself in
   take_forks and for both neighbours in put_forks, misses nobody. *)
THEOREM WorkConservingCorrect == Spec => []WorkConserving
  <1>1. Inv => WorkConserving
    <2> SUFFICES ASSUME Inv, sem[Entry].value = 1, NEW i \in Phil, state[i] = "HUNGRY"
                 PROVE  state[LEFT(i)] = "EATING" \/ state[RIGHT(i)] = "EATING"
      BY DEF WorkConserving, Entry
    <2>1. PICK j \in Phil : j = LEFT(i)
      BY Neighbours
    <2>2. ~Inside(j)
      BY DEF Inv, MutexOK
    <2>3. pc[j] \notin {"signal", "signalled"}
      <3>1. CASE phase = "sema"
        BY <3>1 DEF Inv, PhaseOK
      <3>2. CASE phase # "sema"
        BY <3>2 DEF Inv, MonitorOK, Signallers, Entry
      <3> QED
        BY <3>1, <3>2
    <2>4. ~LooksRight(j)
      BY <2>2, <2>3 DEF LooksRight, Inside
    <2> QED
      BY <2>1, <2>4 DEF Inv, HungryOK
  <1> QED
    BY <1>1, Invariance, PTL

(* One thread is active in the monitor or its mutex is free, and the counters
   and semaphores of the monitor say who waits: cond_wait and cond_signal pass
   control to exactly one thread and store no signal. *)
THEOREM OneActiveCorrect == Spec => []OneActive
  <1>1. Inv => OneActive
    <2> SUFFICES ASSUME Inv PROVE OneActive
      OBVIOUS
    <2>1. TypeOK
      <3>1. k \in SchedRecords /\ sem \in [Sems -> SemRecords]
        BY DEF Inv, Core, KOK, QOK
      <3>2. ASSUME NEW id \in DOMAIN sem PROVE IsSem(sem[id])
        <4>1. sem[id] \in SemRecords
          BY <3>1
        <4> QED
          BY <4>1 DEF SemRecords, IsSem
      <3> QED
        BY <3>1, <3>2 DEF TypeOK, Inv, DataType
    <2>2. ASSUME phase = "condvar"
          PROVE  /\ sem[Mutex].value + Cardinality(Active) = 1
                 /\ m.next_count = Cardinality({i \in Phil : pc[i] \in {"signal", "signalled"}})
                 /\ \A i \in Phil : m.count[i] = IF pc[i] \in {"wait", "waited"} THEN 1 ELSE 0
                 /\ \A id \in MonitorSems \ {Mutex} : sem[id].value = 0
      <3>1. ASSUME NEW i \in Phil PROVE i \in Active <=> Inside(i)
        <4>1. Mutex \in Sems /\ NextSem \in Sems /\ CvSem(i) \in Sems
          BY Names
        <4>2. /\ pc[i] \in {"take_in", "put_in"} => (InQueue(sem[Mutex], i) <=> Asleep(i))
              /\ pc[i] = "signalled" => (InQueue(sem[NextSem], i) <=> Asleep(i))
              /\ pc[i] = "waited" => (InQueue(sem[CvSem(i)], i) <=> Asleep(i))
          BY <4>1, <2>2, Queued DEF Place, Asleep
        <4> QED
          BY <4>2 DEF Active, Inside
      <3>2. sem[Mutex].value + Cardinality(Active) = 1
        <4>1. PICK A : A = Active
          OBVIOUS
        <4>2. A \subseteq Phil
          BY <4>1 DEF Active
        <4>3. CASE sem[Mutex].value = 1
          <5>1. A = {}
            BY <4>1, <4>2, <4>3, <3>1, <2>2 DEF Inv, MutexOK, Entry
          <5>2. Cardinality(A) = 0
            BY <5>1, FS_EmptySet
          <5> QED
            BY <5>2, <4>1, <4>3
        <4>4. CASE sem[Mutex].value = 0
          <5>1. PICK i \in Phil : Inside(i)
            BY <4>4, <2>2 DEF Inv, MutexOK, Entry
          <5>2. A = {i}
            BY <5>1, <4>1, <4>2, <3>1 DEF Inv, MutexOK
          <5>3. Cardinality(A) = 1
            BY <5>2, FS_Singleton
          <5> QED
            BY <5>3, <4>1, <4>4
        <4> QED
          BY <4>3, <4>4, <2>2 DEF Inv, MutexOK, Entry
      <3>3. \A id \in MonitorSems \ {Mutex} : sem[id].value = 0
        BY <2>2, PhilAssumption DEF MonitorSems, Inv, MonitorOK
      <3> QED
        BY <3>2, <3>3, <2>2 DEF Inv, MonitorOK, Signallers
    <2> QED
      BY <2>1, <2>2 DEF OneActive
  <1> QED
    BY <1>1, Invariance, PTL

============================================================================
