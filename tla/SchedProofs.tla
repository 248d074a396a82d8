---------------------------- MODULE SchedProofs ----------------------------
(***************************************************************************)
(* Facts about the operators of module Sched, for every set of processes:  *)
(* each of them yields a well-typed record and keeps the run queue         *)
(* consistent.  Every component that uses the scheduler cites them.        *)
(***************************************************************************)
EXTENDS Sched, TLAPS

(* A failed assert only sets the panic flag. *)
LEMMA AssertFacts ==
    ASSUME NEW k \in SchedRecords, NEW e
    PROVE  /\ Assert_(k, e) \in SchedRecords
           /\ Assert_(k, e).current = k.current
           /\ Assert_(k, e).state = k.state
           /\ Assert_(k, e).wait_state = k.wait_state
           /\ Assert_(k, e).run_list = k.run_list
           /\ Assert_(k, e).time_slice = k.time_slice
           /\ Assert_(k, e).need_resched = k.need_resched
  BY DEF Assert_, SchedRecords

(* RR_enqueue appends p and touches no state. *)
LEMMA EnqueueFacts ==
    ASSUME NEW k \in SchedRecords, NEW p \in Procs
    PROVE  /\ RR_enqueue(k, p) \in SchedRecords
           /\ RR_enqueue(k, p).current = k.current
           /\ RR_enqueue(k, p).state = k.state
           /\ RR_enqueue(k, p).wait_state = k.wait_state
           /\ RR_enqueue(k, p).run_list = Append(k.run_list, p)
  <1> DEFINE a == Assert_(k, ~OnRunList(k, p))
             slice == [k.time_slice EXCEPT ![p] = IF @ = 0 THEN MaxTimeSlice ELSE @]
             b == [a EXCEPT !.run_list = Append(k.run_list, p), !.time_slice = slice]
  <1>1. /\ a \in SchedRecords /\ a.current = k.current /\ a.state = k.state
        /\ a.wait_state = k.wait_state
    BY AssertFacts
  <1>2. RR_enqueue(k, p) = b
    BY Zenon DEF RR_enqueue
  <1>3. slice \in [Procs -> 0 .. MaxTimeSlice] /\ Append(k.run_list, p) \in Seq(Procs)
    BY SliceAssumption DEF SchedRecords
  <1> HIDE DEF a, slice
  <1>4. /\ b \in SchedRecords
        /\ b.current = a.current /\ b.state = a.state /\ b.wait_state = a.wait_state
        /\ b.run_list = Append(k.run_list, p)
    BY <1>1, <1>3 DEF SchedRecords
  <1> QED
    BY <1>1, <1>2, <1>4

(* Appending a process that is runnable, not on the CPU and not yet queued
   makes the run queue consistent again. *)
LEMMA AppendQueue ==
    ASSUME NEW q \in Seq(Procs), NEW p \in Procs,
           \A i \in 1 .. Len(q) : q[i] # p,
           \A i, j \in 1 .. Len(q) : q[i] = q[j] => i = j,
           NEW r, r = Append(q, p)
    PROVE  /\ \A x \in Procs : (\E i \in 1 .. Len(r) : r[i] = x)
                                <=> (x = p \/ \E i \in 1 .. Len(q) : q[i] = x)
           /\ \A i, j \in 1 .. Len(r) : r[i] = r[j] => i = j
  <1>1. /\ Len(q) \in Nat /\ Len(r) = Len(q) + 1 /\ r[Len(q) + 1] = p
        /\ \A i \in 1 .. Len(q) : r[i] = q[i]
    OBVIOUS
  <1>2. ASSUME NEW x \in Procs
        PROVE  (\E i \in 1 .. Len(r) : r[i] = x)
                  <=> (x = p \/ \E i \in 1 .. Len(q) : q[i] = x)
    <2>1. ASSUME NEW i \in 1 .. Len(r), r[i] = x
          PROVE  x = p \/ \E j \in 1 .. Len(q) : q[j] = x
      <3>1. CASE i = Len(q) + 1
        BY <3>1, <2>1, <1>1
      <3>2. CASE i # Len(q) + 1
        BY <3>2, <2>1, <1>1
      <3> QED
        BY <3>1, <3>2
    <2>2. ASSUME x = p PROVE \E i \in 1 .. Len(r) : r[i] = x
      BY <2>2, <1>1
    <2>3. ASSUME NEW j \in 1 .. Len(q), q[j] = x PROVE \E i \in 1 .. Len(r) : r[i] = x
      BY <2>3, <1>1
    <2> QED
      BY <2>1, <2>2, <2>3
  <1>3. ASSUME NEW i \in 1 .. Len(r), NEW j \in 1 .. Len(r), r[i] = r[j]
        PROVE  i = j
    BY <1>1, <1>3
  <1> QED
    BY <1>2, <1>3

(* Taking the head of a queue without duplicates removes exactly that
   process. *)
LEMMA TailQueue ==
    ASSUME NEW q \in Seq(Procs), q # << >>,
           \A i, j \in 1 .. Len(q) : q[i] = q[j] => i = j
    PROVE  /\ Head(q) \in Procs /\ Tail(q) \in Seq(Procs)
           /\ \A x \in Procs : (\E i \in 1 .. Len(Tail(q)) : Tail(q)[i] = x)
                                <=> (x # Head(q) /\ \E i \in 1 .. Len(q) : q[i] = x)
           /\ \A i, j \in 1 .. Len(Tail(q)) : Tail(q)[i] = Tail(q)[j] => i = j
  <1>1. /\ Len(q) \in Nat \ {0} /\ Len(Tail(q)) = Len(q) - 1 /\ Head(q) = q[1]
        /\ \A i \in 1 .. Len(q) - 1 : Tail(q)[i] = q[i + 1]
    OBVIOUS
  <1>2. Head(q) \in Procs /\ Tail(q) \in Seq(Procs)
    OBVIOUS
  <1>3. ASSUME NEW x \in Procs
        PROVE  (\E i \in 1 .. Len(Tail(q)) : Tail(q)[i] = x)
                  <=> (x # Head(q) /\ \E i \in 1 .. Len(q) : q[i] = x)
    <2>1. ASSUME NEW i \in 1 .. Len(Tail(q)), Tail(q)[i] = x
          PROVE  x # Head(q) /\ \E j \in 1 .. Len(q) : q[j] = x
      <3>1. i + 1 \in 1 .. Len(q) /\ q[i + 1] = x /\ i + 1 # 1 /\ 1 \in 1 .. Len(q)
        BY <1>1, <2>1
      <3> QED
        BY <3>1, <1>1
    <2>2. ASSUME x # Head(q), NEW i \in 1 .. Len(q), q[i] = x
          PROVE  \E j \in 1 .. Len(Tail(q)) : Tail(q)[j] = x
      <3>1. i # 1
        BY <2>2, <1>1
      <3>2. i - 1 \in 1 .. Len(Tail(q)) /\ Tail(q)[i - 1] = x
        BY <3>1, <2>2, <1>1
      <3> QED
        BY <3>2
    <2> QED
      BY <2>1, <2>2
  <1>4. ASSUME NEW i \in 1 .. Len(Tail(q)), NEW j \in 1 .. Len(Tail(q)),
               Tail(q)[i] = Tail(q)[j]
        PROVE  i = j
    <2>1. /\ i + 1 \in 1 .. Len(q) /\ j + 1 \in 1 .. Len(q) /\ q[i + 1] = q[j + 1]
      BY <1>1, <1>4
    <2>2. i + 1 = j + 1
      BY <2>1
    <2> QED
      BY <2>2, <1>1
  <1> QED
    BY <1>2, <1>3, <1>4

(* Only the two fields that MakeRunnable names change. *)
LEMMA MakeRunnableFacts ==
    ASSUME NEW k \in SchedRecords, NEW p \in Procs
    PROVE  /\ MakeRunnable(k, p) \in SchedRecords
           /\ MakeRunnable(k, p).current = k.current
           /\ MakeRunnable(k, p).run_list = k.run_list
           /\ MakeRunnable(k, p).state = [k.state EXCEPT ![p] = "PROC_RUNNABLE"]
           /\ MakeRunnable(k, p).wait_state = [k.wait_state EXCEPT ![p] = "0"]
  <1>1. /\ [k.state EXCEPT ![p] = "PROC_RUNNABLE"] \in [Procs -> ProcStates]
        /\ [k.wait_state EXCEPT ![p] = "0"] \in [Procs -> WaitStates]
    BY DEF SchedRecords, ProcStates, WaitStates
  <1> QED
    BY <1>1 DEF MakeRunnable, SchedRecords

(* wakeup_proc: the process is runnable afterwards and waits for nothing if
   it was not runnable before; nobody else changes; the queue stays right. *)
LEMMA WakeupFacts ==
    ASSUME NEW k \in SchedRecords, NEW p \in Procs, RunQueueOK(k),
           NEW w, w = wakeup_proc(k, p)
    PROVE  /\ w \in SchedRecords
           /\ w.current = k.current
           /\ w.state = [k.state EXCEPT ![p] = "PROC_RUNNABLE"]
           /\ w.wait_state = IF k.state[p] = "PROC_RUNNABLE" THEN k.wait_state
                             ELSE [k.wait_state EXCEPT ![p] = "0"]
           /\ RunQueueOK(w)
  <1>1. CASE k.state[p] = "PROC_RUNNABLE"
    <2>1. w = k
      BY <1>1 DEF wakeup_proc
    <2>2. [k.state EXCEPT ![p] = "PROC_RUNNABLE"] = k.state
      BY <1>1 DEF SchedRecords
    <2> QED
      BY <2>1, <2>2, <1>1
  <1>2. CASE k.state[p] # "PROC_RUNNABLE"
    <2> DEFINE a == Assert_(k, k.state[p] # "PROC_ZOMBIE")
               m == MakeRunnable(a, p)
    <2>1. w = IF p # k.current THEN sched_class_enqueue(m, p) ELSE m
      BY <1>2 DEF wakeup_proc
    <2>2. /\ a \in SchedRecords /\ a.current = k.current /\ a.state = k.state
          /\ a.wait_state = k.wait_state /\ a.run_list = k.run_list
      BY AssertFacts
    <2> HIDE DEF a
    <2>3. /\ m \in SchedRecords /\ m.current = k.current /\ m.run_list = k.run_list
          /\ m.state = [k.state EXCEPT ![p] = "PROC_RUNNABLE"]
          /\ m.wait_state = [k.wait_state EXCEPT ![p] = "0"]
      BY <2>2, MakeRunnableFacts, SMTT(30)
    <2> HIDE DEF m
    <2>4. \A x \in Procs : m.state[x] = "PROC_RUNNABLE" <=>
                              (x = p \/ k.state[x] = "PROC_RUNNABLE")
      BY <2>3 DEF SchedRecords
    <2>5. ~OnRunList(k, p) /\ k.run_list \in Seq(Procs)
      BY <1>2 DEF RunQueueOK, SchedRecords
    <2>6. CASE p = k.current \/ p = idleproc
      <3>1. w = m
        BY <2>1, <2>6 DEF sched_class_enqueue
      <3>2. RunQueueOK(m)
        BY <2>3, <2>4, <2>5, <2>6 DEF RunQueueOK, OnRunList
      <3> QED
        BY <3>1, <3>2, <2>3, <1>2
    <2>7. CASE p # k.current /\ p # idleproc
      <3>1. w = RR_enqueue(m, p)
        BY <2>1, <2>7 DEF sched_class_enqueue
      <3>2. /\ w \in SchedRecords /\ w.current = k.current /\ w.state = m.state
            /\ w.wait_state = m.wait_state /\ w.run_list = Append(k.run_list, p)
        BY <3>1, <2>3, EnqueueFacts
      <3>3. /\ \A i \in 1 .. Len(k.run_list) : k.run_list[i] # p
            /\ \A i, j \in 1 .. Len(k.run_list) : k.run_list[i] = k.run_list[j] => i = j
        BY <2>5 DEF RunQueueOK, OnRunList
      <3>4. /\ \A x \in Procs : OnRunList(w, x) <=> (x = p \/ OnRunList(k, x))
            /\ \A i, j \in 1 .. Len(w.run_list) : w.run_list[i] = w.run_list[j] => i = j
        BY <3>2, <3>3, <2>5, AppendQueue DEF OnRunList
      <3>5. RunQueueOK(w)
        BY <3>2, <3>4, <2>4, <2>7 DEF RunQueueOK
      <3> QED
        BY <3>2, <3>5, <2>3, <1>2
    <2> QED
      BY <2>6, <2>7
  <1> QED
    BY <1>1, <1>2

(* schedule() changes no process's state: it only decides who is current.
   The process it picks is runnable, or is idleproc. *)
LEMMA ScheduleFacts ==
    ASSUME NEW k \in SchedRecords, RunQueueOK(k), NEW s, s = schedule(k)
    PROVE  /\ s \in SchedRecords
           /\ s.state = k.state
           /\ s.wait_state = k.wait_state
           /\ s.current = idleproc \/ s.state[s.current] = "PROC_RUNNABLE"
           /\ RunQueueOK(s)
  <1> DEFINE c == k.current
             r == [k.need_resched EXCEPT ![c] = FALSE]
             a == [k EXCEPT !.need_resched = r]
             b == PutBack(k)
  <1>1. c \in Procs /\ r \in [Procs -> BOOLEAN] /\ k.run_list \in Seq(Procs)
    BY DEF SchedRecords
  <1> HIDE DEF r
  <1>2. /\ a \in SchedRecords /\ a.state = k.state /\ a.wait_state = k.wait_state
        /\ a.current = c /\ a.run_list = k.run_list
    BY <1>1 DEF SchedRecords
  <1>3. b = IF k.state[c] = "PROC_RUNNABLE" THEN sched_class_enqueue(a, c) ELSE a
    BY DEF PutBack, r
  <1> HIDE DEF a, b
  <1>4. \A x \in Procs : OnRunList(k, x) <=> (k.state[x] = "PROC_RUNNABLE" /\ x # c /\ x # idleproc)
    BY DEF RunQueueOK
  <1>5. \A i, j \in 1 .. Len(k.run_list) : k.run_list[i] = k.run_list[j] => i = j
    BY DEF RunQueueOK
  \* After the first half the queue holds every runnable process but idle.
  <1>6. /\ b \in SchedRecords /\ b.state = k.state /\ b.wait_state = k.wait_state
        /\ \A x \in Procs : OnRunList(b, x) <=> (k.state[x] = "PROC_RUNNABLE" /\ x # idleproc)
        /\ \A i, j \in 1 .. Len(b.run_list) : b.run_list[i] = b.run_list[j] => i = j
    <2>1. CASE k.state[c] = "PROC_RUNNABLE" /\ c # idleproc
      <3>1. b = RR_enqueue(a, c)
        BY <2>1, <1>3 DEF sched_class_enqueue
      <3>2. /\ b \in SchedRecords /\ b.state = k.state /\ b.wait_state = k.wait_state
            /\ b.run_list = Append(k.run_list, c)
        <4>1. /\ RR_enqueue(a, c) \in SchedRecords
              /\ RR_enqueue(a, c).state = a.state
              /\ RR_enqueue(a, c).wait_state = a.wait_state
              /\ RR_enqueue(a, c).run_list = Append(a.run_list, c)
          BY <1>1, <1>2, EnqueueFacts
        <4> QED
          BY <4>1, <3>1, <1>2
      <3>3. \A i \in 1 .. Len(k.run_list) : k.run_list[i] # c
        BY <1>4, <1>1 DEF OnRunList
      <3>4. /\ \A x \in Procs : OnRunList(b, x) <=> (x = c \/ OnRunList(k, x))
            /\ \A i, j \in 1 .. Len(b.run_list) : b.run_list[i] = b.run_list[j] => i = j
        BY <3>2, <3>3, <1>1, <1>5, AppendQueue DEF OnRunList
      <3> QED
        BY <3>2, <3>4, <2>1, <1>4
    <2>2. CASE ~(k.state[c] = "PROC_RUNNABLE" /\ c # idleproc)
      <3>1. b = a
        BY <2>2, <1>3 DEF sched_class_enqueue
      <3> QED
        BY <3>1, <2>2, <1>2, <1>4, <1>5 DEF OnRunList
    <2> QED
      BY <2>1, <2>2
  <1>7. s = PickAndRun(b)
    BY DEF schedule, b
  <1>8. CASE b.run_list = << >>
    <2>1. s = [b EXCEPT !.current = idleproc]
      BY <1>7, <1>8 DEF PickAndRun
    <2>2. /\ s \in SchedRecords /\ s.state = b.state /\ s.wait_state = b.wait_state
          /\ s.run_list = b.run_list /\ s.current = idleproc
      BY <2>1, <1>6, IdleAssumption DEF SchedRecords
    <2>3. \A x \in Procs : ~OnRunList(b, x) /\ ~OnRunList(s, x)
      BY <1>8, <2>2 DEF OnRunList
    <2> QED
      BY <2>2, <2>3, <1>6 DEF RunQueueOK
  <1>9. CASE b.run_list # << >>
    <2> DEFINE h == Head(b.run_list)
               t == Tail(b.run_list)
    <2>1. s = [RR_dequeue(b) EXCEPT !.current = h]
      BY <1>7, <1>9 DEF PickAndRun, RR_pick_next
    <2>2. b.run_list \in Seq(Procs)
      BY <1>6 DEF SchedRecords
    <2>3. /\ h \in Procs /\ t \in Seq(Procs)
          /\ \A x \in Procs : (\E i \in 1 .. Len(t) : t[i] = x)
                               <=> (x # h /\ \E i \in 1 .. Len(b.run_list) : b.run_list[i] = x)
          /\ \A i, j \in 1 .. Len(t) : t[i] = t[j] => i = j
      BY <2>2, <1>6, <1>9, TailQueue
    <2>4. OnRunList(b, h)
      <3>1. 1 \in 1 .. Len(b.run_list) /\ h = b.run_list[1]
        BY <2>2, <1>9
      <3> QED
        BY <3>1 DEF OnRunList
    <2>5. s = [[b EXCEPT !.run_list = t] EXCEPT !.current = h]
      BY <2>1 DEF RR_dequeue
    <2> HIDE DEF h, t
    <2>6. /\ s \in SchedRecords /\ s.state = b.state /\ s.wait_state = b.wait_state
          /\ s.run_list = t /\ s.current = h
      <3> DEFINE d == [b EXCEPT !.run_list = t]
      <3>1. /\ d \in SchedRecords /\ d.state = b.state /\ d.wait_state = b.wait_state
            /\ d.run_list = t
        BY <2>3, <1>6 DEF SchedRecords
      <3>2. s = [d EXCEPT !.current = h]
        BY <2>5
      <3> HIDE DEF d
      <3> QED
        BY <3>1, <3>2, <2>3, ZenonT(40) DEF SchedRecords
    <2>7. \A x \in Procs : OnRunList(s, x) <=> (x # h /\ OnRunList(b, x))
      <3>1. ASSUME NEW x \in Procs PROVE OnRunList(s, x) <=> \E i \in 1 .. Len(t) : t[i] = x
        BY <2>6 DEF OnRunList
      <3>2. ASSUME NEW x \in Procs
            PROVE  OnRunList(b, x) <=> \E i \in 1 .. Len(b.run_list) : b.run_list[i] = x
        BY DEF OnRunList
      <3> QED
        BY <3>1, <3>2, <2>3
    <2>8. RunQueueOK(s)
      BY <2>6, <2>7, <2>3, <1>6 DEF RunQueueOK
    <2> QED
      BY <2>6, <2>8, <2>4, <2>3, <1>6
  <1> QED
    BY <1>8, <1>9

(* The run queue stays consistent when it is not touched and only the process
   on the CPU, or processes that are not runnable, change their state. *)
LEMMA RunQueueFrame ==
    ASSUME NEW a \in SchedRecords, NEW b \in SchedRecords, RunQueueOK(a),
           b.current = a.current, b.run_list = a.run_list,
           \A x \in Procs : x # a.current =>
              (b.state[x] = "PROC_RUNNABLE" <=> a.state[x] = "PROC_RUNNABLE")
    PROVE  RunQueueOK(b)
  BY DEF RunQueueOK, OnRunList

(* SleepCurrent changes the state of the process on the CPU only. *)
LEMMA SleepCurrentFacts ==
    ASSUME NEW a \in SchedRecords, NEW w \in WaitStates, RunQueueOK(a),
           NEW b, b = SleepCurrent(a, w)
    PROVE  /\ b \in SchedRecords /\ RunQueueOK(b) /\ b.current = a.current
           /\ b.state = [a.state EXCEPT ![a.current] = "PROC_SLEEPING"]
           /\ b.wait_state = [a.wait_state EXCEPT ![a.current] = w]
  <1> DEFINE st == [a.state EXCEPT ![a.current] = "PROC_SLEEPING"]
             ws == [a.wait_state EXCEPT ![a.current] = w]
  <1>1. st \in [Procs -> ProcStates] /\ ws \in [Procs -> WaitStates]
    BY DEF SchedRecords, ProcStates
  <1>2. \A x \in Procs : x # a.current => st[x] = a.state[x]
    BY DEF SchedRecords
  <1> HIDE DEF st, ws
  <1>3. b = [a EXCEPT !.state = st, !.wait_state = ws]
    BY DEF SleepCurrent, st, ws
  <1>4. /\ b \in SchedRecords /\ b.current = a.current /\ b.run_list = a.run_list
        /\ b.state = st /\ b.wait_state = ws
    BY <1>1, <1>3 DEF SchedRecords
  <1>5. RunQueueOK(b)
    BY <1>2, <1>4, RunQueueFrame
  <1> QED
    BY <1>4, <1>5 DEF st, ws

(* What wakeup_proc does, process by process. *)
LEMMA WakeupPointwise ==
    ASSUME NEW a \in SchedRecords, RunQueueOK(a), NEW q \in Procs,
           a.state[q] = "PROC_RUNNABLE" => a.wait_state[q] = "0",
           NEW b, b = wakeup_proc(a, q)
    PROVE  /\ b \in SchedRecords /\ RunQueueOK(b) /\ b.current = a.current
           /\ \A x \in Procs : /\ b.state[x] = IF x = q THEN "PROC_RUNNABLE" ELSE a.state[x]
                               /\ b.wait_state[x] = IF x = q THEN "0" ELSE a.wait_state[x]
  <1>1. /\ b \in SchedRecords /\ RunQueueOK(b) /\ b.current = a.current
        /\ b.state = [a.state EXCEPT ![q] = "PROC_RUNNABLE"]
        /\ b.wait_state = IF a.state[q] = "PROC_RUNNABLE" THEN a.wait_state
                          ELSE [a.wait_state EXCEPT ![q] = "0"]
    BY WakeupFacts
  <1>2. \A x \in Procs : b.state[x] = IF x = q THEN "PROC_RUNNABLE" ELSE a.state[x]
    BY <1>1 DEF SchedRecords
  <1>3. \A x \in Procs : b.wait_state[x] = IF x = q THEN "0" ELSE a.wait_state[x]
    BY <1>1 DEF SchedRecords
  <1> QED
    BY <1>1, <1>2, <1>3

(* An assertion changes nothing that the invariant looks at. *)
LEMMA AssertKeeps ==
    ASSUME NEW a \in SchedRecords, RunQueueOK(a), NEW e, NEW b, b = Assert_(a, e)
    PROVE  /\ b \in SchedRecords /\ RunQueueOK(b) /\ b.current = a.current
           /\ b.state = a.state /\ b.wait_state = a.wait_state
  <1>1. /\ b \in SchedRecords /\ b.current = a.current /\ b.state = a.state
        /\ b.wait_state = a.wait_state /\ b.run_list = a.run_list
    BY AssertFacts
  <1> QED
    BY <1>1, RunQueueFrame

(* The tick of the round-robin class changes neither states nor the queue. *)
LEMMA ProcTickFacts ==
    ASSUME NEW a \in SchedRecords, RunQueueOK(a), NEW p \in Procs,
           NEW b, b = sched_class_proc_tick(a, p)
    PROVE  /\ b \in SchedRecords /\ RunQueueOK(b) /\ b.current = a.current
           /\ b.state = a.state /\ b.wait_state = a.wait_state
  <1>1. /\ b \in SchedRecords /\ b.current = a.current /\ b.state = a.state
        /\ b.wait_state = a.wait_state /\ b.run_list = a.run_list
    <2>1. CASE p = idleproc
      <3> DEFINE nr == [a.need_resched EXCEPT ![p] = TRUE]
      <3>1. nr \in [Procs -> BOOLEAN]
        BY DEF SchedRecords
      <3> HIDE DEF nr
      <3>2. b = [a EXCEPT !.need_resched = nr]
        BY <2>1 DEF sched_class_proc_tick, nr
      <3> QED
        BY <3>1, <3>2 DEF SchedRecords
    <2>2. CASE p # idleproc
      <3> DEFINE left == IF a.time_slice[p] > 0 THEN a.time_slice[p] - 1 ELSE 0
                 ts == [a.time_slice EXCEPT ![p] = left]
                 nr == [a.need_resched EXCEPT ![p] = a.need_resched[p] \/ left = 0]
      <3>1. left \in 0 .. MaxTimeSlice
        <4>1. a.time_slice[p] \in 0 .. MaxTimeSlice
          BY DEF SchedRecords
        <4> QED
          BY <4>1, SliceAssumption
      <3> HIDE DEF left
      <3>2. ts \in [Procs -> 0 .. MaxTimeSlice]
        BY <3>1 DEF SchedRecords
      <3>3. nr \in [Procs -> BOOLEAN]
        BY DEF SchedRecords
      <3>4. b = [a EXCEPT !.time_slice = ts, !.need_resched = nr]
        BY <2>2 DEF sched_class_proc_tick, RR_proc_tick, left
      <3> HIDE DEF ts, nr
      <3> QED
        BY <3>2, <3>3, <3>4 DEF SchedRecords
    <2> QED
      BY <2>1, <2>2
  <1> QED
    BY <1>1, RunQueueFrame

---------------------------------------------------------------------------
(* The asserts of the scheduler. *)

(* RR_enqueue panics only when the process is already queued. *)
LEMMA EnqueuePanic ==
    ASSUME NEW k \in SchedRecords, NEW p \in Procs, ~k.panic, ~OnRunList(k, p)
    PROVE  ~RR_enqueue(k, p).panic
  <1> DEFINE slice == [k.time_slice EXCEPT ![p] = IF @ = 0 THEN MaxTimeSlice ELSE @]
             a == Assert_(k, ~OnRunList(k, p))
  <1>1. ~a.panic /\ a \in SchedRecords
    BY AssertFacts DEF Assert_, SchedRecords
  <1>2. RR_enqueue(k, p) = [a EXCEPT !.run_list = Append(k.run_list, p), !.time_slice = slice]
    BY Zenon DEF RR_enqueue
  <1> HIDE DEF a, slice
  <1> QED
    BY <1>1, <1>2 DEF SchedRecords

(* wakeup_proc of a process that is not a zombie reaches no assert. *)
LEMMA WakeupPanic ==
    ASSUME NEW k \in SchedRecords, NEW p \in Procs, RunQueueOK(k), ~k.panic,
           k.state[p] # "PROC_ZOMBIE", NEW w, w = wakeup_proc(k, p)
    PROVE  ~w.panic
  <1>1. CASE k.state[p] = "PROC_RUNNABLE"
    BY <1>1 DEF wakeup_proc
  <1>2. CASE k.state[p] # "PROC_RUNNABLE"
    <2> DEFINE a == Assert_(k, k.state[p] # "PROC_ZOMBIE")
               m == MakeRunnable(a, p)
    <2>1. w = IF p # k.current THEN sched_class_enqueue(m, p) ELSE m
      BY <1>2 DEF wakeup_proc
    <2>2. a \in SchedRecords /\ a.run_list = k.run_list /\ ~a.panic
      BY AssertFacts DEF Assert_, SchedRecords
    <2> HIDE DEF a
    <2>3. m \in SchedRecords /\ m.run_list = k.run_list
      BY <2>2, MakeRunnableFacts
    <2>4. ~m.panic
      BY <2>2 DEF MakeRunnable, SchedRecords
    <2> HIDE DEF m
    <2>5. ~OnRunList(k, p)
      BY <1>2 DEF RunQueueOK
    <2>6. ~OnRunList(m, p)
      BY <2>3, <2>5 DEF OnRunList
    <2>7. ~RR_enqueue(m, p).panic
      BY <2>3, <2>4, <2>6, EnqueuePanic
    <2> QED
      BY <2>1, <2>4, <2>7 DEF sched_class_enqueue
  <1> QED
    BY <1>1, <1>2

(* schedule() reaches no assert. *)
LEMMA SchedulePanic ==
    ASSUME NEW k \in SchedRecords, RunQueueOK(k), ~k.panic, NEW s, s = schedule(k)
    PROVE  ~s.panic
  <1> DEFINE c == k.current
             r == [k.need_resched EXCEPT ![c] = FALSE]
             a == [k EXCEPT !.need_resched = r]
             b == PutBack(k)
  <1>1. c \in Procs /\ r \in [Procs -> BOOLEAN]
    BY DEF SchedRecords
  <1> HIDE DEF r
  <1>2. a \in SchedRecords /\ ~a.panic /\ a.run_list = k.run_list
    BY <1>1 DEF SchedRecords
  <1>3. b = IF k.state[c] = "PROC_RUNNABLE" THEN sched_class_enqueue(a, c) ELSE a
    BY DEF PutBack, r
  <1> HIDE DEF a, b
  <1>4. ~OnRunList(k, c)
    BY <1>1 DEF RunQueueOK
  <1>5. ~OnRunList(a, c)
    BY <1>2, <1>4 DEF OnRunList
  <1>6. ~RR_enqueue(a, c).panic /\ RR_enqueue(a, c) \in SchedRecords
    BY <1>1, <1>2, <1>5, EnqueuePanic, EnqueueFacts
  <1>7. ~b.panic /\ b \in SchedRecords
    BY <1>2, <1>3, <1>6 DEF sched_class_enqueue
  <1>8. s = PickAndRun(b)
    BY DEF schedule, b
  <1>9. CASE b.run_list = << >>
    <2>1. s = [b EXCEPT !.current = idleproc]
      BY <1>8, <1>9 DEF PickAndRun
    <2> QED
      BY <2>1, <1>7 DEF SchedRecords
  <1>10. CASE b.run_list # << >>
    <2> DEFINE d == [b EXCEPT !.run_list = Tail(b.run_list)]
    <2>1. s = [d EXCEPT !.current = Head(b.run_list)]
      BY <1>8, <1>10 DEF PickAndRun, RR_pick_next, RR_dequeue
    <2>2. ~d.panic /\ d = [b EXCEPT !.run_list = Tail(b.run_list)]
      BY <1>7 DEF SchedRecords
    <2>3. \A x : [d EXCEPT !.current = x].panic = d.panic
      BY <1>7, <2>2 DEF SchedRecords
    <2> HIDE DEF d
    <2> QED
      BY <2>1, <2>2, <2>3
  <1> QED
    BY <1>9, <1>10

============================================================================
