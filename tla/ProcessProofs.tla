--------------------------- MODULE ProcessProofs ---------------------------
(***************************************************************************)
(* The safety of the process life cycle, for every number of processes,    *)
(* every time slice and every set of sleeping times, when nobody kills     *)
(* init; and of get_pid, for every number of pids.                         *)
(***************************************************************************)
EXTENDS Stdin, Pid, SchedProofs, FiniteSetTheorems, SequenceTheorems, WellFoundedInduction

---------------------------------------------------------------------------
(* What the operations on timer_list keep, for lists of every length: the
   result is a list, its timers belong to the processes one expects, and the
   distances stay natural numbers. *)

(* Every non-empty set of naturals has a least element. *)
LEMMA LeastNat ==
    ASSUME NEW T \in SUBSET Nat, T # {}
    PROVE  \E x \in T : \A y \in T : x <= y
  <1>1. \E x \in T : \A y \in T : ~(<<y, x>> \in OpToRel(<, Nat))
    BY NatLessThanWellFounded, WFMin
  <1>2. PICK x \in T : \A y \in T : ~(<<y, x>> \in OpToRel(<, Nat))
    BY <1>1
  <1>3. ASSUME NEW y \in T PROVE ~(y < x)
    BY <1>2, <1>3 DEF OpToRel
  <1> QED
    BY <1>3

(* A function over 1 .. n is a sequence of length n. *)
LEMMA LenOfFunction ==
    ASSUME NEW n \in Nat, NEW f, f = [i \in 1 .. n |-> f[i]]
    PROVE  Len(f) = n
  <1> DEFINE S == {f[i] : i \in 1 .. n}
  <1>1. f \in Seq(S)
    OBVIOUS
  <1> QED
    BY <1>1

(* The place add_timer finds: all timers in front of it expire no later than
   the new one, the one behind it later. *)
LEMMA InsertPosFacts ==
    ASSUME NEW t, NEW e, Len(t) \in Nat, NEW pos, pos = InsertPos(t, e)
    PROVE  /\ pos \in 1 .. Len(t) + 1
           /\ \A j \in 1 .. pos - 1 : ~(e < Remaining(t, j))
           /\ pos <= Len(t) => e < Remaining(t, pos)
  <1> DEFINE T == {i \in 1 .. Len(t) + 1 : i <= Len(t) => e < Remaining(t, i)}
             P(i) == /\ \A j \in 1 .. i - 1 : ~(e < Remaining(t, j))
                     /\ i <= Len(t) => e < Remaining(t, i)
  <1>1. T \in SUBSET Nat /\ Len(t) + 1 \in T
    OBVIOUS
  <1>2. PICK x \in T : \A y \in T : x <= y
    BY <1>1, LeastNat
  <1>3. \A j \in 1 .. x - 1 : ~(e < Remaining(t, j))
    BY <1>1, <1>2
  <1>4. \E i \in 1 .. Len(t) + 1 : P(i)
    BY <1>2, <1>3
  <1>5. pos = CHOOSE i \in 1 .. Len(t) + 1 : P(i)
    BY DEF InsertPos
  <1> HIDE DEF P
  <1>6. pos \in 1 .. Len(t) + 1 /\ P(pos)
    BY <1>4, <1>5
  <1> QED
    BY <1>6 DEF P

(* The distinct owners of the timers in a list. *)
DistinctOwners(t) ==
    \A i, j \in 1 .. Len(t) : t[i].proc = t[j].proc => i = j

(* add_timer adds a timer of p and keeps all others. *)
LEMMA AddTimerFacts ==
    ASSUME NEW P, NEW t, IsTimerList(t, P), NEW p \in P, NEW e,
           NEW a, a = add_timer(t, p, e)
    PROVE  /\ IsTimerList(a, P)
           /\ \A q : HasTimer(a, q) <=> (q = p \/ HasTimer(t, q))
           /\ DistinctOwners(t) /\ ~HasTimer(t, p) => DistinctOwners(a)
  <1> DEFINE n == Len(t)
             pos == InsertPos(t, e)
             rest == e - Remaining(t, pos - 1)
             elt(i) == IF i < pos THEN t[i]
                       ELSE IF i = pos THEN [proc |-> p, expires |-> rest]
                       ELSE IF i = pos + 1 THEN [t[pos] EXCEPT !.expires = @ - rest]
                       ELSE t[i - 1]
  <1>1. n \in Nat /\ pos \in 1 .. n + 1
    BY InsertPosFacts DEF IsTimerList
  <1>2. a = [i \in 1 .. n + 1 |-> elt(i)]
    BY DEF add_timer
  <1>3. Len(a) = n + 1 /\ DOMAIN a = 1 .. n + 1
    BY <1>1, <1>2, LenOfFunction
  \* The owners: the old ones up to pos, p, the old ones behind it.
  <1>4. ASSUME NEW i \in 1 .. n + 1
        PROVE  a[i].proc = IF i < pos THEN t[i].proc
                           ELSE IF i = pos THEN p ELSE t[i - 1].proc
    <2> HIDE DEF rest, pos, n
    <2>1. a[i] = elt(i)
      BY <1>2
    <2>2. CASE i = pos + 1
      <3>1. a[i] = [t[pos] EXCEPT !.expires = @ - rest]
        BY <2>1, <2>2, <1>1
      <3>2. a[i].proc = t[pos].proc
        BY <3>1
      <3> QED
        BY <3>2, <2>2, <1>1
    <2>3. CASE i # pos + 1
      BY <2>1, <2>3, <1>1
    <2> QED
      BY <2>2, <2>3
  <1> HIDE DEF pos
  <1>5. IsTimerList(a, P)
    BY <1>1, <1>3, <1>4 DEF IsTimerList
  <1>6. ASSUME NEW q PROVE HasTimer(a, q) <=> (q = p \/ HasTimer(t, q))
    <2>1. ASSUME NEW i \in 1 .. n + 1, a[i].proc = q PROVE q = p \/ HasTimer(t, q)
      BY <2>1, <1>1, <1>4 DEF HasTimer
    <2>2. ASSUME q = p PROVE HasTimer(a, q)
      BY <2>2, <1>1, <1>3, <1>4 DEF HasTimer
    <2>3. ASSUME NEW i \in 1 .. n, t[i].proc = q PROVE HasTimer(a, q)
      <3>1. CASE i < pos
        BY <3>1, <2>3, <1>1, <1>3, <1>4 DEF HasTimer
      <3>2. CASE ~(i < pos)
        <4>1. i + 1 \in 1 .. n + 1 /\ a[i + 1].proc = q
          BY <3>2, <2>3, <1>1, <1>4
        <4> QED
          BY <4>1, <1>3 DEF HasTimer
      <3> QED
        BY <3>1, <3>2
    <2> QED
      BY <2>1, <2>2, <2>3, <1>3 DEF HasTimer
  <1>7. ASSUME DistinctOwners(t), ~HasTimer(t, p) PROVE DistinctOwners(a)
    <2> SUFFICES ASSUME NEW i \in 1 .. n + 1, NEW j \in 1 .. n + 1,
                        a[i].proc = a[j].proc
                 PROVE  i = j
      BY <1>3 DEF DistinctOwners
    <2>1. \A x \in 1 .. n : t[x].proc # p
      BY <1>7 DEF HasTimer
    <2> DEFINE old(x) == IF x < pos THEN x ELSE x - 1
    <2>2. CASE i = pos \/ j = pos
      BY <2>1, <2>2, <1>1, <1>4
    <2>3. CASE i # pos /\ j # pos
      <3>1. /\ old(i) \in 1 .. n /\ old(j) \in 1 .. n
            /\ a[i].proc = t[old(i)].proc /\ a[j].proc = t[old(j)].proc
        BY <2>3, <1>1, <1>4
      <3>2. old(i) = old(j)
        BY <3>1, <1>7 DEF DistinctOwners
      <3> QED
        BY <3>2, <2>3, <1>1
    <2> QED
      BY <2>2, <2>3
  <1> QED
    BY <1>5, <1>6, <1>7

(* del_timer removes the timer of p, if there is one, and keeps all others. *)
LEMMA DelTimerFacts ==
    ASSUME NEW P, NEW t, IsTimerList(t, P), NEW p,
           NEW d, d = del_timer(t, p)
    PROVE  /\ IsTimerList(d, P)
           /\ \A q : q # p => (HasTimer(d, q) <=> HasTimer(t, q))
           /\ DistinctOwners(t) => DistinctOwners(d) /\ ~HasTimer(d, p)
  <1>1. CASE ~HasTimer(t, p)
    BY <1>1 DEF del_timer
  <1>2. CASE HasTimer(t, p)
    <2> DEFINE n == Len(t)
               pos == CHOOSE i \in 1 .. n : t[i].proc = p
               elt(i) == IF i < pos THEN t[i]
                         ELSE IF i = pos THEN [t[pos + 1] EXCEPT !.expires = @ + t[pos].expires]
                         ELSE t[i + 1]
    <2>1. n \in Nat /\ pos \in 1 .. n /\ t[pos].proc = p
      BY <1>2 DEF HasTimer, IsTimerList
    <2>2. d = [i \in 1 .. n - 1 |-> elt(i)]
      BY <1>2 DEF del_timer
    <2> HIDE DEF pos
    <2>3. Len(d) = n - 1 /\ DOMAIN d = 1 .. n - 1
      BY <2>1, <2>2, LenOfFunction
    <2>4. ASSUME NEW i \in 1 .. n - 1
          PROVE  d[i].proc = IF i < pos THEN t[i].proc ELSE t[i + 1].proc
      <3> HIDE DEF n
      <3>1. d[i] = elt(i)
        BY <2>2
      <3>2. CASE i = pos
        <4>1. d[i] = [t[pos + 1] EXCEPT !.expires = @ + t[pos].expires]
          BY <3>1, <3>2, <2>1
        <4>2. d[i].proc = t[pos + 1].proc
          BY <4>1
        <4> QED
          BY <4>2, <3>2, <2>1
      <3>3. CASE i # pos
        BY <3>1, <3>3, <2>1
      <3> QED
        BY <3>2, <3>3
    <2>5. IsTimerList(d, P)
      BY <2>1, <2>3, <2>4 DEF IsTimerList
    <2>6. ASSUME NEW q, q # p PROVE HasTimer(d, q) <=> HasTimer(t, q)
      <3>1. ASSUME NEW i \in 1 .. n - 1, d[i].proc = q PROVE HasTimer(t, q)
        BY <3>1, <2>1, <2>4 DEF HasTimer
      <3>2. ASSUME NEW i \in 1 .. n, t[i].proc = q PROVE HasTimer(d, q)
        <4>1. i # pos
          BY <3>2, <2>6, <2>1
        <4>2. CASE i < pos
          <5>1. i \in 1 .. n - 1 /\ d[i].proc = q
            BY <4>2, <3>2, <2>1, <2>4
          <5> QED
            BY <5>1, <2>3 DEF HasTimer
        <4>3. CASE i > pos
          <5>1. i - 1 \in 1 .. n - 1 /\ d[i - 1].proc = q
            BY <4>3, <3>2, <2>1, <2>4
          <5> QED
            BY <5>1, <2>3 DEF HasTimer
        <4> QED
          BY <4>1, <4>2, <4>3, <2>1
      <3> QED
        BY <3>1, <3>2, <2>3 DEF HasTimer
    <2>7. ASSUME DistinctOwners(t) PROVE DistinctOwners(d) /\ ~HasTimer(d, p)
      <3> DEFINE old(x) == IF x < pos THEN x ELSE x + 1
      <3>1. ASSUME NEW x \in 1 .. n - 1
            PROVE  old(x) \in 1 .. n /\ old(x) # pos /\ d[x].proc = t[old(x)].proc
        BY <2>1, <2>4
      <3>2. ASSUME NEW i \in 1 .. n - 1, NEW j \in 1 .. n - 1, d[i].proc = d[j].proc
            PROVE  i = j
        <4>1. old(i) = old(j)
          BY <3>1, <3>2, <2>7 DEF DistinctOwners
        <4> QED
          BY <4>1, <2>1
      <3>3. ASSUME NEW i \in 1 .. n - 1 PROVE d[i].proc # p
        BY <3>1, <2>1, <2>7 DEF DistinctOwners
      <3> QED
        BY <3>2, <3>3, <2>3 DEF DistinctOwners, HasTimer
    <2> QED
      BY <2>5, <2>6, <2>7
  <1> QED
    BY <1>1, <1>2

(* A tick changes no owner. *)
LEMMA TickHeadFacts ==
    ASSUME NEW P, NEW t, IsTimerList(t, P), NEW h, h = TickHead(t)
    PROVE  /\ IsTimerList(h, P)
           /\ \A q : HasTimer(h, q) <=> HasTimer(t, q)
           /\ DistinctOwners(t) => DistinctOwners(h)
  <1>1. CASE t = << >>
    BY <1>1 DEF TickHead
  <1>2. CASE t # << >>
    <2>1. h = [t EXCEPT ![1] = [t[1] EXCEPT !.expires = @ - 1]]
      BY <1>2 DEF TickHead
    <2>2. DOMAIN h = DOMAIN t /\ \A i \in DOMAIN t : h[i].proc = t[i].proc
      BY <2>1
    <2>3. Len(h) = Len(t)
      BY <2>1, <2>2, LenOfFunction DEF IsTimerList
    <2> QED
      BY <2>2, <2>3 DEF IsTimerList, HasTimer, DistinctOwners
  <1> QED
    BY <1>1, <1>2

---------------------------------------------------------------------------
(* The distances.  Induction over the list is an argument about the least
   place at which a statement fails. *)

(* t is a list of timers of P whose distances are not negative. *)
TimersOK(t, P) == t \in Seq([proc : P, expires : Nat])

LEMMA SeqElement ==
    ASSUME NEW S, NEW s \in Seq(S), NEW i \in 1 .. Len(s)
    PROVE  s[i] \in S
  OBVIOUS

(* f[j] is the sum of the first j elements of x. *)
IsSum(f, x, n) == f[0] = 0 /\ \A j \in 1 .. n : f[j] = f[j - 1] + x[j]

(* Every finite sequence of numbers has its partial sums. *)
LEMMA SumsExist ==
    ASSUME NEW n \in Nat, NEW x \in [1 .. n -> Nat]
    PROVE  \E f \in [0 .. n -> Nat] : IsSum(f, x, n)
  <1> DEFINE Bad == {m \in 0 .. n : ~\E f \in [0 .. m -> Nat] : IsSum(f, x, m)}
  <1>1. SUFFICES ASSUME Bad # {} PROVE FALSE
    <2>1. n \in 0 .. n
      OBVIOUS
    <2> QED
      BY <2>1, Zenon
  <1>2. Bad \in SUBSET Nat
    OBVIOUS
  <1>3. PICK m \in Bad : \A y \in Bad : m <= y
    BY <1>1, <1>2, LeastNat
  <1>4. CASE m = 0
    <2> DEFINE f == [j \in 0 .. 0 |-> 0]
    <2>1. f \in [0 .. m -> Nat] /\ IsSum(f, x, m)
      BY <1>4 DEF IsSum
    <2> QED
      BY <2>1, <1>3
  <1>5. CASE m # 0
    <2>1. m - 1 \in 0 .. n /\ m - 1 \notin Bad /\ m \in 1 .. n
      <3>1. m \in 0 .. n /\ ~(m <= m - 1)
        BY <1>3
      <3>2. m - 1 \notin Bad
        BY <1>3, <3>1, Zenon
      <3> QED
        BY <1>5, <3>1, <3>2
    <2>2. PICK f \in [0 .. m - 1 -> Nat] : IsSum(f, x, m - 1)
      BY <2>1, Zenon
    <2> DEFINE g == [j \in 0 .. m |-> IF j = m THEN f[m - 1] + x[m] ELSE f[j]]
    <2>3. g \in [0 .. m -> Nat]
      BY <2>1, <2>2
    <2>4. g[0] = 0
      BY <2>1, <2>2 DEF IsSum
    <2>5. ASSUME NEW j \in 1 .. m PROVE g[j] = g[j - 1] + x[j]
      <3>1. CASE j = m
        BY <2>1, <2>2, <3>1
      <3>2. CASE j # m
        <4>1. j \in 1 .. m - 1 /\ j \in 0 .. m /\ j - 1 \in 0 .. m /\ j - 1 # m
          BY <2>1, <3>2
        <4> QED
          BY <2>2, <3>2, <4>1 DEF IsSum
      <3> QED
        BY <3>1, <3>2
    <2>6. IsSum(g, x, m)
      BY <2>4, <2>5 DEF IsSum
    <2> QED
      BY <2>3, <2>6, <1>3
  <1> QED
    BY <1>4, <1>5

(* Remaining(t, i) is the sum of the first i distances. *)
LEMMA RemainingFacts ==
    ASSUME NEW P, NEW t, TimersOK(t, P)
    PROVE  /\ Remaining(t, 0) = 0
           /\ \A i \in 1 .. Len(t) : /\ Remaining(t, i - 1) \in Nat
                                     /\ Remaining(t, i) = Remaining(t, i - 1) + t[i].expires
  <1> DEFINE n == Len(t)
             x == [i \in 1 .. n |-> t[i].expires]
             Eq(f) == f = [j \in 0 .. n |-> IF j = 0 THEN 0 ELSE f[j - 1] + t[j].expires]
             sum == CHOOSE f : Eq(f)
  <1>1. n \in Nat /\ x \in [1 .. n -> Nat]
    <2>1. t \in Seq([proc : P, expires : Nat])
      BY DEF TimersOK
    <2>2. \A i \in 1 .. n : t[i] \in [proc : P, expires : Nat]
      BY <2>1, SeqElement
    <2>3. n \in Nat
      BY <2>1
    <2> QED
      BY <2>2, <2>3
  <1>2. PICK f \in [0 .. n -> Nat] : IsSum(f, x, n)
    BY <1>1, SumsExist
  <1>3. Eq(f)
    <2>1. ASSUME NEW j \in 0 .. n PROVE f[j] = IF j = 0 THEN 0 ELSE f[j - 1] + t[j].expires
      BY <1>1, <1>2 DEF IsSum
    <2> QED
      BY <2>1, <1>2
  <1>4. Eq(sum)
    BY <1>3
  <1>5. \A i : Remaining(t, i) = sum[i]
    BY DEF Remaining
  <1> HIDE DEF sum
  <1>6. sum[0] = 0 /\ \A i \in 1 .. n : sum[i] = sum[i - 1] + t[i].expires
    BY <1>1, <1>4
  <1>7. \A i \in 0 .. n : sum[i] \in Nat
    <2> DEFINE Bad == {i \in 0 .. n : sum[i] \notin Nat}
    <2>1. SUFFICES ASSUME Bad # {} PROVE FALSE
      OBVIOUS
    <2>2. PICK m \in Bad : \A y \in Bad : m <= y
      <3>1. Bad \in SUBSET Nat
        OBVIOUS
      <3> QED
        BY <2>1, <3>1, LeastNat
    <2>3. m # 0 /\ m \in 1 .. n /\ m - 1 \in 0 .. n /\ m - 1 \notin Bad
      BY <1>1, <1>6, <2>2
    <2>4. x[m] \in Nat /\ x[m] = t[m].expires
      BY <1>1, <2>3
    <2> QED
      BY <1>6, <2>2, <2>3, <2>4
  <1>8. Remaining(t, 0) = 0
    BY <1>5, <1>6
  <1>9. ASSUME NEW i \in 1 .. n
        PROVE  /\ Remaining(t, i - 1) \in Nat
               /\ Remaining(t, i) = Remaining(t, i - 1) + t[i].expires
    <2>1. Remaining(t, i) = sum[i] /\ Remaining(t, i - 1) = sum[i - 1] /\ i - 1 \in 0 .. n
      BY <1>1, <1>5
    <2> QED
      BY <1>6, <1>7, <2>1
  <1> QED
    BY <1>8, <1>9

(* A list given by its elements. *)
LEMMA ListOf ==
    ASSUME NEW S, NEW n \in Nat, NEW f, DOMAIN f = 1 .. n, f = [i \in 1 .. n |-> f[i]],
           \A i \in 1 .. n : f[i] \in S
    PROVE  f \in Seq(S) /\ Len(f) = n
  OBVIOUS

(* add_timer makes no distance negative, and puts no expired timer in front. *)
LEMMA AddTimerExpires ==
    ASSUME NEW P, NEW t, TimersOK(t, P), ~HeadExpired(t), NEW p \in P, NEW e \in Nat \ {0},
           NEW a, a = add_timer(t, p, e)
    PROVE  TimersOK(a, P) /\ ~HeadExpired(a)
  <1> DEFINE Timer == [proc : P, expires : Nat]
  <1>1. PICK n \in Nat : n = Len(t)
    BY DEF TimersOK
  <1>2. PICK pos : pos = InsertPos(t, e)
    OBVIOUS
  <1>3. PICK rest : rest = e - Remaining(t, pos - 1)
    OBVIOUS
  <1>4. \A i \in 1 .. n : /\ t[i] \in Timer /\ Remaining(t, i - 1) \in Nat
                          /\ Remaining(t, i) = Remaining(t, i - 1) + t[i].expires
    BY <1>1, SeqElement, RemainingFacts DEF TimersOK
  <1>5. /\ pos \in 1 .. n + 1 /\ \A j \in 1 .. pos - 1 : ~(e < Remaining(t, j))
        /\ pos <= n => e < Remaining(t, pos)
    BY <1>1, <1>2, InsertPosFacts
  <1>6. rest \in Nat /\ (pos = 1 => rest = e)
    <2>1. CASE pos = 1
      BY <2>1, <1>3, RemainingFacts
    <2>2. CASE pos # 1
      <3>1. pos - 1 \in 1 .. n /\ pos - 1 \in 1 .. pos - 1
        BY <2>2, <1>1, <1>5
      <3>2. Remaining(t, pos - 1) \in Nat /\ ~(e < Remaining(t, pos - 1))
        BY <3>1, <1>4, <1>5
      <3> QED
        BY <2>2, <3>2, <1>3
    <2> QED
      BY <2>1, <2>2
  <1>7. ASSUME pos <= n PROVE t[pos].expires - rest \in Nat
    <2>1. /\ pos \in 1 .. n /\ e < Remaining(t, pos) /\ Remaining(t, pos - 1) \in Nat
          /\ Remaining(t, pos) = Remaining(t, pos - 1) + t[pos].expires
      BY <1>1, <1>4, <1>5, <1>7
    <2>2. t[pos].expires \in Nat
      BY <2>1, <1>4
    <2> QED
      BY <2>1, <2>2, <1>3
  <1>8. a = [i \in 1 .. n + 1 |->
               IF i < pos THEN t[i]
               ELSE IF i = pos THEN [proc |-> p, expires |-> rest]
               ELSE IF i = pos + 1 THEN [t[pos] EXCEPT !.expires = @ - rest]
               ELSE t[i - 1]]
    BY <1>1, <1>2, <1>3 DEF add_timer
  <1>9. ASSUME NEW i \in 1 .. n + 1 PROVE a[i] \in Timer
    <2>1. CASE i < pos
      <3>1. i \in 1 .. n /\ a[i] = t[i]
        BY <2>1, <1>1, <1>5, <1>8
      <3> QED
        BY <3>1, <1>4
    <2>2. CASE i = pos
      <3>1. a[i] = [proc |-> p, expires |-> rest]
        BY <2>2, <1>5, <1>8
      <3> QED
        BY <3>1, <1>6
    <2>3. CASE i = pos + 1
      <3>1. pos \in 1 .. n /\ pos <= n /\ a[i] = [t[pos] EXCEPT !.expires = @ - rest]
        BY <2>3, <1>1, <1>5, <1>8
      <3>2. t[pos] \in Timer /\ t[pos].expires - rest \in Nat
        BY <3>1, <1>4, <1>7
      <3> QED
        BY <3>1, <3>2
    <2>4. CASE i > pos + 1
      <3>1. i - 1 \in 1 .. n /\ a[i] = t[i - 1]
        BY <2>4, <1>1, <1>5, <1>8
      <3> QED
        BY <3>1, <1>4
    <2> QED
      BY <2>1, <2>2, <2>3, <2>4, <1>1, <1>5
  <1>10. a \in Seq(Timer) /\ Len(a) = n + 1
    <2> HIDE DEF Timer
    <2>1. n + 1 \in Nat /\ DOMAIN a = 1 .. n + 1 /\ a = [i \in 1 .. n + 1 |-> a[i]]
      BY <1>8
    <2> QED
      BY <2>1, <1>9, ListOf
  <1>11. a[1].expires # 0
    <2>1. 1 \in 1 .. n + 1
      BY <1>1
    <2>2. CASE pos = 1
      <3>1. a[1] = [proc |-> p, expires |-> rest]
        BY <2>1, <2>2, <1>8
      <3> QED
        BY <3>1, <2>2, <1>6
    <2>3. CASE pos # 1
      <3>1. a[1] = t[1] /\ 1 \in 1 .. n
        BY <2>1, <2>3, <1>1, <1>5, <1>8
      <3>2. t # << >>
        BY <3>1, <1>1
      <3> QED
        BY <3>1, <3>2 DEF HeadExpired
    <2> QED
      BY <2>2, <2>3
  <1> QED
    BY <1>10, <1>11 DEF TimersOK, HeadExpired

(* del_timer makes no distance negative, and brings no expired timer to the
   front. *)
LEMMA DelTimerExpires ==
    ASSUME NEW P, NEW t, TimersOK(t, P), NEW p, NEW d, d = del_timer(t, p)
    PROVE  TimersOK(d, P) /\ (~HeadExpired(t) => ~HeadExpired(d))
  <1> DEFINE Timer == [proc : P, expires : Nat]
  <1>1. CASE ~HasTimer(t, p)
    BY <1>1 DEF del_timer
  <1>2. CASE HasTimer(t, p)
    <2>1. PICK n \in Nat : n = Len(t)
      BY DEF TimersOK
    <2>2. PICK pos \in 1 .. n : pos = CHOOSE i \in 1 .. n : t[i].proc = p
      BY <1>2, <2>1 DEF HasTimer
    <2>3. \A i \in 1 .. n : t[i] \in Timer
      BY <2>1, SeqElement DEF TimersOK
    <2>4. d = [i \in 1 .. n - 1 |->
                 IF i < pos THEN t[i]
                 ELSE IF i = pos THEN [t[pos + 1] EXCEPT !.expires = @ + t[pos].expires]
                 ELSE t[i + 1]]
      BY <1>2, <2>1, <2>2 DEF del_timer
    <2>5. ASSUME NEW i \in 1 .. n - 1
          PROVE  /\ d[i] \in Timer
                 /\ i = pos => d[i].expires = t[pos + 1].expires + t[pos].expires
                 /\ i < pos => d[i] = t[i]
      <3>1. CASE i < pos
        BY <3>1, <2>1, <2>3, <2>4
      <3>2. CASE i = pos
        <4>1. pos + 1 \in 1 .. n /\ d[i] = [t[pos + 1] EXCEPT !.expires = @ + t[pos].expires]
          BY <3>2, <2>1, <2>2, <2>4
        <4>2. PICK u \in Timer : u = t[pos]
          BY <2>2, <2>3, Zenon
        <4>3. PICK v \in Timer : v = t[pos + 1]
          BY <4>1, <2>3, Zenon
        <4>4. d[i] = [v EXCEPT !.expires = @ + u.expires]
          BY <4>1, <4>2, <4>3, Zenon
        <4>5. d[i] \in Timer /\ d[i].expires = v.expires + u.expires
          BY <4>4
        <4>6. ~(i < pos)
          BY <3>2, <2>2
        <4> QED
          BY <4>2, <4>3, <4>5, <4>6
      <3>3. CASE i > pos
        <4>1. i + 1 \in 1 .. n /\ ~(i < pos) /\ i # pos
          BY <3>3
        <4>2. d[i] = t[i + 1]
          BY <4>1, <2>4, Zenon
        <4>3. d[i] \in Timer
          BY <4>1, <4>2, <2>3, Zenon
        <4> QED
          BY <4>1, <4>3
      <3> QED
        BY <3>1, <3>2, <3>3, <2>1, <2>2
    <2>6. d \in Seq(Timer) /\ Len(d) = n - 1
      <3> HIDE DEF Timer
      <3>1. n - 1 \in Nat /\ DOMAIN d = 1 .. n - 1 /\ d = [i \in 1 .. n - 1 |-> d[i]]
        BY <2>1, <2>2, <2>4
      <3> QED
        BY <3>1, <2>5, ListOf
    <2>7. ASSUME ~HeadExpired(t), d # << >> PROVE d[1].expires # 0
      <3>1. 1 \in 1 .. n - 1
        BY <2>1, <2>2, <2>6, <2>7
      <3>2. t[1] \in Timer /\ t[1].expires # 0
        <4>1. t # << >> /\ 1 \in 1 .. n
          BY <3>1, <2>1
        <4> QED
          BY <4>1, <2>3, <2>7 DEF HeadExpired
      <3>3. CASE pos = 1
        <4>1. t[2] \in Timer
          BY <3>1, <2>1, <2>3
        <4>2. d[1].expires = t[2].expires + t[1].expires
          BY <3>1, <3>3, <2>5
        <4> QED
          BY <3>2, <4>1, <4>2
      <3>4. CASE pos # 1
        BY <3>1, <3>2, <3>4, <2>2, <2>5
      <3> QED
        BY <3>3, <3>4
    <2> QED
      BY <2>6, <2>7 DEF TimersOK, HeadExpired
  <1> QED
    BY <1>1, <1>2

(* A tick takes the distance of a head that has not expired down by one. *)
LEMMA TickHeadExpires ==
    ASSUME NEW P, NEW t, TimersOK(t, P), ~HeadExpired(t)
    PROVE  TimersOK(TickHead(t), P)
  <1> DEFINE Timer == [proc : P, expires : Nat]
  <1>1. CASE t = << >>
    BY <1>1 DEF TickHead
  <1>2. CASE t # << >>
    <2>1. t \in Seq(Timer) /\ 1 \in 1 .. Len(t)
      BY <1>2 DEF TimersOK
    <2>2. t[1] \in Timer /\ t[1].expires # 0
      BY <2>1, <1>2, SeqElement DEF HeadExpired
    <2>3. [t[1] EXCEPT !.expires = @ - 1] \in Timer
      BY <2>2
    <2>4. PICK r \in Timer : r = [t[1] EXCEPT !.expires = @ - 1]
      BY <2>3
    <2>5. TickHead(t) = [t EXCEPT ![1] = r]
      BY <1>2, <2>4 DEF TickHead
    <2> HIDE DEF Timer
    <2>6. [t EXCEPT ![1] = r] \in Seq(Timer)
      BY <2>1
    <2> QED
      BY <2>5, <2>6 DEF TimersOK, Timer
  <1> QED
    BY <1>1, <1>2

---------------------------------------------------------------------------
(* init's parent is idle, and no process is its own parent: do_exit would hand
   such a child to nobody. *)
Family ==
    /\ parent[initproc] = idleproc
    /\ \A p \in Procs : parent[p] # p

(* The inductive invariant: none of its parts but RunQueue is inductive by
   itself.  The wakeup in do_exit finds the waiting parent only because
   LiveParent and ControlOK hold, and the timer that fires belongs to a
   process that may be woken only because of SleepersHaveTimers. *)
Inv ==
    /\ TypeOK
    /\ RunQueue
    /\ ControlOK
    /\ NoLostChild
    /\ LiveParent
    /\ SleepersHaveTimers
    /\ DistinctOwners(timers)
    /\ Family

USE DEF RunQueue

(* Initially the children of init are queued and nobody waits. *)
LEMMA InitInv == Init => Inv
  <1> SUFFICES ASSUME Init PROVE Inv
    OBVIOUS
  <1>1. IsTimerList(timers, Procs) /\ DistinctOwners(timers) /\ \A p : ~HasTimer(timers, p)
    BY DEF Init, IsTimerList, DistinctOwners, HasTimer
  <1>2. PICK order \in [1 .. Cardinality(FirstChildren) -> FirstChildren] :
          /\ \A i, j \in DOMAIN order : order[i] = order[j] => i = j
          /\ \A p \in FirstChildren : \E i \in DOMAIN order : order[i] = p
          /\ k = [current |-> initproc,
                  state |-> [p \in Procs |->
                                IF p \in FirstChildren \cup {initproc, idleproc}
                                THEN "PROC_RUNNABLE" ELSE "FREE"],
                  wait_state |-> [p \in Procs |-> "0"],
                  run_list |-> order,
                  time_slice |-> [p \in Procs |->
                                     IF p \in FirstChildren \cup {initproc}
                                     THEN MaxTimeSlice ELSE 0],
                  need_resched |-> [p \in Procs |-> FALSE],
                  panic |-> FALSE]
    BY DEF Init
  <1>3. Cardinality(FirstChildren) \in Nat
    BY InitAssumption, FS_CardinalityType
  <1>4. order \in Seq(Procs) /\ Len(order) = Cardinality(FirstChildren)
    BY <1>2, <1>3, InitAssumption
  <1>5. /\ k.current = initproc /\ k.run_list = order
        /\ k.state = [p \in Procs |-> IF p \in FirstChildren \cup {initproc, idleproc}
                                      THEN "PROC_RUNNABLE" ELSE "FREE"]
        /\ k.wait_state = [p \in Procs |-> "0"]
    BY <1>2
  <1>6. k \in SchedRecords
    <2>1. [p \in Procs |-> IF p \in FirstChildren \cup {initproc} THEN MaxTimeSlice ELSE 0]
             \in [Procs -> 0 .. MaxTimeSlice]
      BY SliceAssumption
    <2>2. /\ k.state \in [Procs -> ProcStates] /\ k.wait_state \in [Procs -> WaitStates]
          /\ [p \in Procs |-> FALSE] \in [Procs -> BOOLEAN] /\ initproc \in Procs
      BY <1>5, InitAssumption DEF ProcStates, WaitStates
    <2> QED
      BY <1>2, <1>4, <1>5, <2>1, <2>2 DEF SchedRecords
  <1>7. TypeOK
    <2>1. parent \in [Procs -> Procs \cup {NoProc}]
      BY InitAssumption, IdleAssumption DEF Init
    <2>2. /\ exiting \in [Procs -> BOOLEAN] /\ waitfor \in [Procs -> Procs \cup {AnyChild}]
          /\ in_timer \in BOOLEAN /\ pc \in [Procs -> PCs]
      BY DEF Init, PCs
    <2>3. nr_process \in Int
      BY <1>3 DEF Init
    <2> QED
      BY <1>1, <1>6, <2>1, <2>2, <2>3 DEF TypeOK
  <1>8. RunQueueOK(k)
    <2>1. ASSUME NEW p \in Procs
          PROVE  OnRunList(k, p) <=> p \in FirstChildren
      BY <1>2, <1>4, <1>5 DEF OnRunList
    <2>2. \A p \in Procs : p \in FirstChildren <=>
            (k.state[p] = "PROC_RUNNABLE" /\ p # k.current /\ p # idleproc)
      BY <1>5, InitAssumption
    <2>3. \A i, j \in 1 .. Len(k.run_list) : k.run_list[i] = k.run_list[j] => i = j
      BY <1>2, <1>4, <1>5
    <2> QED
      BY <2>1, <2>2, <2>3 DEF RunQueueOK
  <1>9. ControlOK
    BY <1>5, InitAssumption, IdleAssumption DEF Init, ControlOK, Kernel
  <1>10. NoLostChild /\ SleepersHaveTimers
    BY <1>1, <1>5 DEF NoLostChild, SleepersHaveTimers
  <1>11. LiveParent
    BY <1>5, InitAssumption, IdleAssumption DEF Init, LiveParent
  <1>family. Family
    BY InitAssumption, IdleAssumption DEF Init, Family
  <1> QED
    BY <1>family, <1>1, <1>7, <1>8, <1>9, <1>10, <1>11 DEF Inv

---------------------------------------------------------------------------
(* The actions that move the program counter of the running process, set the
   argument of its do_wait or PF_EXITING flags, and leave every process in its
   scheduling state. *)
LEMMA MoveInv ==
    ASSUME Inv, NEW p \in Procs, p = k.current, ~in_timer,
           NEW c \in PCs, pc' = [pc EXCEPT ![p] = c],
           c \notin {"exit_call", "dead"}, pc[p] \notin {"wait_call", "sleep_call", "exit_call", "read_call"},
           pc[p] # "sleep_woken",
           p # idleproc,
           p = initproc => c \in {"wait", "wait_call", "wait_woken", "init_sched", "done"},
           waitfor' = waitfor \/ \E pid \in Procs \cup {AnyChild} :
                                    waitfor' = [waitfor EXCEPT ![p] = pid],
           exiting' \in [Procs -> BOOLEAN], ~exiting'[initproc],
           k' \in SchedRecords, RunQueueOK(k'), k'.current = k.current,
           k'.state = k.state, k'.wait_state = k.wait_state,
           UNCHANGED <<parent, timers, in_timer, nr_process>>
    PROVE  Inv'
  <1>1. TypeOK'
    BY ZenonT(40) DEF Inv, TypeOK
  <1>2. k.state[p] = "PROC_RUNNABLE"
    BY DEF Inv, ControlOK
  <1>3. ControlOK'
    BY <1>2 DEF Inv, ControlOK, TypeOK
  <1>4. NoLostChild'
    <2>1. \A q \in Procs : q # p => waitfor'[q] = waitfor[q]
      BY DEF Inv, TypeOK
    <2>2. ASSUME NEW q \in Procs, k.state[q] = "PROC_SLEEPING"
          PROVE  Awaited(q)' = Awaited(q) /\ Zombies' = Zombies
      BY <1>2, <2>1, <2>2 DEF Awaited, Kids, Zombies
    <2> QED
      BY <2>2 DEF Inv, NoLostChild
  <1>5. LiveParent' /\ DistinctOwners(timers)'
    BY DEF Inv, LiveParent, DistinctOwners
  <1>6. SleepersHaveTimers'
    <2>1. ~HasTimer(timers, p)
      BY DEF Inv, SleepersHaveTimers
    <2> QED
      BY <2>1 DEF Inv, SleepersHaveTimers, TypeOK, HasTimer
  <1>family. Family'
    BY DEF Inv, Family
  <1> QED
    BY <1>family, <1>1, <1>3, <1>4, <1>5, <1>6 DEF Inv

(* The call of schedule() at one of its places. *)
LEMMA CallScheduleInv ==
    ASSUME Inv, NEW p \in Procs, CallSchedule(p)
    PROVE  Inv'
  <1>1. /\ k' \in SchedRecords /\ RunQueueOK(k')
        /\ k'.state = k.state /\ k'.wait_state = k.wait_state
        /\ k'.current = idleproc \/ k.state[k'.current] = "PROC_RUNNABLE"
    BY ScheduleFacts DEF Inv, TypeOK, CallSchedule
  <1>2. /\ p = k.current /\ pc[p] \in {"wait_call", "sleep_call", "exit_call", "resched", "init_sched"}
        /\ ~in_timer /\ ~in_timer'
        /\ UNCHANGED <<parent, exiting, waitfor, timers, in_timer, nr_process>>
    BY DEF CallSchedule, Resume
  <1>3. /\ pc' = [pc EXCEPT ![p] = Resume[pc[p]]]
        /\ Resume[pc[p]] = CASE pc[p] = "wait_call"  -> "wait_woken"
                             [] pc[p] = "sleep_call" -> "sleep_woken"
                             [] pc[p] = "exit_call"  -> "dead"
                             [] pc[p] = "resched"    -> "user"
                             [] pc[p] = "init_sched" -> "wait"
    BY <1>2 DEF CallSchedule, Goto, Resume
  <1>4. Resume[pc[p]] \in PCs
    BY <1>2, <1>3 DEF PCs
  <1>5. TypeOK'
    BY <1>1, <1>2, <1>3, <1>4 DEF Inv, TypeOK
  <1>6. \A q \in Procs : pc'[q] = IF q = p THEN Resume[pc[p]] ELSE pc[q]
    BY <1>3 DEF Inv, TypeOK
  <1>7. ControlOK'
    <2>1. ASSUME NEW q \in Procs
          PROVE  /\ k'.wait_state[q] # "0" => k'.state[q] = "PROC_SLEEPING"
                 /\ k'.state[q] = "PROC_ZOMBIE" <=> pc'[q] \in {"exit_call", "dead"}
                 /\ k'.state[q] = "FREE" => pc'[q] = "user"
      BY <1>1, <1>2, <1>3, <1>6 DEF Inv, ControlOK
    <2>2. k'.current \in Procs /\ k'.state[k'.current] = "PROC_RUNNABLE"
      BY <1>1 DEF Inv, ControlOK, SchedRecords
    <2>3. /\ k'.state[idleproc] = "PROC_RUNNABLE" /\ pc'[idleproc] = "user"
          /\ k'.state[initproc] \in {"PROC_SLEEPING", "PROC_RUNNABLE"}
          /\ pc'[initproc] \in {"wait", "wait_call", "wait_woken", "init_sched", "done"}
          /\ ~exiting'[initproc]
      BY <1>1, <1>2, <1>3, <1>6, InitAssumption, IdleAssumption DEF Inv, ControlOK
    <2> QED
      BY <2>1, <2>2, <2>3, <1>2 DEF ControlOK
  <1>8. NoLostChild' /\ LiveParent'
    BY <1>1, <1>2 DEF Inv, NoLostChild, LiveParent, Awaited, Kids, Zombies
  <1>9. SleepersHaveTimers' /\ DistinctOwners(timers)'
    BY <1>1, <1>2, <1>3, <1>6 DEF Inv, SleepersHaveTimers, DistinctOwners, HasTimer
  <1>family. Family'
    BY <1>2 DEF Inv, Family
  <1> QED
    BY <1>family, <1>1, <1>5, <1>7, <1>8, <1>9 DEF Inv

(* The idle loop gives up the CPU. *)
LEMMA CpuIdleInv ==
    ASSUME Inv, cpu_idle
    PROVE  Inv'
  <1>1. /\ k' \in SchedRecords /\ RunQueueOK(k')
        /\ k'.state = k.state /\ k'.wait_state = k.wait_state
        /\ k'.current = idleproc \/ k.state[k'.current] = "PROC_RUNNABLE"
    BY ScheduleFacts DEF Inv, TypeOK, cpu_idle
  <1>2. ~in_timer' /\ UNCHANGED <<parent, exiting, waitfor, timers, in_timer, nr_process, pc>>
    BY DEF cpu_idle, At
  <1>3. TypeOK'
    BY <1>1, <1>2 DEF Inv, TypeOK
  <1>4. ControlOK'
    <2>1. k'.state[k'.current] = "PROC_RUNNABLE"
      BY <1>1 DEF Inv, ControlOK
    <2> QED
      BY <1>1, <1>2, <2>1 DEF Inv, ControlOK
  <1>5. NoLostChild' /\ LiveParent'
    BY <1>1, <1>2 DEF Inv, NoLostChild, LiveParent, Awaited, Kids, Zombies
  <1>6. SleepersHaveTimers' /\ DistinctOwners(timers)'
    BY <1>1, <1>2 DEF Inv, SleepersHaveTimers, DistinctOwners, HasTimer
  <1>family. Family'
    BY <1>2 DEF Inv, Family
  <1> QED
    BY <1>family, <1>1, <1>3, <1>4, <1>5, <1>6 DEF Inv

(* do_wait goes to sleep: it has just seen that no awaited child is dead. *)
LEMMA DoWaitSleepInv ==
    ASSUME Inv, NEW p \in Procs, do_wait_sleep(p)
    PROVE  Inv'
  <1>1. /\ p = k.current /\ pc[p] = "wait" /\ ~in_timer
        /\ Awaited(p) \cap Zombies = {}
        /\ pc' = [pc EXCEPT ![p] = "wait_call"]
        /\ UNCHANGED <<parent, exiting, waitfor, timers, in_timer, nr_process>>
    BY DEF do_wait_sleep, At, Goto
  <1>2. /\ k' \in SchedRecords /\ RunQueueOK(k') /\ k'.current = p
        /\ k'.state = [k.state EXCEPT ![p] = "PROC_SLEEPING"]
        /\ k'.wait_state = [k.wait_state EXCEPT ![p] = "WT_CHILD"]
    BY <1>1, SleepCurrentFacts, ZenonT(40) DEF do_wait_sleep, Inv, TypeOK, WaitStates
  <1>3. p # idleproc /\ k.state[p] = "PROC_RUNNABLE"
    BY <1>1 DEF Inv, ControlOK
  <1>4. \A q \in Procs :
           /\ k'.state[q] = IF q = p THEN "PROC_SLEEPING" ELSE k.state[q]
           /\ k'.wait_state[q] = IF q = p THEN "WT_CHILD" ELSE k.wait_state[q]
           /\ pc'[q] = IF q = p THEN "wait_call" ELSE pc[q]
    BY <1>1, <1>2 DEF Inv, TypeOK, SchedRecords
  <1>5. TypeOK'
    BY <1>1, <1>2 DEF Inv, TypeOK, PCs
  <1>6. ControlOK'
    BY <1>1, <1>2, <1>3, <1>4, InitAssumption, IdleAssumption DEF Inv, ControlOK
  <1>7. NoLostChild'
    <2>1. Zombies' = Zombies /\ \A q \in Procs : Awaited(q)' = Awaited(q)
      BY <1>1, <1>3, <1>4 DEF Zombies, Awaited, Kids
    <2> QED
      BY <1>1, <1>4, <2>1 DEF Inv, NoLostChild
  <1>8. LiveParent'
    BY <1>1, <1>3, <1>4 DEF Inv, LiveParent
  <1>9. SleepersHaveTimers' /\ DistinctOwners(timers)'
    BY <1>1, <1>4 DEF Inv, SleepersHaveTimers, DistinctOwners, HasTimer
  <1>family. Family'
    BY <1>1 DEF Inv, Family
  <1> QED
    BY <1>family, <1>2, <1>5, <1>6, <1>7, <1>8, <1>9 DEF Inv

(* do_sleep puts the caller to sleep and its timer into the list. *)
LEMMA DoSleepInv ==
    ASSUME Inv, NEW p \in Procs, NEW t \in SleepTimes, do_sleep(p, t)
    PROVE  Inv'
  <1> DEFINE a == Assert_(k, t > 0 /\ ~HasTimer(timers, p))
  <1>1. /\ p = k.current /\ pc[p] = "user" /\ ~in_timer /\ p \notin {idleproc, initproc}
        /\ k' = SleepCurrent(a, "WT_TIMER")
        /\ timers' = add_timer(timers, p, t)
        /\ pc' = [pc EXCEPT ![p] = "sleep_call"]
        /\ UNCHANGED <<parent, exiting, waitfor, in_timer, nr_process>>
    BY DEF do_sleep, Calls, At, Goto
  <1>2. /\ a \in SchedRecords /\ a.current = p /\ a.state = k.state
        /\ a.wait_state = k.wait_state /\ a.run_list = k.run_list
    BY <1>1, AssertFacts DEF Inv, TypeOK
  <1> HIDE DEF a
  <1>3. RunQueueOK(a)
    BY <1>1, <1>2, RunQueueFrame DEF Inv, TypeOK
  <1>4. /\ k' \in SchedRecords /\ RunQueueOK(k') /\ k'.current = p
        /\ k'.state = [k.state EXCEPT ![p] = "PROC_SLEEPING"]
        /\ k'.wait_state = [k.wait_state EXCEPT ![p] = "WT_TIMER"]
    <2>1. "WT_TIMER" \in WaitStates
      BY DEF WaitStates
    <2>2. /\ k' \in SchedRecords /\ RunQueueOK(k') /\ k'.current = a.current
          /\ k'.state = [a.state EXCEPT ![a.current] = "PROC_SLEEPING"]
          /\ k'.wait_state = [a.wait_state EXCEPT ![a.current] = "WT_TIMER"]
      BY <2>1, <1>1, <1>2, <1>3, SleepCurrentFacts
    <2> QED
      BY <2>2, <1>2
  <1>5. k.state[p] = "PROC_RUNNABLE" /\ ~HasTimer(timers, p)
    BY <1>1 DEF Inv, ControlOK, SleepersHaveTimers
  <1>6. \A q \in Procs :
           /\ k'.state[q] = IF q = p THEN "PROC_SLEEPING" ELSE k.state[q]
           /\ k'.wait_state[q] = IF q = p THEN "WT_TIMER" ELSE k.wait_state[q]
           /\ pc'[q] = IF q = p THEN "sleep_call" ELSE pc[q]
    BY <1>1, <1>4 DEF Inv, TypeOK, SchedRecords
  <1>7. /\ IsTimerList(timers', Procs) /\ DistinctOwners(timers')
        /\ \A q : HasTimer(timers', q) <=> (q = p \/ HasTimer(timers, q))
    BY <1>1, <1>5, AddTimerFacts DEF Inv, TypeOK
  <1>8. TypeOK'
    BY <1>1, <1>4, <1>7 DEF Inv, TypeOK, PCs
  <1>9. ControlOK'
    BY <1>1, <1>4, <1>5, <1>6, InitAssumption, IdleAssumption DEF Inv, ControlOK
  <1>10. NoLostChild'
    <2>1. Zombies' = Zombies /\ \A q \in Procs : Awaited(q)' = Awaited(q)
      BY <1>1, <1>5, <1>6 DEF Zombies, Awaited, Kids
    <2> QED
      BY <1>6, <2>1 DEF Inv, NoLostChild
  <1>11. LiveParent'
    BY <1>1, <1>5, <1>6 DEF Inv, LiveParent
  <1>12. SleepersHaveTimers'
    BY <1>6, <1>7 DEF Inv, SleepersHaveTimers
  <1>family. Family'
    BY <1>1 DEF Inv, Family
  <1> QED
    BY <1>family, <1>4, <1>7, <1>8, <1>9, <1>10, <1>11, <1>12 DEF Inv

(* Behind schedule(), do_sleep takes its timer out of the list. *)
LEMMA DoSleepWokenInv ==
    ASSUME Inv, NEW p \in Procs, do_sleep_woken(p)
    PROVE  Inv'
  <1>1. /\ p = k.current /\ pc[p] = "sleep_woken" /\ ~in_timer
        /\ timers' = del_timer(timers, p)
        /\ UNCHANGED <<k, parent, exiting, waitfor, in_timer, nr_process>>
    BY DEF do_sleep_woken, At
  <1>2. PICK c \in {"user", "trapret"} : pc' = [pc EXCEPT ![p] = c]
    BY DEF do_sleep_woken, Return, Goto
  <1>3. p # idleproc /\ p # initproc /\ k.state[p] = "PROC_RUNNABLE" /\ k.wait_state[p] = "0"
    BY <1>1 DEF Inv, ControlOK
  <1>4. \A q \in Procs : pc'[q] = IF q = p THEN c ELSE pc[q]
    BY <1>2 DEF Inv, TypeOK
  <1>5. /\ IsTimerList(timers', Procs) /\ DistinctOwners(timers') /\ ~HasTimer(timers', p)
        /\ \A q : q # p => (HasTimer(timers', q) <=> HasTimer(timers, q))
    BY <1>1, DelTimerFacts DEF Inv, TypeOK
  <1>6. TypeOK'
    BY <1>1, <1>2, <1>5 DEF Inv, TypeOK, PCs
  <1>7. ControlOK'
    <2>1. ASSUME NEW q \in Procs
          PROVE  /\ k.wait_state[q] # "0" => k.state[q] = "PROC_SLEEPING"
                 /\ k.state[q] = "PROC_ZOMBIE" <=> pc'[q] \in {"exit_call", "dead"}
                 /\ k.state[q] = "FREE" => pc'[q] = "user"
      BY <1>1, <1>2, <1>3, <1>4 DEF Inv, ControlOK
    <2> QED
      BY <2>1, <1>1, <1>3, <1>4, InitAssumption, IdleAssumption DEF Inv, ControlOK
  <1>8. NoLostChild' /\ LiveParent' /\ RunQueueOK(k')
    BY <1>1 DEF Inv, NoLostChild, LiveParent, Awaited, Kids, Zombies
  <1>9. SleepersHaveTimers'
    BY <1>1, <1>3, <1>4, <1>5 DEF Inv, SleepersHaveTimers
  <1>family. Family'
    BY <1>1 DEF Inv, Family
  <1> QED
    BY <1>family, <1>5, <1>6, <1>7, <1>8, <1>9 DEF Inv

(* ClearProc sets the fields of one slot. *)
LEMMA ClearProcFacts ==
    ASSUME NEW a \in SchedRecords, NEW c \in Procs, NEW s \in ProcStates,
           s # "PROC_RUNNABLE", a.state[c] # "PROC_RUNNABLE", RunQueueOK(a),
           NEW b, b = ClearProc(a, c, s)
    PROVE  /\ b \in SchedRecords /\ RunQueueOK(b) /\ b.current = a.current
           /\ b.state = [a.state EXCEPT ![c] = s]
           /\ b.wait_state = [a.wait_state EXCEPT ![c] = "0"]
  <1> DEFINE st == [a.state EXCEPT ![c] = s]
             ws == [a.wait_state EXCEPT ![c] = "0"]
             ts == [a.time_slice EXCEPT ![c] = 0]
             nr == [a.need_resched EXCEPT ![c] = FALSE]
  <1>1. /\ st \in [Procs -> ProcStates] /\ ws \in [Procs -> WaitStates]
        /\ ts \in [Procs -> 0 .. MaxTimeSlice] /\ nr \in [Procs -> BOOLEAN]
    BY SliceAssumption DEF SchedRecords, WaitStates
  <1>2. \A x \in Procs : st[x] = "PROC_RUNNABLE" <=> a.state[x] = "PROC_RUNNABLE"
    BY DEF SchedRecords
  <1> HIDE DEF st, ws, ts, nr
  <1>3. b = [a EXCEPT !.state = st, !.wait_state = ws, !.time_slice = ts, !.need_resched = nr]
    BY DEF ClearProc, st, ws, ts, nr
  <1>4. /\ b \in SchedRecords /\ b.current = a.current /\ b.run_list = a.run_list
        /\ b.state = st /\ b.wait_state = ws
    BY <1>1, <1>3 DEF SchedRecords
  <1>5. RunQueueOK(b)
    BY <1>2, <1>4, RunQueueFrame
  <1> QED
    BY <1>4, <1>5 DEF st, ws

(* do_fork makes a free slot a runnable child of the caller. *)
LEMMA DoForkInv ==
    ASSUME Inv, NEW p \in Procs, NEW c \in Procs, do_fork(p, c)
    PROVE  Inv'
  <1> DEFINE a == Assert_(k, k.wait_state[p] = "0")
             b == ClearProc(a, c, "PROC_UNINIT")
  <1>1. /\ p = k.current /\ pc[p] = "user" /\ ~in_timer /\ p \notin {idleproc, initproc}
        /\ k.state[c] = "FREE"
        /\ k' = wakeup_proc(b, c)
        /\ parent' = [parent EXCEPT ![c] = p]
        /\ exiting' = [exiting EXCEPT ![c] = FALSE]
        /\ nr_process' = nr_process + 1
        /\ pc' = [pc EXCEPT ![c] = "user", ![p] = "trapret"]
        /\ UNCHANGED <<waitfor, timers, in_timer>>
    BY DEF do_fork, Calls, At
  <1>2. /\ a \in SchedRecords /\ a.current = p /\ a.state = k.state
        /\ a.wait_state = k.wait_state /\ a.run_list = k.run_list
    BY <1>1, AssertFacts DEF Inv, TypeOK
  <1> HIDE DEF a
  <1>3. RunQueueOK(a)
    BY <1>1, <1>2, RunQueueFrame DEF Inv, TypeOK
  <1>4. /\ b \in SchedRecords /\ RunQueueOK(b) /\ b.current = p
        /\ b.state = [k.state EXCEPT ![c] = "PROC_UNINIT"]
        /\ b.wait_state = [k.wait_state EXCEPT ![c] = "0"]
    <2>1. "PROC_UNINIT" \in ProcStates /\ a.state[c] # "PROC_RUNNABLE"
      BY <1>1, <1>2 DEF ProcStates
    <2>2. /\ b \in SchedRecords /\ RunQueueOK(b) /\ b.current = a.current
          /\ b.state = [a.state EXCEPT ![c] = "PROC_UNINIT"]
          /\ b.wait_state = [a.wait_state EXCEPT ![c] = "0"]
      BY <2>1, <1>2, <1>3, ClearProcFacts
    <2> QED
      BY <2>2, <1>2
  <1> HIDE DEF b
  <1>5. /\ k' \in SchedRecords /\ RunQueueOK(k') /\ k'.current = p
        /\ k'.state = [b.state EXCEPT ![c] = "PROC_RUNNABLE"]
        /\ k'.wait_state = IF b.state[c] = "PROC_RUNNABLE" THEN b.wait_state
                           ELSE [b.wait_state EXCEPT ![c] = "0"]
    <2>1. /\ k' \in SchedRecords /\ RunQueueOK(k') /\ k'.current = b.current
          /\ k'.state = [b.state EXCEPT ![c] = "PROC_RUNNABLE"]
          /\ k'.wait_state = IF b.state[c] = "PROC_RUNNABLE" THEN b.wait_state
                             ELSE [b.wait_state EXCEPT ![c] = "0"]
      <3>1. k' = wakeup_proc(b, c)
        BY <1>1
      <3> QED
        BY <3>1, <1>4, WakeupFacts, SMTT(30)
    <2> QED
      BY <2>1, <1>4
  <1>6. k.state[p] = "PROC_RUNNABLE" /\ c # p /\ c # idleproc /\ c # initproc
    BY <1>1 DEF Inv, ControlOK
  <1>7. \A q \in Procs :
           /\ k'.state[q] = IF q = c THEN "PROC_RUNNABLE" ELSE k.state[q]
           /\ k'.wait_state[q] = IF q = c THEN "0" ELSE k.wait_state[q]
           /\ pc'[q] = IF q = p THEN "trapret" ELSE IF q = c THEN "user" ELSE pc[q]
           /\ parent'[q] = IF q = c THEN p ELSE parent[q]
           /\ exiting'[q] = IF q = c THEN FALSE ELSE exiting[q]
    BY <1>1, <1>4, <1>5, <1>6 DEF Inv, TypeOK, SchedRecords
  <1>8. TypeOK'
    BY <1>1, <1>5 DEF Inv, TypeOK, PCs
  <1>9. ControlOK'
    <2>1. ASSUME NEW q \in Procs
          PROVE  /\ k'.wait_state[q] # "0" => k'.state[q] = "PROC_SLEEPING"
                 /\ k'.state[q] = "PROC_ZOMBIE" <=> pc'[q] \in {"exit_call", "dead"}
                 /\ k'.state[q] = "FREE" => pc'[q] = "user"
      <3>1. /\ k.wait_state[q] # "0" => k.state[q] = "PROC_SLEEPING"
            /\ k.state[q] = "PROC_ZOMBIE" <=> pc[q] \in {"exit_call", "dead"}
            /\ k.state[q] = "FREE" => pc[q] = "user"
        BY DEF Inv, ControlOK
      <3>2. pc[p] = "user" /\ k.state[c] = "FREE"
        BY <1>1
      <3> QED
        BY <3>1, <3>2, <1>6, <1>7
    <2>2. k'.state[k'.current] = "PROC_RUNNABLE" /\ ~in_timer'
      BY <1>1, <1>5, <1>6, <1>7
    <2>3. /\ k'.state[idleproc] = "PROC_RUNNABLE" /\ pc'[idleproc] = "user"
          /\ k'.state[initproc] \in {"PROC_SLEEPING", "PROC_RUNNABLE"}
          /\ pc'[initproc] \in {"wait", "wait_call", "wait_woken", "init_sched", "done"}
          /\ ~exiting'[initproc]
      <3>1. p # idleproc /\ p # initproc /\ idleproc \in Procs /\ initproc \in Procs
        BY <1>1, InitAssumption, IdleAssumption
      <3> QED
        BY <3>1, <1>6, <1>7 DEF Inv, ControlOK
    <2> QED
      BY <2>1, <2>2, <2>3 DEF ControlOK
  <1>10. NoLostChild'
    <2>1. ASSUME NEW q \in Procs, k'.state[q] = "PROC_SLEEPING", k'.wait_state[q] = "WT_CHILD"
          PROVE  (Awaited(q) \cap Zombies)' = {}
      <3>1. q # c /\ q # p /\ Awaited(q) \cap Zombies = {}
        BY <2>1, <1>6, <1>7 DEF Inv, NoLostChild
      <3>2. ASSUME NEW x \in Procs, parent'[x] = q, k'.state[x] = "PROC_ZOMBIE"
            PROVE  parent[x] = q /\ k.state[x] = "PROC_ZOMBIE"
        BY <3>1, <3>2, <1>7
      <3>3. waitfor' = waitfor
        BY <1>1
      <3> QED
        BY <3>1, <3>2, <3>3 DEF Awaited, Kids, Zombies
    <2> QED
      BY <2>1 DEF NoLostChild
  <1>11. LiveParent'
    <2> SUFFICES ASSUME NEW q \in Procs \ {idleproc}, k'.state[q] # "FREE"
                 PROVE  /\ parent'[q] \in Procs
                        /\ k'.state[parent'[q]] \notin {"FREE", "PROC_ZOMBIE"}
      BY DEF LiveParent
    <2>1. CASE q = c
      BY <2>1, <1>6, <1>7
    <2>2. CASE q # c
      <3>1. parent'[q] = parent[q] /\ parent[q] \in Procs
            /\ k.state[parent[q]] \notin {"FREE", "PROC_ZOMBIE"}
        BY <2>2, <1>7 DEF Inv, LiveParent
      <3> QED
        BY <3>1, <1>1, <1>7, ZenonT(40)
    <2> QED
      BY <2>1, <2>2
  <1>12. SleepersHaveTimers' /\ DistinctOwners(timers)'
    <2>1. ~HasTimer(timers, p) /\ ~HasTimer(timers, c)
      BY <1>1 DEF Inv, SleepersHaveTimers, ControlOK
    <2>2. timers' = timers
      BY <1>1
    <2>3. ASSUME NEW q \in Procs
          PROVE  /\ k'.wait_state[q] = "WT_TIMER" => HasTimer(timers, q)
                 /\ HasTimer(timers, q) => pc'[q] \in {"sleep_call", "sleep_woken"}
      BY <2>1, <1>7 DEF Inv, SleepersHaveTimers
    <2> QED
      BY <2>2, <2>3 DEF Inv, SleepersHaveTimers, DistinctOwners, HasTimer
  <1>family. Family'
    BY <1>1, <1>6, <1>7, InitAssumption DEF Inv, Family
  <1> QED
    BY <1>family, <1>5, <1>8, <1>9, <1>10, <1>11, <1>12 DEF Inv

(* do_exit: the zombie's children go to init, its parent and init are woken
   when they wait. *)
LEMMA DoExitInv ==
    ASSUME Inv, NEW p \in Procs, do_exit(p)
    PROVE  Inv'
  <1> DEFINE a == Assert_(k, p # initproc)
             b == [a EXCEPT !.state = [a.state EXCEPT ![p] = "PROC_ZOMBIE"]]
             c == WakeParent(b, p)
             Dead == Kids(p) \cap Zombies # {}
  <1>1. /\ p = k.current /\ pc[p] = "exit" /\ ~in_timer
        /\ k' = WakeInit(c, p)
        /\ parent' = Reparent(p)
        /\ pc' = [pc EXCEPT ![p] = "exit_call"]
        /\ UNCHANGED <<exiting, waitfor, timers, in_timer, nr_process>>
    BY DEF do_exit, At, Goto
  <1>2. p # idleproc /\ p # initproc /\ k.state[p] = "PROC_RUNNABLE" /\ k.wait_state[p] = "0"
    BY <1>1 DEF Inv, ControlOK
  <1>3. parent[p] \in Procs /\ parent[p] # p /\ k.state[parent[p]] # "PROC_ZOMBIE"
    BY <1>2 DEF Inv, LiveParent, Family
  <1>4. /\ a \in SchedRecords /\ a.current = p /\ a.state = k.state
        /\ a.wait_state = k.wait_state /\ a.run_list = k.run_list
    BY <1>1, AssertFacts DEF Inv, TypeOK
  <1> HIDE DEF a
  <1>5. /\ b \in SchedRecords /\ b.current = p /\ b.run_list = a.run_list
        /\ b.state = [k.state EXCEPT ![p] = "PROC_ZOMBIE"]
        /\ b.wait_state = k.wait_state
    <2> DEFINE st == [a.state EXCEPT ![p] = "PROC_ZOMBIE"]
    <2>1. st \in [Procs -> ProcStates]
      BY <1>4 DEF SchedRecords, ProcStates
    <2> HIDE DEF st
    <2>2. b = [a EXCEPT !.state = st]
      BY DEF st
    <2>3. /\ b \in SchedRecords /\ b.current = a.current /\ b.run_list = a.run_list
          /\ b.state = st /\ b.wait_state = a.wait_state
      BY <2>1, <2>2, <1>4 DEF SchedRecords
    <2> QED
      BY <2>3, <1>4 DEF st
  <1> HIDE DEF b
  <1>6. \A x \in Procs : b.state[x] = IF x = p THEN "PROC_ZOMBIE" ELSE k.state[x]
    BY <1>5 DEF Inv, TypeOK, SchedRecords
  <1>7. RunQueueOK(b)
    <2>1. RunQueueOK(a)
      BY <1>1, <1>4, RunQueueFrame DEF Inv, TypeOK
    <2>2. b.current = a.current /\ b.run_list = a.run_list
      BY <1>4, <1>5
    <2>3. \A x \in Procs : x # a.current =>
             (b.state[x] = "PROC_RUNNABLE" <=> a.state[x] = "PROC_RUNNABLE")
      BY <1>4, <1>6
    <2>4. a \in SchedRecords /\ b \in SchedRecords
      BY <1>4, <1>5
    <2> QED
      BY <2>1, <2>2, <2>3, <2>4, RunQueueFrame
  <1>8. /\ c \in SchedRecords /\ RunQueueOK(c) /\ c.current = p
        /\ c.wait_state[parent[p]] # "WT_CHILD"
        /\ \A x \in Procs :
              \/ c.state[x] = b.state[x] /\ c.wait_state[x] = b.wait_state[x]
              \/ /\ b.state[x] = "PROC_SLEEPING" /\ b.wait_state[x] = "WT_CHILD"
                 /\ c.state[x] = "PROC_RUNNABLE" /\ c.wait_state[x] = "0"
    <2>1. c = IF b.wait_state[parent[p]] = "WT_CHILD" THEN wakeup_proc(b, parent[p]) ELSE b
      BY DEF WakeParent
    <2>2. b.wait_state[parent[p]] = "WT_CHILD" => b.state[parent[p]] = "PROC_SLEEPING"
      BY <1>3, <1>5, <1>6 DEF Inv, ControlOK
    <2> HIDE DEF c
    <2>3. CASE b.wait_state[parent[p]] = "WT_CHILD"
      <3>1. c = wakeup_proc(b, parent[p]) /\ b.state[parent[p]] = "PROC_SLEEPING"
        BY <2>1, <2>2, <2>3
      <3>2. b \in SchedRecords /\ RunQueueOK(b) /\ parent[p] \in Procs
        BY <1>3, <1>5, <1>7
      <3>3. /\ c \in SchedRecords /\ RunQueueOK(c) /\ c.current = b.current
            /\ \A x \in Procs :
                  /\ c.state[x] = IF x = parent[p] THEN "PROC_RUNNABLE" ELSE b.state[x]
                  /\ c.wait_state[x] = IF x = parent[p] THEN "0" ELSE b.wait_state[x]
        BY <3>1, <3>2, WakeupPointwise
      <3> QED
        BY <2>3, <3>1, <3>2, <3>3, <1>5
    <2>4. CASE b.wait_state[parent[p]] # "WT_CHILD"
      <3>1. c = b
        BY <2>1, <2>4
      <3> QED
        BY <2>4, <3>1, <1>3, <1>5, <1>7, <1>5
    <2> QED
      BY <2>3, <2>4
  <1> HIDE DEF c
  <1>9. /\ k' \in SchedRecords /\ RunQueueOK(k') /\ k'.current = p
        /\ Dead => k'.wait_state[initproc] # "WT_CHILD"
        /\ \A x \in Procs :
              \/ k'.state[x] = c.state[x] /\ k'.wait_state[x] = c.wait_state[x]
              \/ /\ c.state[x] = "PROC_SLEEPING" /\ c.wait_state[x] = "WT_CHILD"
                 /\ k'.state[x] = "PROC_RUNNABLE" /\ k'.wait_state[x] = "0"
    <2>1. k' = IF Dead /\ c.wait_state[initproc] = "WT_CHILD" THEN wakeup_proc(c, initproc) ELSE c
      BY <1>1 DEF WakeInit
    <2>2. c.wait_state[initproc] = "WT_CHILD" => c.state[initproc] = "PROC_SLEEPING"
      <3>1. initproc \in Procs
        BY InitAssumption
      <3>2. b.wait_state[initproc] = "WT_CHILD" => b.state[initproc] = "PROC_SLEEPING"
        BY <3>1, <1>2, <1>5, <1>6 DEF Inv, ControlOK
      <3> QED
        BY <3>1, <3>2, <1>8
    <2> HIDE DEF Dead
    <2>3. CASE Dead /\ c.wait_state[initproc] = "WT_CHILD"
      <3>1. k' = wakeup_proc(c, initproc) /\ c.state[initproc] = "PROC_SLEEPING"
        BY <2>1, <2>2, <2>3
      <3>2. c \in SchedRecords /\ RunQueueOK(c) /\ initproc \in Procs
        BY <1>8, InitAssumption
      <3>3. /\ k' \in SchedRecords /\ RunQueueOK(k') /\ k'.current = c.current
            /\ \A x \in Procs :
                  /\ k'.state[x] = IF x = initproc THEN "PROC_RUNNABLE" ELSE c.state[x]
                  /\ k'.wait_state[x] = IF x = initproc THEN "0" ELSE c.wait_state[x]
        BY <3>1, <3>2, WakeupPointwise
      <3> QED
        BY <2>3, <3>1, <3>2, <3>3, <1>8
    <2>4. CASE ~(Dead /\ c.wait_state[initproc] = "WT_CHILD")
      <3>1. k' = c
        BY <2>1, <2>4
      <3> QED
        BY <2>4, <3>1, <1>8, InitAssumption, <1>8
    <2> QED
      BY <2>3, <2>4
  <1>10. ASSUME NEW x \in Procs, x # p
         PROVE  \/ k'.state[x] = k.state[x] /\ k'.wait_state[x] = k.wait_state[x]
                \/ /\ k.state[x] = "PROC_SLEEPING" /\ k.wait_state[x] = "WT_CHILD"
                   /\ k'.state[x] = "PROC_RUNNABLE" /\ k'.wait_state[x] = "0"
    BY <1>5, <1>6, <1>8, <1>9, <1>10
  <1>11. k'.state[p] = "PROC_ZOMBIE" /\ k'.wait_state[p] = "0"
    BY <1>2, <1>5, <1>6, <1>8, <1>9
  <1>12. k'.wait_state[parent[p]] # "WT_CHILD"
    BY <1>3, <1>8, <1>9
  <1>13. \A x \in Procs :
            /\ pc'[x] = IF x = p THEN "exit_call" ELSE pc[x]
            /\ parent'[x] = IF parent[x] = p THEN initproc ELSE parent[x]
    BY <1>1 DEF Inv, TypeOK, Reparent
  <1>14. TypeOK'
    <2>1. parent' \in [Procs -> Procs \cup {NoProc}]
      BY <1>1, InitAssumption DEF Inv, TypeOK, Reparent
    <2> QED
      BY <2>1, <1>1, <1>9 DEF Inv, TypeOK, PCs
  <1>15. ControlOK'
    <2>1. ASSUME NEW q \in Procs
          PROVE  /\ k'.wait_state[q] # "0" => k'.state[q] = "PROC_SLEEPING"
                 /\ k'.state[q] = "PROC_ZOMBIE" <=> pc'[q] \in {"exit_call", "dead"}
                 /\ k'.state[q] = "FREE" => pc'[q] = "user"
      <3>1. /\ k.wait_state[q] # "0" => k.state[q] = "PROC_SLEEPING"
            /\ k.state[q] = "PROC_ZOMBIE" <=> pc[q] \in {"exit_call", "dead"}
            /\ k.state[q] = "FREE" => pc[q] = "user"
        BY DEF Inv, ControlOK
      <3> QED
        BY <3>1, <1>10, <1>11, <1>13
    <2>2. pc'[k'.current] = "exit_call" /\ ~in_timer'
      BY <1>1, <1>9, <1>13
    <2>3. /\ k'.state[idleproc] = "PROC_RUNNABLE" /\ pc'[idleproc] = "user"
          /\ k'.state[initproc] \in {"PROC_SLEEPING", "PROC_RUNNABLE"}
          /\ pc'[initproc] \in {"wait", "wait_call", "wait_woken", "init_sched", "done"}
          /\ ~exiting'[initproc]
      <3>1. idleproc \in Procs /\ initproc \in Procs /\ exiting' = exiting
        BY <1>1, InitAssumption, IdleAssumption
      <3> QED
        BY <3>1, <1>2, <1>10, <1>13 DEF Inv, ControlOK
    <2> QED
      BY <2>1, <2>2, <2>3 DEF ControlOK
  <1>16. NoLostChild'
    <2> SUFFICES ASSUME NEW q \in Procs, k'.state[q] = "PROC_SLEEPING",
                        k'.wait_state[q] = "WT_CHILD",
                        NEW x \in Awaited(q)', k'.state[x] = "PROC_ZOMBIE"
                 PROVE  FALSE
      BY DEF NoLostChild, Zombies, Awaited, Kids
    <2>1. /\ q # p /\ q # parent[p] /\ k.state[q] = "PROC_SLEEPING" /\ k.wait_state[q] = "WT_CHILD"
      BY <1>10, <1>11, <1>12
    <2>2. x \in Procs /\ parent'[x] = q /\ (waitfor[q] = AnyChild \/ x = waitfor[q])
      BY <1>1 DEF Awaited, Kids
    <2>3. x # p
      BY <1>3, <1>13, <2>1, <2>2
    <2>4. k.state[x] = "PROC_ZOMBIE"
      BY <2>2, <2>3, <1>10
    <2>5. CASE parent[x] = q
      BY <2>1, <2>2, <2>4, <2>5 DEF Inv, NoLostChild, Awaited, Kids, Zombies
    <2>6. CASE parent[x] # q
      <3>1. parent[x] = p /\ q = initproc
        BY <2>2, <2>6, <1>13
      <3>2. Dead
        BY <3>1, <2>2, <2>4 DEF Kids, Zombies
      <3> QED
        BY <3>1, <3>2, <1>9
    <2> QED
      BY <2>5, <2>6
  <1>17. LiveParent'
    <2> SUFFICES ASSUME NEW q \in Procs \ {idleproc}, k'.state[q] # "FREE"
                 PROVE  /\ parent'[q] \in Procs
                        /\ k'.state[parent'[q]] \notin {"FREE", "PROC_ZOMBIE"}
      BY DEF LiveParent
    <2>1. k.state[q] # "FREE"
      BY <1>2, <1>10
    <2>2. parent[q] \in Procs /\ k.state[parent[q]] \notin {"FREE", "PROC_ZOMBIE"}
      BY <2>1 DEF Inv, LiveParent
    <2>3. initproc \in Procs /\ k.state[initproc] \notin {"FREE", "PROC_ZOMBIE"}
      BY InitAssumption DEF Inv, ControlOK
    <2>4. parent'[q] \in Procs /\ parent'[q] # p /\ k.state[parent'[q]] \notin {"FREE", "PROC_ZOMBIE"}
      BY <2>2, <2>3, <1>2, <1>13
    <2> QED
      BY <2>4, <1>10
  <1>18. SleepersHaveTimers' /\ DistinctOwners(timers)'
    <2>1. ~HasTimer(timers, p)
      BY <1>1 DEF Inv, SleepersHaveTimers
    <2>2. timers' = timers
      BY <1>1
    <2>3. ASSUME NEW q \in Procs
          PROVE  /\ k'.wait_state[q] = "WT_TIMER" => HasTimer(timers, q)
                 /\ HasTimer(timers, q) => pc'[q] \in {"sleep_call", "sleep_woken"}
      BY <2>1, <1>10, <1>11, <1>13 DEF Inv, SleepersHaveTimers
    <2> QED
      BY <2>2, <2>3 DEF Inv, SleepersHaveTimers, DistinctOwners, HasTimer
  <1>family. Family'
    BY <1>2, <1>13, InitAssumption, IdleAssumption DEF Inv, Family
  <1> QED
    BY <1>family, <1>9, <1>14, <1>15, <1>16, <1>17, <1>18 DEF Inv

(* do_wait reaps a dead child of the caller: its slot becomes free. *)
LEMMA DoWaitReapInv ==
    ASSUME Inv, NEW p \in Procs, NEW c \in Procs, do_wait_reap(p, c)
    PROVE  Inv'
  <1> DEFINE a == Assert_(k, c \notin {idleproc, initproc})
  <1>1. /\ p = k.current /\ pc[p] = "wait" /\ ~in_timer
        /\ k.state[c] = "PROC_ZOMBIE"
        /\ k' = ClearProc(a, c, "FREE")
        /\ parent' = [parent EXCEPT ![c] = NoProc]
        /\ nr_process' = nr_process - 1
        /\ exiting' = [exiting EXCEPT ![c] = FALSE]
        /\ waitfor' = [waitfor EXCEPT ![p] = AnyChild, ![c] = AnyChild]
        /\ UNCHANGED <<timers, in_timer>>
    BY DEF do_wait_reap, remove_links, At, Zombies
  <1>2. PICK d \in {"init_sched", "trapret"} :
           /\ pc' = [pc EXCEPT ![c] = "user", ![p] = d]
           /\ p = initproc => d = "init_sched"
    BY DEF do_wait_reap
  <1>3. /\ p # idleproc /\ k.state[p] = "PROC_RUNNABLE"
        /\ c # p /\ c # idleproc /\ c # initproc /\ pc[c] \in {"exit_call", "dead"}
    BY <1>1 DEF Inv, ControlOK
  <1>4. /\ a \in SchedRecords /\ RunQueueOK(a) /\ a.current = k.current
        /\ a.state = k.state /\ a.wait_state = k.wait_state
    BY AssertKeeps DEF Inv, TypeOK
  <1> HIDE DEF a
  <1>5. /\ k' \in SchedRecords /\ RunQueueOK(k') /\ k'.current = p
        /\ k'.state = [k.state EXCEPT ![c] = "FREE"]
        /\ k'.wait_state = [k.wait_state EXCEPT ![c] = "0"]
    <2>1. "FREE" \in ProcStates /\ a.state[c] # "PROC_RUNNABLE"
      BY <1>1, <1>4 DEF ProcStates
    <2>2. /\ k' \in SchedRecords /\ RunQueueOK(k') /\ k'.current = a.current
          /\ k'.state = [a.state EXCEPT ![c] = "FREE"]
          /\ k'.wait_state = [a.wait_state EXCEPT ![c] = "0"]
      BY <2>1, <1>1, <1>4, ClearProcFacts, SMTT(30)
    <2> QED
      BY <2>2, <1>1, <1>4
  <1>6. \A q \in Procs :
           /\ k'.state[q] = IF q = c THEN "FREE" ELSE k.state[q]
           /\ k'.wait_state[q] = IF q = c THEN "0" ELSE k.wait_state[q]
           /\ pc'[q] = IF q = p THEN d ELSE IF q = c THEN "user" ELSE pc[q]
           /\ parent'[q] = IF q = c THEN NoProc ELSE parent[q]
           /\ exiting'[q] = IF q = c THEN FALSE ELSE exiting[q]
    BY <1>1, <1>2, <1>3, <1>5 DEF Inv, TypeOK, SchedRecords
  <1>waitfor. \A q \in Procs : q # p /\ q # c => waitfor'[q] = waitfor[q]
    BY <1>1 DEF Inv, TypeOK
  <1>place. d \notin {"exit_call", "dead"} /\ (p = initproc => d = "init_sched")
    BY <1>2
  <1>7. TypeOK'
    <2>1. /\ parent' \in [Procs -> Procs \cup {NoProc}] /\ exiting' \in [Procs -> BOOLEAN]
          /\ waitfor' \in [Procs -> Procs \cup {AnyChild}] /\ nr_process' \in Int
      BY <1>1 DEF Inv, TypeOK
    <2>2. pc' \in [Procs -> PCs]
      BY <1>2 DEF Inv, TypeOK, PCs
    <2> QED
      BY <2>1, <2>2, <1>1, <1>5 DEF Inv, TypeOK
  <1>8. ControlOK'
    <2>1. ASSUME NEW q \in Procs
          PROVE  /\ k'.wait_state[q] # "0" => k'.state[q] = "PROC_SLEEPING"
                 /\ k'.state[q] = "PROC_ZOMBIE" <=> pc'[q] \in {"exit_call", "dead"}
                 /\ k'.state[q] = "FREE" => pc'[q] = "user"
      <3>1. /\ k.wait_state[q] # "0" => k.state[q] = "PROC_SLEEPING"
            /\ k.state[q] = "PROC_ZOMBIE" <=> pc[q] \in {"exit_call", "dead"}
            /\ k.state[q] = "FREE" => pc[q] = "user"
        BY DEF Inv, ControlOK
      <3> QED
        BY <3>1, <1>place, <1>3, <1>6
    <2>2. k'.state[k'.current] = "PROC_RUNNABLE" /\ ~in_timer'
      BY <1>1, <1>3, <1>5, <1>6
    <2>3. /\ k'.state[idleproc] = "PROC_RUNNABLE" /\ pc'[idleproc] = "user"
          /\ k'.state[initproc] \in {"PROC_SLEEPING", "PROC_RUNNABLE"}
          /\ pc'[initproc] \in {"wait", "wait_call", "wait_woken", "init_sched", "done"}
          /\ ~exiting'[initproc]
      <3>1. idleproc \in Procs /\ initproc \in Procs
        BY InitAssumption, IdleAssumption
      <3> QED
        BY <3>1, <1>place, <1>3, <1>6, ZenonT(40) DEF Inv, ControlOK
    <2> QED
      BY <2>1, <2>2, <2>3 DEF ControlOK
  <1>9. NoLostChild'
    <2> SUFFICES ASSUME NEW q \in Procs, k'.state[q] = "PROC_SLEEPING",
                        k'.wait_state[q] = "WT_CHILD",
                        NEW x \in Awaited(q)', k'.state[x] = "PROC_ZOMBIE"
                 PROVE  FALSE
      BY DEF NoLostChild, Zombies, Awaited, Kids
    <2>1. q # p /\ q # c /\ k.state[q] = "PROC_SLEEPING" /\ k.wait_state[q] = "WT_CHILD"
      BY <1>3, <1>6
    <2>2. x \in Procs /\ parent'[x] = q /\ (waitfor[q] = AnyChild \/ x = waitfor[q])
      BY <2>1, <1>waitfor DEF Awaited, Kids
    <2>3. x # c /\ k.state[x] = "PROC_ZOMBIE" /\ parent[x] = q
      BY <2>1, <2>2, <1>6
    <2> QED
      BY <2>1, <2>2, <2>3 DEF Inv, NoLostChild, Awaited, Kids, Zombies
  <1>10. LiveParent'
    <2> SUFFICES ASSUME NEW q \in Procs \ {idleproc}, k'.state[q] # "FREE"
                 PROVE  /\ parent'[q] \in Procs
                        /\ k'.state[parent'[q]] \notin {"FREE", "PROC_ZOMBIE"}
      BY DEF LiveParent
    <2>1. /\ q # c /\ parent'[q] = parent[q] /\ parent[q] \in Procs
          /\ k.state[parent[q]] \notin {"FREE", "PROC_ZOMBIE"}
      BY <1>6 DEF Inv, LiveParent
    <2>2. parent[q] # c
      BY <2>1, <1>1
    <2> QED
      BY <2>1, <2>2, <1>6
  <1>11. SleepersHaveTimers' /\ DistinctOwners(timers)'
    <2>1. ~HasTimer(timers, p) /\ ~HasTimer(timers, c)
      BY <1>1, <1>3 DEF Inv, SleepersHaveTimers
    <2>2. timers' = timers
      BY <1>1
    <2>3. ASSUME NEW q \in Procs
          PROVE  /\ k'.wait_state[q] = "WT_TIMER" => HasTimer(timers, q)
                 /\ HasTimer(timers, q) => pc'[q] \in {"sleep_call", "sleep_woken"}
      BY <2>1, <1>6 DEF Inv, SleepersHaveTimers
    <2> QED
      BY <2>2, <2>3 DEF Inv, SleepersHaveTimers, DistinctOwners, HasTimer
  <1>family. Family'
    <2>1. initproc \in Procs /\ parent[initproc] = idleproc
      BY InitAssumption DEF Inv, Family
    <2>2. ASSUME NEW q \in Procs PROVE parent'[q] # q
      <3>1. parent'[q] = IF q = c THEN NoProc ELSE parent[q]
        BY <1>6
      <3>2. parent[q] # q /\ NoProc # q
        BY InitAssumption DEF Inv, Family
      <3> QED
        BY <3>1, <3>2
    <2> QED
      BY <2>1, <2>2, <1>3, <1>6 DEF Family
  <1> QED
    BY <1>family, <1>5, <1>7, <1>8, <1>9, <1>10, <1>11 DEF Inv

(* do_wait finds no child; init then checks that it is alone and returns. *)
LEMMA DoWaitFailsInv ==
    ASSUME Inv, NEW p \in Procs, do_wait_fails(p)
    PROVE  Inv'
  <1>1. /\ p = k.current /\ pc[p] = "wait" /\ ~in_timer
        /\ waitfor' = [waitfor EXCEPT ![p] = AnyChild]
        /\ UNCHANGED <<parent, exiting, timers, in_timer, nr_process>>
    BY DEF do_wait_fails, At
  <1>2. PICK c \in {"done", "trapret"} :
           pc' = [pc EXCEPT ![p] = c] /\ (p = initproc => c = "done")
    BY DEF do_wait_fails, Goto
  <1>3. k' = k \/ k' = Assert_(k, nr_process = 2)
    BY DEF do_wait_fails
  <1>4. /\ k' \in SchedRecords /\ RunQueueOK(k') /\ k'.current = k.current
        /\ k'.state = k.state /\ k'.wait_state = k.wait_state
    <2>1. k \in SchedRecords /\ RunQueueOK(k)
      BY DEF Inv, TypeOK
    <2>2. CASE k' = k
      BY <2>1, <2>2
    <2>3. CASE k' = Assert_(k, nr_process = 2)
      BY <2>1, <2>3, AssertKeeps
    <2> QED
      BY <1>3, <2>2, <2>3
  <1>5. p # idleproc
    BY <1>1 DEF Inv, ControlOK
  <1>6. exiting' \in [Procs -> BOOLEAN] /\ ~exiting'[initproc]
    BY <1>1 DEF Inv, TypeOK, ControlOK
  <1>7. c \in PCs /\ c \notin {"exit_call", "dead"} /\ (p = initproc => c = "done")
    BY <1>2 DEF PCs
  <1> QED
    BY <1>1, <1>2, <1>4, <1>5, <1>6, <1>7, MoveInv

(* A process other than init or idle moves within the kernel. *)
LEMMA UserMoveInv ==
    ASSUME Inv, NEW p \in Procs, p = k.current, ~in_timer,
           p # idleproc, p # initproc,
           pc[p] \in {"user", "trapret"},
           NEW c \in {"user", "trapret", "resched", "exit", "wait"}, pc' = [pc EXCEPT ![p] = c],
           UNCHANGED <<k, parent, exiting, timers, in_timer, nr_process>>,
           waitfor' = waitfor \/ \E pid \in Procs \cup {AnyChild} :
                                    waitfor' = [waitfor EXCEPT ![p] = pid]
    PROVE  Inv'
  <1>1. /\ k' \in SchedRecords /\ RunQueueOK(k') /\ k'.current = k.current
        /\ k'.state = k.state /\ k'.wait_state = k.wait_state
    BY DEF Inv, TypeOK
  <1>2. exiting' \in [Procs -> BOOLEAN] /\ ~exiting'[initproc]
    BY DEF Inv, TypeOK, ControlOK
  <1>3. c \in PCs /\ c \notin {"exit_call", "dead"}
    BY DEF PCs
  <1> QED
    BY <1>1, <1>2, <1>3, MoveInv

(* The system calls that do nothing yet, and the end of trap(). *)
LEMMA TrapInv ==
    ASSUME Inv, NEW p \in Procs,
           \/ do_fork_fails(p) \/ sys_exit(p) \/ trap_return(p)
           \/ \E pid \in Procs \cup {AnyChild} : sys_wait(p, pid)
    PROVE  Inv'
  <1>1. /\ p = k.current /\ ~in_timer /\ pc[p] \in {"user", "trapret"}
        /\ UNCHANGED <<k, parent, exiting, timers, in_timer, nr_process>>
    BY DEF do_fork_fails, sys_exit, trap_return, sys_wait, Calls, At
  <1>2. \E c \in {"user", "trapret", "resched", "exit", "wait"} : pc' = [pc EXCEPT ![p] = c]
    BY DEF do_fork_fails, sys_exit, trap_return, sys_wait, Goto, AfterTrap
  <1>3. waitfor' = waitfor \/ \E pid \in Procs \cup {AnyChild} : waitfor' = [waitfor EXCEPT ![p] = pid]
    BY DEF do_fork_fails, sys_exit, trap_return, sys_wait
  <1>4. p # idleproc /\ p # initproc
    <2>1. CASE trap_return(p)
      BY <2>1 DEF Inv, ControlOK, trap_return, At
    <2>2. CASE ~trap_return(p)
      BY <2>2 DEF do_fork_fails, sys_exit, sys_wait, Calls
    <2> QED
      BY <2>1, <2>2
  <1> QED
    BY <1>1, <1>2, <1>3, <1>4, UserMoveInv

(* Behind schedule(), do_wait looks again, or exits when it was killed. *)
LEMMA DoWaitWokenInv ==
    ASSUME Inv, NEW p \in Procs, do_wait_woken(p)
    PROVE  Inv'
  <1>1. /\ p = k.current /\ ~in_timer /\ pc[p] = "wait_woken"
        /\ UNCHANGED <<k, parent, exiting, waitfor, timers, in_timer, nr_process>>
    BY DEF do_wait_woken, At
  <1>2. PICK c \in {"wait", "exit"} : pc' = [pc EXCEPT ![p] = c] /\ (p = initproc => c = "wait")
    BY DEF do_wait_woken, Goto, Inv, ControlOK
  <1>3. p # idleproc
    BY <1>1 DEF Inv, ControlOK
  <1>4. /\ k' \in SchedRecords /\ RunQueueOK(k') /\ k'.current = k.current
        /\ k'.state = k.state /\ k'.wait_state = k.wait_state
    BY <1>1 DEF Inv, TypeOK
  <1>5. exiting' \in [Procs -> BOOLEAN] /\ ~exiting'[initproc]
    BY <1>1 DEF Inv, TypeOK, ControlOK
  <1>6. c \in PCs /\ c \notin {"exit_call", "dead"}
    BY <1>2 DEF PCs
  <1> QED
    BY <1>1, <1>2, <1>3, <1>4, <1>5, <1>6, MoveInv

(* do_yield asks for a new scheduling decision. *)
LEMMA DoYieldInv ==
    ASSUME Inv, NEW p \in Procs, do_yield(p)
    PROVE  Inv'
  <1> DEFINE nr == [k.need_resched EXCEPT ![p] = TRUE]
  <1>1. /\ p = k.current /\ ~in_timer /\ pc[p] = "user" /\ p \notin {idleproc, initproc}
        /\ k' = [k EXCEPT !.need_resched = nr]
        /\ pc' = [pc EXCEPT ![p] = "trapret"]
        /\ UNCHANGED <<parent, exiting, waitfor, timers, in_timer, nr_process>>
    BY DEF do_yield, Calls, At, Goto
  <1>2. k \in SchedRecords /\ RunQueueOK(k) /\ nr \in [Procs -> BOOLEAN]
    BY DEF Inv, TypeOK, SchedRecords
  <1> HIDE DEF nr
  <1>3. /\ k' \in SchedRecords /\ k'.current = k.current /\ k'.state = k.state
        /\ k'.wait_state = k.wait_state /\ k'.run_list = k.run_list
    BY <1>1, <1>2 DEF SchedRecords
  <1>4. RunQueueOK(k')
    BY <1>2, <1>3, RunQueueFrame
  <1>5. exiting' \in [Procs -> BOOLEAN] /\ ~exiting'[initproc]
    BY <1>1 DEF Inv, TypeOK, ControlOK
  <1>6. "trapret" \in PCs
    BY DEF PCs
  <1> QED
    BY <1>1, <1>3, <1>4, <1>5, <1>6, MoveInv

(* A sleeper is woken, by a signal or by its timer.  The process on the CPU
   may return from the system call that did it. *)
LEMMA WokenInv ==
    ASSUME Inv, NEW q \in Procs, k.state[q] \notin {"FREE", "PROC_ZOMBIE"},
           k' \in SchedRecords, RunQueueOK(k'), k'.current = k.current,
           \A x \in Procs : /\ k'.state[x] = IF x = q THEN "PROC_RUNNABLE" ELSE k.state[x]
                            /\ k'.wait_state[x] = IF x = q THEN "0" ELSE k.wait_state[x],
           pc' \in [Procs -> PCs],
           \A x \in Procs : \/ pc'[x] = pc[x]
                            \/ /\ x = k.current /\ ~in_timer /\ pc[x] = "user"
                               /\ x # idleproc /\ x # initproc /\ pc'[x] = "trapret",
           exiting' \in [Procs -> BOOLEAN], ~exiting'[initproc],
           IsTimerList(timers', Procs), DistinctOwners(timers'),
           \A x : HasTimer(timers', x) => HasTimer(timers, x),
           \A x : x # q /\ HasTimer(timers, x) => HasTimer(timers', x),
           UNCHANGED <<parent, waitfor, in_timer, nr_process>>
    PROVE  Inv'
  <1>1. TypeOK'
    BY DEF Inv, TypeOK
  <1>2. ControlOK'
    <2>1. ASSUME NEW x \in Procs
          PROVE  /\ k'.wait_state[x] # "0" => k'.state[x] = "PROC_SLEEPING"
                 /\ k'.state[x] = "PROC_ZOMBIE" <=> pc'[x] \in {"exit_call", "dead"}
                 /\ k'.state[x] = "FREE" => pc'[x] = "user"
      <3>1. /\ k.wait_state[x] # "0" => k.state[x] = "PROC_SLEEPING"
            /\ k.state[x] = "PROC_ZOMBIE" <=> pc[x] \in {"exit_call", "dead"}
            /\ k.state[x] = "FREE" => pc[x] = "user"
            /\ x = k.current /\ pc[x] = "user" => k.state[x] = "PROC_RUNNABLE"
        BY DEF Inv, ControlOK
      <3> QED
        BY <3>1
    <2>2. k.current \in Procs
      BY DEF Inv, TypeOK, SchedRecords
    <2>3. /\ pc'[k'.current] \notin {"wait_call", "sleep_call", "exit_call", "read_call"}
                => k'.state[k'.current] = "PROC_RUNNABLE"
          /\ in_timer' /\ k'.current \notin Kernel => pc'[k'.current] = "user"
      <3>1. /\ pc[k.current] \notin {"wait_call", "sleep_call", "exit_call", "read_call"}
                  => k.state[k.current] = "PROC_RUNNABLE"
            /\ in_timer /\ k.current \notin Kernel => pc[k.current] = "user"
        BY DEF Inv, ControlOK
      <3> QED
        BY <2>2, <3>1
    <2>4. /\ k'.state[idleproc] = "PROC_RUNNABLE" /\ pc'[idleproc] = "user"
          /\ k'.state[initproc] \in {"PROC_SLEEPING", "PROC_RUNNABLE"}
          /\ pc'[initproc] \in {"wait", "wait_call", "wait_woken", "init_sched", "done"}
          /\ ~exiting'[initproc]
      <3>1. idleproc \in Procs /\ initproc \in Procs
        BY InitAssumption, IdleAssumption
      <3> QED
        BY <3>1 DEF Inv, ControlOK
    <2> QED
      BY <2>1, <2>3, <2>4 DEF ControlOK
  <1>3. NoLostChild'
    <2>1. Zombies' = Zombies /\ \A x \in Procs : Awaited(x)' = Awaited(x)
      BY DEF Zombies, Awaited, Kids
    <2> QED
      BY <2>1 DEF Inv, NoLostChild
  <1>4. LiveParent'
    BY DEF Inv, LiveParent
  <1>5. SleepersHaveTimers'
    <2>1. ASSUME NEW x \in Procs
          PROVE  /\ k'.wait_state[x] = "WT_TIMER" => HasTimer(timers', x)
                 /\ HasTimer(timers', x) => pc'[x] \in {"sleep_call", "sleep_woken"}
      BY DEF Inv, SleepersHaveTimers
    <2> QED
      BY <2>1 DEF SleepersHaveTimers
  <1>family. Family'
    BY DEF Inv, Family
  <1> QED
    BY <1>family, <1>1, <1>2, <1>3, <1>4, <1>5 DEF Inv

(* do_kill sets PF_EXITING and wakes a process that may be interrupted. *)
LEMMA DoKillInv ==
    ASSUME Inv, ~KillInit, NEW p \in Procs, NEW q \in Procs, do_kill(p, q)
    PROVE  Inv'
  <1>1. /\ p = k.current /\ ~in_timer /\ pc[p] = "user" /\ p # idleproc /\ p # initproc
        /\ q # initproc
        /\ pc' = [pc EXCEPT ![p] = "trapret"]
        /\ UNCHANGED <<parent, waitfor, timers, in_timer, nr_process>>
    BY DEF do_kill, Calls, At, Goto
  <1>2. exiting' \in [Procs -> BOOLEAN] /\ ~exiting'[initproc]
    <2>1. exiting' = exiting \/ exiting' = [exiting EXCEPT ![q] = TRUE]
      BY DEF do_kill
    <2> QED
      BY <1>1, <2>1, InitAssumption DEF Inv, TypeOK, ControlOK
  <1>3. k \in SchedRecords /\ RunQueueOK(k) /\ "trapret" \in PCs
    BY DEF Inv, TypeOK, PCs
  <1>4. CASE k' = k
    BY <1>1, <1>2, <1>3, <1>4, MoveInv
  <1>5. CASE k' # k
    <2>1. k.wait_state[q] # "0" /\ k' = wakeup_proc(k, q)
      BY <1>5 DEF do_kill, KillWakes, WT_INTERRUPTED
    <2>2. k.state[q] = "PROC_SLEEPING"
      BY <2>1 DEF Inv, ControlOK
    <2>3. /\ k' \in SchedRecords /\ RunQueueOK(k') /\ k'.current = k.current
          /\ \A x \in Procs : /\ k'.state[x] = IF x = q THEN "PROC_RUNNABLE" ELSE k.state[x]
                              /\ k'.wait_state[x] = IF x = q THEN "0" ELSE k.wait_state[x]
      BY <2>1, <2>2, <1>3, WakeupPointwise
    <2>4. pc' \in [Procs -> PCs]
      BY <1>1, <1>3 DEF Inv, TypeOK
    <2>5. \A x \in Procs : pc'[x] = pc[x] \/ (x = p /\ pc'[x] = "trapret")
      BY <1>1 DEF Inv, TypeOK
    <2>6. timers' = timers /\ IsTimerList(timers', Procs) /\ DistinctOwners(timers')
      BY <1>1 DEF Inv, TypeOK
    <2> QED
      BY <1>1, <1>2, <2>2, <2>3, <2>4, <2>5, <2>6, WokenInv
  <1> QED
    BY <1>4, <1>5

(* The tick of the clock, before the expired timers are looked at. *)
LEMMA InterruptInv ==
    ASSUME Inv, interrupt_handler
    PROVE  Inv'
  <1>1. /\ ~in_timer /\ InterruptsOn(k.current) /\ in_timer' = TRUE
        /\ k' = Assert_(k, ~HeadExpired(timers))
        /\ timers' = TickHead(timers)
        /\ UNCHANGED <<parent, exiting, waitfor, nr_process, pc>>
    BY DEF interrupt_handler
  <1>2. k \in SchedRecords /\ RunQueueOK(k)
    BY DEF Inv, TypeOK
  <1>3. /\ k' \in SchedRecords /\ RunQueueOK(k') /\ k'.current = k.current
        /\ k'.state = k.state /\ k'.wait_state = k.wait_state
    BY <1>1, <1>2, AssertKeeps
  <1>4. /\ IsTimerList(timers', Procs) /\ DistinctOwners(timers')
        /\ \A q : HasTimer(timers', q) <=> HasTimer(timers, q)
    BY <1>1, TickHeadFacts DEF Inv, TypeOK
  <1>5. TypeOK'
    BY <1>1, <1>3, <1>4 DEF Inv, TypeOK
  <1>6. ControlOK'
    <2>1. k'.current \notin Kernel => pc'[k'.current] = "user"
      BY <1>1, <1>3 DEF InterruptsOn
    <2> QED
      BY <1>1, <1>3, <2>1 DEF Inv, ControlOK
  <1>7. NoLostChild' /\ LiveParent'
    BY <1>1, <1>3 DEF Inv, NoLostChild, LiveParent, Awaited, Kids, Zombies
  <1>8. SleepersHaveTimers'
    BY <1>1, <1>3, <1>4 DEF Inv, SleepersHaveTimers
  <1>family. Family'
    BY <1>1 DEF Inv, Family
  <1> QED
    BY <1>family, <1>3, <1>4, <1>5, <1>6, <1>7, <1>8 DEF Inv

(* An expired timer wakes its owner and leaves the list. *)
LEMMA TimerWakeInv ==
    ASSUME Inv, run_timer_list_wake
    PROVE  Inv'
  <1> DEFINE q == timers[1].proc
             e == k.wait_state[q] # "0" => k.wait_state[q] \in WT_INTERRUPTED
             a == Assert_(k, e)
  <1>1. /\ in_timer /\ HeadExpired(timers)
        /\ k' = wakeup_proc(a, q)
        /\ timers' = del_timer(timers, q)
        /\ UNCHANGED <<parent, exiting, waitfor, in_timer, nr_process, pc>>
    BY DEF run_timer_list_wake, FireTimer
  <1>2. q \in Procs /\ HasTimer(timers, q)
    <2>1. timers # << >> /\ IsTimerList(timers, Procs)
      BY <1>1 DEF HeadExpired, Inv, TypeOK
    <2> QED
      BY <2>1 DEF IsTimerList, HasTimer
  <1> HIDE DEF q
  <1>3. pc[q] \in {"sleep_call", "sleep_woken"}
    BY <1>2 DEF Inv, SleepersHaveTimers
  <1>4. k.state[q] \notin {"FREE", "PROC_ZOMBIE"}
    BY <1>2, <1>3 DEF Inv, ControlOK
  <1>5. /\ a \in SchedRecords /\ RunQueueOK(a) /\ a.current = k.current
        /\ a.state = k.state /\ a.wait_state = k.wait_state
    <2>1. k \in SchedRecords /\ RunQueueOK(k)
      BY DEF Inv, TypeOK
    <2> HIDE DEF e
    <2> QED
      BY <2>1, AssertKeeps
  <1> HIDE DEF a
  <1>6. /\ k' \in SchedRecords /\ RunQueueOK(k') /\ k'.current = k.current
        /\ \A x \in Procs : /\ k'.state[x] = IF x = q THEN "PROC_RUNNABLE" ELSE k.state[x]
                            /\ k'.wait_state[x] = IF x = q THEN "0" ELSE k.wait_state[x]
    <2>1. a.state[q] = "PROC_RUNNABLE" => a.wait_state[q] = "0"
      BY <1>2, <1>5 DEF Inv, ControlOK
    <2>2. /\ k' \in SchedRecords /\ RunQueueOK(k') /\ k'.current = a.current
          /\ \A x \in Procs : /\ k'.state[x] = IF x = q THEN "PROC_RUNNABLE" ELSE a.state[x]
                              /\ k'.wait_state[x] = IF x = q THEN "0" ELSE a.wait_state[x]
      BY <2>1, <1>1, <1>2, <1>5, WakeupPointwise
    <2> QED
      BY <2>2, <1>5
  <1>7. /\ IsTimerList(timers', Procs) /\ DistinctOwners(timers') /\ ~HasTimer(timers', q)
        /\ \A x : x # q => (HasTimer(timers', x) <=> HasTimer(timers, x))
    BY <1>1, DelTimerFacts DEF Inv, TypeOK
  <1>8. /\ pc' \in [Procs -> PCs] /\ exiting' \in [Procs -> BOOLEAN] /\ ~exiting'[initproc]
    BY <1>1 DEF Inv, TypeOK, ControlOK
  <1>9. \A x : HasTimer(timers', x) => HasTimer(timers, x)
    BY <1>7
  <1> QED
    BY <1>1, <1>2, <1>4, <1>6, <1>7, <1>8, <1>9, WokenInv

(* The tick is charged to the interrupted process. *)
LEMMA TimerEndInv ==
    ASSUME Inv, run_timer_list_end
    PROVE  Inv'
  <1> DEFINE p == k.current
  <1>1. /\ in_timer /\ in_timer' = FALSE
        /\ k' = sched_class_proc_tick(k, p)
        /\ UNCHANGED <<parent, exiting, waitfor, timers, nr_process>>
        /\ pc' = pc \/ (p \notin Kernel /\ pc' = [pc EXCEPT ![p] = "trapret"])
    BY DEF run_timer_list_end, Goto
  <1>2. k \in SchedRecords /\ RunQueueOK(k) /\ p \in Procs
    BY DEF Inv, TypeOK, SchedRecords
  <1>3. /\ k' \in SchedRecords /\ RunQueueOK(k') /\ k'.current = p
        /\ k'.state = k.state /\ k'.wait_state = k.wait_state
    BY <1>1, <1>2, ProcTickFacts
  <1>4. /\ pc' \in [Procs -> PCs]
        /\ \A x \in Procs : \/ pc'[x] = pc[x]
                            \/ /\ x = p /\ pc[x] = "user" /\ x \notin Kernel /\ pc'[x] = "trapret"
    <2>1. p \notin Kernel => pc[p] = "user"
      BY <1>1 DEF Inv, ControlOK
    <2> QED
      BY <2>1, <1>1, <1>2 DEF Inv, TypeOK, PCs
  <1> HIDE DEF p
  <1>5. TypeOK'
    BY <1>1, <1>3, <1>4 DEF Inv, TypeOK
  <1>6. ControlOK'
    <2>1. ASSUME NEW x \in Procs
          PROVE  /\ k.wait_state[x] # "0" => k.state[x] = "PROC_SLEEPING"
                 /\ k.state[x] = "PROC_ZOMBIE" <=> pc'[x] \in {"exit_call", "dead"}
                 /\ k.state[x] = "FREE" => pc'[x] = "user"
      <3>1. /\ k.wait_state[x] # "0" => k.state[x] = "PROC_SLEEPING"
            /\ k.state[x] = "PROC_ZOMBIE" <=> pc[x] \in {"exit_call", "dead"}
            /\ k.state[x] = "FREE" => pc[x] = "user"
            /\ x = p /\ pc[x] = "user" => k.state[x] = "PROC_RUNNABLE"
        BY DEF Inv, ControlOK, p
      <3> QED
        BY <3>1, <1>4
    <2>2. pc'[p] \notin {"wait_call", "sleep_call", "exit_call", "read_call"} => k.state[p] = "PROC_RUNNABLE"
      <3>1. pc[p] \notin {"wait_call", "sleep_call", "exit_call", "read_call"} => k.state[p] = "PROC_RUNNABLE"
        BY DEF Inv, ControlOK, p
      <3> QED
        BY <3>1, <1>2, <1>4
    <2>3. /\ k.state[idleproc] = "PROC_RUNNABLE" /\ pc'[idleproc] = "user"
          /\ k.state[initproc] \in {"PROC_SLEEPING", "PROC_RUNNABLE"}
          /\ pc'[initproc] \in {"wait", "wait_call", "wait_woken", "init_sched", "done"}
          /\ ~exiting'[initproc]
      <3>1. idleproc \in Procs /\ initproc \in Procs /\ idleproc \in Kernel /\ initproc \in Kernel
        BY InitAssumption, IdleAssumption DEF Kernel
      <3> QED
        BY <3>1, <1>1, <1>4 DEF Inv, ControlOK
    <2> QED
      BY <2>1, <2>2, <2>3, <1>1, <1>3 DEF ControlOK
  <1>7. NoLostChild' /\ LiveParent'
    BY <1>1, <1>3 DEF Inv, NoLostChild, LiveParent, Awaited, Kids, Zombies
  <1>8. SleepersHaveTimers' /\ DistinctOwners(timers)'
    BY <1>1, <1>3, <1>4 DEF Inv, SleepersHaveTimers, DistinctOwners, HasTimer
  <1>family. Family'
    BY <1>1 DEF Inv, Family
  <1> QED
    BY <1>family, <1>3, <1>5, <1>6, <1>7, <1>8 DEF Inv

---------------------------------------------------------------------------
(* Every step of the system preserves the invariant. *)
LEMMA NextInv ==
    ASSUME Inv, ~KillInit, [Next]_vars
    PROVE  Inv'
  <1>1. CASE KernelStep
    <2>1. CASE cpu_idle
      BY <2>1, CpuIdleInv
    <2>2. ASSUME NEW p \in Procs,
                 \/ do_exit(p)
                 \/ do_wait_sleep(p) \/ do_wait_woken(p) \/ do_wait_fails(p)
                 \/ \E c \in Procs : do_wait_reap(p, c)
                 \/ do_sleep_woken(p)
                 \/ CallSchedule(p) \/ trap_return(p)
          PROVE  Inv'
      BY <2>2, DoExitInv, DoWaitSleepInv, DoWaitWokenInv, DoWaitFailsInv, DoWaitReapInv,
         DoSleepWokenInv, CallScheduleInv, TrapInv
    <2> QED
      BY <1>1, <2>1, <2>2 DEF KernelStep
  <1>2. CASE TimerStep
    BY <1>2, TimerWakeInv, TimerEndInv DEF TimerStep
  <1>3. CASE ProcessStep
    <2>1. PICK p \in Procs :
             \/ \E c \in Procs : do_fork(p, c) \/ do_kill(p, c)
             \/ do_fork_fails(p)
             \/ sys_exit(p)
             \/ \E pid \in Procs \cup {AnyChild} : sys_wait(p, pid)
             \/ do_yield(p)
             \/ \E t \in SleepTimes : do_sleep(p, t)
      BY <1>3 DEF ProcessStep
    <2> QED
      BY <2>1, DoForkInv, DoKillInv, TrapInv, DoYieldInv, DoSleepInv
  <1>4. CASE interrupt_handler
    BY <1>4, InterruptInv
  <1>5. CASE UNCHANGED vars
    BY <1>5 DEF vars, Inv, TypeOK, ControlOK, NoLostChild, LiveParent, SleepersHaveTimers,
                DistinctOwners, Family, Awaited, Kids, Zombies, HasTimer
  <1> QED
    BY <1>1, <1>2, <1>3, <1>4, <1>5 DEF Next, Halted

(* The invariant holds in every state of every behaviour. *)
THEOREM Invariance ==
    ASSUME ~KillInit PROVE Spec => []Inv
  <1>1. Init => Inv
    BY InitInv
  <1>2. Inv /\ [Next]_vars => Inv'
    BY NextInv
  <1> QED
    BY <1>1, <1>2, PTL DEF Spec

(* All variables keep their types: time slices stay within MAX_TIME_SLICE,
   timers belong to processes. *)
THEOREM TypeCorrect ==
    ASSUME ~KillInit PROVE Spec => []TypeOK
  <1>1. Inv => TypeOK
    BY DEF Inv
  <1> QED
    BY <1>1, Invariance, PTL

(* wakeup_proc and schedule() keep the run queue exact: no runnable process is
   missing from it, none is in it twice or while it runs. *)
THEOREM RunQueueCorrect ==
    ASSUME ~KillInit PROVE Spec => []RunQueue
  <1>1. Inv => RunQueue
    BY DEF Inv
  <1> QED
    BY <1>1, Invariance, PTL

(* Scheduling states agree with the place where each process goes on. *)
THEOREM ControlCorrect ==
    ASSUME ~KillInit PROVE Spec => []ControlOK
  <1>1. Inv => ControlOK
    BY DEF Inv
  <1> QED
    BY <1>1, Invariance, PTL

(* do_exit and do_wait lose no wakeup: nobody sleeps in do_wait while a child
   it waits for is a zombie. *)
THEOREM NoLostChildCorrect ==
    ASSUME ~KillInit PROVE Spec => []NoLostChild
  <1>1. Inv => NoLostChild
    BY DEF Inv
  <1> QED
    BY <1>1, Invariance, PTL

(* proc->parent never points to a freed or dead process. *)
THEOREM LiveParentCorrect ==
    ASSUME ~KillInit PROVE Spec => []LiveParent
  <1>1. Inv => LiveParent
    BY DEF Inv
  <1> QED
    BY <1>1, Invariance, PTL

(* A sleeper in do_sleep has a timer, and timer_list holds no timer of a
   process that has left do_sleep. *)
THEOREM SleepersCorrect ==
    ASSUME ~KillInit PROVE Spec => []SleepersHaveTimers
  <1>1. Inv => SleepersHaveTimers
    BY DEF Inv
  <1> QED
    BY <1>1, Invariance, PTL

(* A zombie has left the code for good: its place changes only when it gives
   up the CPU for the last time, or when do_wait frees it. *)
LEMMA ZombieStep ==
    ASSUME Inv, Inv', [Next]_vars, NEW p \in Procs, k.state[p] = "PROC_ZOMBIE"
    PROVE  k'.state[p] \in {"PROC_ZOMBIE", "FREE"}
  <1>1. pc[p] \in {"exit_call", "dead"} /\ (p = k.current => pc[p] = "exit_call")
    BY DEF Inv, ControlOK
  <1>2. p # idleproc /\ p # initproc
    BY DEF Inv, ControlOK
  <1>3. SUFFICES k'.state[p] = "FREE" \/ pc'[p] \in {"exit_call", "dead"}
    BY DEF Inv, ControlOK
  <1>4. pc \in [Procs -> PCs]
    BY DEF Inv, TypeOK
  <1>5. CASE KernelStep
    <2>1. CASE cpu_idle
      BY <2>1, <1>1 DEF cpu_idle
    <2>2. ASSUME NEW q \in Procs, CallSchedule(q)
          PROVE  pc'[p] \in {"exit_call", "dead"}
      BY <2>2, <1>1, <1>4 DEF CallSchedule, Goto, Resume
    <2>3. ASSUME NEW q \in Procs, NEW c \in Procs, do_wait_reap(q, c)
          PROVE  k'.state[p] = "FREE" \/ pc'[p] \in {"exit_call", "dead"}
      <3>1. q # p /\ \A x \in Procs : x # q /\ x # c => pc'[x] = pc[x]
        BY <2>3, <1>1, <1>4 DEF do_wait_reap, At
      <3>2. CASE p = c
        <4>1. pc'[p] = "user"
          BY <2>3, <3>1, <3>2, <1>4 DEF do_wait_reap
        <4>2. k'.state = [Assert_(k, c \notin {idleproc, initproc}).state EXCEPT ![c] = "FREE"]
          <5>1. k \in SchedRecords
            BY DEF Inv, TypeOK
          <5>2. Assert_(k, c \notin {idleproc, initproc}) \in SchedRecords
            BY <5>1, AssertFacts
          <5> QED
            BY <2>3, <5>2 DEF do_wait_reap, ClearProc, SchedRecords
        <4>3. Assert_(k, c \notin {idleproc, initproc}).state \in [Procs -> ProcStates]
          <5>1. k \in SchedRecords
            BY DEF Inv, TypeOK
          <5> QED
            BY <5>1, AssertFacts DEF SchedRecords
        <4> QED
          BY <3>2, <4>2, <4>3
      <3> QED
        BY <3>1, <3>2, <1>1
    <2>4. ASSUME NEW q \in Procs,
                 \/ do_exit(q)
                 \/ do_wait_sleep(q) \/ do_wait_woken(q) \/ do_wait_fails(q)
                 \/ do_sleep_woken(q) \/ trap_return(q)
          PROVE  pc'[p] \in {"exit_call", "dead"}
      <3>1. q = k.current /\ pc[q] # "exit_call"
        BY <2>4 DEF do_exit, do_wait_sleep, do_wait_woken, do_wait_fails, do_sleep_woken,
                    trap_return, At
      <3>2. \E c : pc' = [pc EXCEPT ![q] = c]
        BY <2>4 DEF do_exit, do_wait_sleep, do_wait_woken, do_wait_fails, do_sleep_woken,
                    trap_return, Goto, Return
      <3> QED
        BY <3>1, <3>2, <1>1, <1>4
    <2> QED
      BY <1>5, <2>1, <2>2, <2>3, <2>4 DEF KernelStep
  <1>6. CASE TimerStep
    <2>1. CASE run_timer_list_wake
      BY <2>1, <1>1 DEF run_timer_list_wake
    <2>2. CASE run_timer_list_end
      <3>1. k.current \notin Kernel => k.current # p
        <4>1. k.current \notin Kernel => pc[k.current] = "user"
          BY <2>2 DEF run_timer_list_end, Inv, ControlOK
        <4> QED
          BY <4>1, <1>1
      <3>2. pc' = pc \/ (k.current \notin Kernel /\ pc' = [pc EXCEPT ![k.current] = "trapret"])
        BY <2>2 DEF run_timer_list_end, Goto
      <3> QED
        BY <3>1, <3>2, <1>1, <1>4
    <2> QED
      BY <1>6, <2>1, <2>2 DEF TimerStep
  <1>7. CASE ProcessStep
    <2>1. ASSUME NEW q \in Procs, NEW c \in Procs, do_fork(q, c)
          PROVE  pc'[p] \in {"exit_call", "dead"}
      <3>1. pc[q] = "user" /\ q # p /\ c # p
        BY <2>1, <1>1 DEF do_fork, Calls, At
      <3> QED
        BY <2>1, <3>1, <1>1, <1>4 DEF do_fork
    <2>2. ASSUME NEW q \in Procs, Calls(q), NEW c, pc' = [pc EXCEPT ![q] = c]
          PROVE  pc'[p] \in {"exit_call", "dead"}
      BY <2>2, <1>1, <1>4 DEF Calls, At
    <2>3. ASSUME NEW q \in Procs,
                 \/ \E c \in Procs : do_kill(q, c)
                 \/ do_fork_fails(q) \/ sys_exit(q) \/ do_yield(q)
                 \/ \E pid \in Procs \cup {AnyChild} : sys_wait(q, pid)
                 \/ \E t \in SleepTimes : do_sleep(q, t)
          PROVE  pc'[p] \in {"exit_call", "dead"}
      <3>1. Calls(q) /\ \E c : pc' = [pc EXCEPT ![q] = c]
        BY <2>3 DEF do_kill, do_fork_fails, sys_exit, do_yield, sys_wait, do_sleep, Goto
      <3> QED
        BY <3>1, <2>2
    <2> QED
      BY <1>7, <2>1, <2>3 DEF ProcessStep
  <1>8. CASE interrupt_handler
    BY <1>8, <1>1 DEF interrupt_handler
  <1>9. CASE UNCHANGED vars
    BY <1>9, <1>1 DEF vars
  <1> QED
    BY <1>5, <1>6, <1>7, <1>8, <1>9 DEF Next, Halted

(* No wakeup brings a zombie back: it stays one until do_wait frees it. *)
THEOREM ZombiesStayCorrect ==
    ASSUME ~KillInit PROVE Spec => ZombiesStay
  <1>1. Inv /\ Inv' /\ [Next]_vars =>
           [\A p \in Procs : k.state[p] = "PROC_ZOMBIE"
                                => k'.state[p] \in {"PROC_ZOMBIE", "FREE"}]_vars
    BY ZombieStep
  <1> QED
    BY <1>1, Invariance, PTL DEF Spec, ZombiesStay

---------------------------------------------------------------------------
(* The asserts.  That init finds exactly two processes when it has no child
   left needs more than the family relations of LiveParent: a ring of parents
   must be impossible. *)

Alive == {p \in Procs : k.state[p] # "FREE"}

(* nr_process counts the processes. *)
CountOK == IsFiniteSet(Alive) /\ nr_process = Cardinality(Alive)

(* The processes that init has not adopted have been created by one another,
   one generation after the other. *)
Generations ==
    \E rank \in [Procs -> Nat] :
       \A p \in Alive \ {idleproc, initproc} :
          parent[p] # initproc => parent[p] # idleproc /\ rank[parent[p]] < rank[p]

(* Outside of the clock interrupt no timer has expired. *)
TimersWait == TimersOK(timers, Procs) /\ (in_timer \/ ~HeadExpired(timers))

(* Nobody waits for a semaphore or the keyboard in this module. *)
WaitsOK == \A p \in Procs : k.wait_state[p] \in {"0", "WT_CHILD", "WT_TIMER"}

(* What the asserts need beside Inv. *)
Quiet ==
    /\ NoPanic
    /\ WaitsOK
    /\ TimersWait
    /\ waitfor[initproc] = AnyChild
    /\ CountOK
    /\ Generations

(* When init has no child, only idle and init itself are left. *)
LEMMA LastTwo ==
    ASSUME Inv, CountOK, Generations, Kids(initproc) = {}
    PROVE  nr_process = 2
  <1>1. PICK rank \in [Procs -> Nat] :
           \A p \in Alive \ {idleproc, initproc} :
              parent[p] # initproc => parent[p] # idleproc /\ rank[parent[p]] < rank[p]
    BY DEF Generations
  <1> DEFINE Others == Alive \ {idleproc, initproc}
             Ranks == {rank[p] : p \in Others}
  <1>2. Others = {}
    <2>1. SUFFICES ASSUME Others # {} PROVE FALSE
      OBVIOUS
    <2>2. Ranks \in SUBSET Nat /\ Ranks # {}
      BY <2>1 DEF Alive
    <2>3. PICK r \in Ranks : \A y \in Ranks : r <= y
      BY <2>2, LeastNat
    <2>4. PICK p \in Others : r = rank[p]
      BY <2>3
    <2>5. p \in Procs /\ p # idleproc /\ k.state[p] # "FREE" /\ parent[p] # initproc
      BY <2>4 DEF Alive, Kids
    <2>6. parent[p] \in Procs /\ k.state[parent[p]] # "FREE"
      BY <2>5 DEF Inv, LiveParent
    <2>7. parent[p] \in Others /\ rank[parent[p]] < rank[p]
      BY <1>1, <2>4, <2>5, <2>6 DEF Alive
    <2>8. rank[parent[p]] \in Ranks /\ rank[parent[p]] \in Nat /\ rank[p] \in Nat
      BY <2>5, <2>6, <2>7
    <2> QED
      BY <2>3, <2>4, <2>7, <2>8
  <1>3. Alive = {idleproc} \cup {initproc}
    BY <1>2, IdleAssumption, InitAssumption DEF Alive, Inv, ControlOK
  <1>4. Cardinality({idleproc}) = 1 /\ IsFiniteSet({idleproc})
    BY FS_Singleton
  <1>5. Cardinality({idleproc} \cup {initproc}) = 2
    <2>1. initproc \notin {idleproc}
      BY InitAssumption
    <2>2. Cardinality({idleproc} \cup {initproc}) = Cardinality({idleproc}) + 1
      BY <1>4, <2>1, FS_AddElement
    <2> QED
      BY <1>4, <2>2
  <1> QED
    BY <1>3, <1>5 DEF CountOK

LEMMA InitQuiet == Init => Quiet
  <1> SUFFICES ASSUME Init PROVE Quiet
    OBVIOUS
  <1>1. /\ k.state = [p \in Procs |-> IF p \in FirstChildren \cup {initproc, idleproc}
                                      THEN "PROC_RUNNABLE" ELSE "FREE"]
        /\ k.wait_state = [p \in Procs |-> "0"] /\ k.panic = FALSE
    BY DEF Init
  <1>2. Alive = (FirstChildren \cup {initproc}) \cup {idleproc}
    BY <1>1, InitAssumption, IdleAssumption DEF Alive
  <1>3. /\ IsFiniteSet(FirstChildren \cup {initproc})
        /\ Cardinality(FirstChildren \cup {initproc}) = Cardinality(FirstChildren) + 1
    BY InitAssumption, FS_AddElement
  <1>4. /\ IsFiniteSet((FirstChildren \cup {initproc}) \cup {idleproc})
        /\ Cardinality((FirstChildren \cup {initproc}) \cup {idleproc})
             = Cardinality(FirstChildren \cup {initproc}) + 1
    BY <1>3, InitAssumption, FS_AddElement
  <1>5. Cardinality(FirstChildren) \in Nat
    BY InitAssumption, FS_CardinalityType
  <1>6. CountOK
    BY <1>2, <1>3, <1>4, <1>5 DEF CountOK, Init
  <1>7. Generations
    <2> DEFINE rank == [p \in Procs |-> 0]
    <2>1. rank \in [Procs -> Nat]
      OBVIOUS
    <2>2. \A p \in Alive \ {idleproc, initproc} : parent[p] = initproc
      BY <1>2, InitAssumption, IdleAssumption DEF Init
    <2> QED
      BY <2>1, <2>2 DEF Generations
  <1>8. TimersWait
    BY DEF Init, TimersWait, TimersOK, HeadExpired
  <1>9. NoPanic /\ WaitsOK /\ waitfor[initproc] = AnyChild
    BY <1>1, InitAssumption DEF NoPanic, WaitsOK, Init
  <1> QED
    BY <1>6, <1>7, <1>8, <1>9 DEF Quiet

(* The scheduler's part of Quiet, and which slots are in use. *)
Calm(a) == ~a.panic /\ \A p \in Procs : a.wait_state[p] \in {"0", "WT_CHILD", "WT_TIMER"}

SameSlots(a, b) == \A p \in Procs : a.state[p] = "FREE" <=> b.state[p] = "FREE"

(* A step that creates, ends and frees no process. *)
LEMMA QuietFrame ==
    ASSUME Inv, Quiet, Calm(k'), SameSlots(k, k'), UNCHANGED <<parent, nr_process>>,
           TimersWait', waitfor'[initproc] = AnyChild
    PROVE  Quiet'
  <1>1. Alive' = Alive
    BY DEF Alive, SameSlots
  <1>2. CountOK'
    BY <1>1 DEF Quiet, CountOK
  <1>3. Generations'
    BY <1>1 DEF Quiet, Generations
  <1> QED
    BY <1>2, <1>3 DEF Quiet, Calm, NoPanic, WaitsOK

(* A false assertion is the only thing that sets panic. *)
LEMMA AssertCalm ==
    ASSUME NEW a \in SchedRecords, Calm(a), RunQueueOK(a), NEW e, e, NEW b, b = Assert_(a, e)
    PROVE  /\ b \in SchedRecords /\ RunQueueOK(b) /\ b.current = a.current
           /\ b.state = a.state /\ b.wait_state = a.wait_state /\ Calm(b)
  <1>1. /\ b \in SchedRecords /\ RunQueueOK(b) /\ b.current = a.current
        /\ b.state = a.state /\ b.wait_state = a.wait_state
    BY AssertKeeps
  <1>2. ~b.panic
    <2>1. a.panic = FALSE
      BY DEF Calm, SchedRecords
    <2>2. (a.panic \/ ~e) = FALSE
      BY <2>1, Zenon
    <2>3. b = [a EXCEPT !.panic = FALSE]
      BY <2>2, Zenon DEF Assert_
    <2> QED
      BY <2>3 DEF SchedRecords
  <1> QED
    BY <1>1, <1>2 DEF Calm

(* Waking a process that exists and is not a zombie. *)
LEMMA WakeupCalm ==
    ASSUME NEW a \in SchedRecords, Calm(a), RunQueueOK(a), NEW q \in Procs,
           a.state[q] \notin {"FREE", "PROC_ZOMBIE"},
           NEW b, b = wakeup_proc(a, q)
    PROVE  b \in SchedRecords /\ RunQueueOK(b) /\ Calm(b) /\ SameSlots(a, b)
  <1>1. /\ b \in SchedRecords /\ RunQueueOK(b)
        /\ b.state = [a.state EXCEPT ![q] = "PROC_RUNNABLE"]
        /\ b.wait_state = IF a.state[q] = "PROC_RUNNABLE" THEN a.wait_state
                          ELSE [a.wait_state EXCEPT ![q] = "0"]
    BY WakeupFacts
  <1>2. ~b.panic
    <2>1. ~a.panic /\ a.state[q] # "PROC_ZOMBIE"
      BY DEF Calm
    <2> QED
      BY <2>1, WakeupPanic
  <1>3. a.state \in [Procs -> ProcStates] /\ a.wait_state \in [Procs -> WaitStates]
    BY DEF SchedRecords
  <1>4. \A p \in Procs : b.wait_state[p] \in {"0", "WT_CHILD", "WT_TIMER"}
    BY <1>1, <1>3 DEF Calm
  <1>5. SameSlots(a, b)
    BY <1>1, <1>3 DEF SameSlots
  <1> QED
    BY <1>1, <1>2, <1>4, <1>5 DEF Calm

LEMMA SleepCalm ==
    ASSUME NEW a \in SchedRecords, Calm(a), RunQueueOK(a), a.state[a.current] # "FREE",
           NEW w \in {"WT_CHILD", "WT_TIMER"}, NEW b, b = SleepCurrent(a, w)
    PROVE  Calm(b) /\ SameSlots(a, b)
  <1>1. /\ b.state = [a.state EXCEPT ![a.current] = "PROC_SLEEPING"]
        /\ b.wait_state = [a.wait_state EXCEPT ![a.current] = w]
    <2>1. w \in WaitStates
      BY DEF WaitStates
    <2> QED
      BY <2>1, SleepCurrentFacts
  <1>2. b.panic = a.panic
    BY DEF SleepCurrent, SchedRecords
  <1>3. a.current \in Procs /\ a.state \in [Procs -> ProcStates] /\ a.wait_state \in [Procs -> WaitStates]
    BY DEF SchedRecords
  <1> QED
    BY <1>1, <1>2, <1>3 DEF Calm, SameSlots

LEMMA ScheduleCalm ==
    ASSUME NEW a \in SchedRecords, Calm(a), RunQueueOK(a), NEW b, b = schedule(a)
    PROVE  Calm(b) /\ SameSlots(a, b)
  <1>1. b.state = a.state /\ b.wait_state = a.wait_state
    BY ScheduleFacts
  <1>2. ~b.panic
    BY SchedulePanic DEF Calm
  <1> QED
    BY <1>1, <1>2 DEF Calm, SameSlots

(* What the invariants say of the record k. *)
LEMMA CalmNow ==
    ASSUME Inv, Quiet
    PROVE  /\ k \in SchedRecords /\ RunQueueOK(k) /\ Calm(k)
           /\ k.current \in Procs /\ initproc \in Procs /\ waitfor[initproc] = AnyChild
           /\ waitfor \in [Procs -> Procs \cup {AnyChild}]
  <1>1. k \in SchedRecords /\ RunQueueOK(k) /\ waitfor \in [Procs -> Procs \cup {AnyChild}]
    BY DEF Inv, TypeOK
  <1> QED
    BY <1>1, InitAssumption DEF Quiet, Calm, NoPanic, WaitsOK, SchedRecords

(* The actions of the running process that end in schedule(), or only move its
   program counter. *)
LEMMA MoveQuiet ==
    ASSUME Inv, Quiet, NEW p \in Procs,
           \/ do_fork_fails(p) \/ sys_exit(p) \/ do_wait_woken(p) \/ trap_return(p)
           \/ CallSchedule(p) \/ cpu_idle
           \/ \E pid \in Procs \cup {AnyChild} : sys_wait(p, pid)
    PROVE  Quiet'
  <1>1. UNCHANGED <<parent, nr_process, timers, in_timer>> /\ (k' = k \/ k' = schedule(k))
    BY DEF do_fork_fails, sys_exit, do_wait_woken, trap_return, CallSchedule, cpu_idle, sys_wait
  <1>2. Calm(k') /\ SameSlots(k, k')
    <2>1. CASE k' = k
      BY <2>1, CalmNow DEF SameSlots
    <2>2. CASE k' = schedule(k)
      BY <2>2, CalmNow, ScheduleCalm
    <2> QED
      BY <1>1, <2>1, <2>2
  <1>3. TimersWait'
    BY <1>1 DEF Quiet, TimersWait
  <1>4. waitfor'[initproc] = AnyChild
    <2>1. waitfor[initproc] = AnyChild
      BY CalmNow
    <2>2. CASE UNCHANGED waitfor
      BY <2>1, <2>2
    <2>3. ASSUME NEW pid, sys_wait(p, pid) PROVE waitfor'[initproc] = AnyChild
      BY <2>1, <2>3, CalmNow DEF sys_wait, Calls
    <2> QED
      BY <2>2, <2>3 DEF do_fork_fails, sys_exit, do_wait_woken, trap_return, CallSchedule, cpu_idle
  <1> QED
    BY <1>1, <1>2, <1>3, <1>4, QuietFrame

(* Going to sleep, in do_wait and do_sleep: the timer that do_sleep adds is
   the only one of its process and has not expired. *)
LEMMA SleepQuiet ==
    ASSUME Inv, Quiet, NEW p \in Procs,
           do_wait_sleep(p) \/ \E t \in SleepTimes : do_sleep(p, t)
    PROVE  Quiet'
  <1>1. CASE do_wait_sleep(p)
    <2>1. /\ k' = SleepCurrent(k, "WT_CHILD") /\ k.current = p /\ pc[p] = "wait"
          /\ UNCHANGED <<parent, waitfor, timers, in_timer, nr_process>>
      BY <1>1 DEF do_wait_sleep, At
    <2>2. k.state[k.current] # "FREE"
      BY <2>1 DEF Inv, ControlOK
    <2>3. Calm(k') /\ SameSlots(k, k')
      BY <2>1, <2>2, CalmNow, SleepCalm
    <2>4. TimersWait' /\ waitfor'[initproc] = AnyChild
      BY <2>1, CalmNow DEF Quiet, TimersWait
    <2> QED
      BY <2>1, <2>3, <2>4, QuietFrame
  <1>2. ASSUME NEW t \in SleepTimes, do_sleep(p, t) PROVE Quiet'
    <2>1. /\ k' = SleepCurrent(Assert_(k, t > 0 /\ ~HasTimer(timers, p)), "WT_TIMER")
          /\ k.current = p /\ pc[p] = "user" /\ ~in_timer
          /\ timers' = add_timer(timers, p, t)
          /\ UNCHANGED <<parent, waitfor, in_timer, nr_process>>
      BY <1>2 DEF do_sleep, Calls, At
    <2>2. t \in Nat \ {0} /\ t > 0 /\ ~HasTimer(timers, p)
      BY <2>1, InitAssumption DEF Inv, SleepersHaveTimers
    <2>3. PICK a : a = Assert_(k, t > 0 /\ ~HasTimer(timers, p))
      OBVIOUS
    <2>4. /\ a \in SchedRecords /\ RunQueueOK(a) /\ a.current = k.current
          /\ a.state = k.state /\ Calm(a)
      BY <2>2, <2>3, CalmNow, AssertCalm
    <2>5. a.state[a.current] # "FREE"
      BY <2>1, <2>4 DEF Inv, ControlOK
    <2>6. Calm(k') /\ SameSlots(a, k')
      BY <2>1, <2>3, <2>4, <2>5, SleepCalm
    <2>7. SameSlots(k, k')
      BY <2>4, <2>6 DEF SameSlots
    <2>8. TimersWait'
      <3>1. TimersOK(timers, Procs) /\ ~HeadExpired(timers)
        BY <2>1 DEF Quiet, TimersWait
      <3>2. TimersOK(timers', Procs) /\ ~HeadExpired(timers')
        BY <2>1, <2>2, <3>1, AddTimerExpires
      <3> QED
        BY <3>2 DEF TimersWait
    <2>9. waitfor'[initproc] = AnyChild
      BY <2>1, CalmNow
    <2> QED
      BY <2>1, <2>6, <2>7, <2>8, <2>9, QuietFrame
  <1> QED
    BY <1>1, <1>2

LEMMA SleepWokenQuiet ==
    ASSUME Inv, Quiet, NEW p \in Procs, do_sleep_woken(p)
    PROVE  Quiet'
  <1>1. /\ timers' = del_timer(timers, p) /\ ~in_timer
        /\ UNCHANGED <<k, parent, waitfor, in_timer, nr_process>>
    BY DEF do_sleep_woken, At
  <1>2. TimersWait'
    <2>1. TimersOK(timers, Procs) /\ ~HeadExpired(timers)
      BY <1>1 DEF Quiet, TimersWait
    <2>2. TimersOK(timers', Procs) /\ ~HeadExpired(timers')
      BY <1>1, <2>1, DelTimerExpires
    <2> QED
      BY <2>2 DEF TimersWait
  <1>3. Calm(k') /\ SameSlots(k, k') /\ waitfor'[initproc] = AnyChild
    BY <1>1, CalmNow DEF SameSlots
  <1> QED
    BY <1>1, <1>2, <1>3, QuietFrame

(* When do_wait finds no child of init, only two processes are left. *)
LEMMA WaitFailsQuiet ==
    ASSUME Inv, Quiet, NEW p \in Procs, do_wait_fails(p)
    PROVE  Quiet'
  <1>1. /\ k' = IF p = initproc THEN Assert_(k, nr_process = 2) ELSE k
        /\ Awaited(p) = {} /\ waitfor' = [waitfor EXCEPT ![p] = AnyChild]
        /\ UNCHANGED <<parent, timers, in_timer, nr_process>>
    BY DEF do_wait_fails
  <1>2. Calm(k') /\ SameSlots(k, k')
    <2>1. CASE p = initproc
      <3>1. nr_process = 2
        <4>1. Kids(initproc) = {}
          BY <1>1, <2>1, CalmNow DEF Awaited
        <4> QED
          BY <4>1, LastTwo DEF Quiet
      <3>2. k' = Assert_(k, nr_process = 2)
        BY <1>1, <2>1
      <3> QED
        BY <3>1, <3>2, CalmNow, AssertCalm, ZenonT(40) DEF SameSlots
    <2>2. CASE p # initproc
      BY <1>1, <2>2, CalmNow DEF SameSlots
    <2> QED
      BY <2>1, <2>2
  <1>3. TimersWait' /\ waitfor'[initproc] = AnyChild
    BY <1>1, CalmNow DEF Quiet, TimersWait
  <1> QED
    BY <1>1, <1>2, <1>3, QuietFrame

(* do_kill wakes a sleeping process. *)
LEMMA KillQuiet ==
    ASSUME Inv, Quiet, NEW p \in Procs, NEW q \in Procs, do_kill(p, q)
    PROVE  Quiet'
  <1>1. /\ k' = k \/ (k' = wakeup_proc(k, q) /\ KillWakes(q))
        /\ UNCHANGED <<parent, waitfor, timers, in_timer, nr_process>>
    BY DEF do_kill
  <1>2. Calm(k') /\ SameSlots(k, k')
    <2>1. CASE k' = k
      BY <2>1, CalmNow DEF SameSlots
    <2>2. CASE k' = wakeup_proc(k, q) /\ KillWakes(q)
      <3>1. k.state[q] = "PROC_SLEEPING"
        BY <2>2 DEF KillWakes, WT_INTERRUPTED, Inv, ControlOK
      <3> QED
        BY <2>2, <3>1, CalmNow, WakeupCalm
    <2> QED
      BY <1>1, <2>1, <2>2
  <1>3. TimersWait' /\ waitfor'[initproc] = AnyChild
    BY <1>1, CalmNow DEF Quiet, TimersWait
  <1> QED
    BY <1>1, <1>2, <1>3, QuietFrame

LEMMA YieldQuiet ==
    ASSUME Inv, Quiet, NEW p \in Procs, do_yield(p)
    PROVE  Quiet'
  <1>1. /\ k' = [k EXCEPT !.need_resched = [k.need_resched EXCEPT ![p] = TRUE]]
        /\ UNCHANGED <<parent, waitfor, timers, in_timer, nr_process>>
    BY DEF do_yield
  <1>2. k'.panic = k.panic /\ k'.wait_state = k.wait_state /\ k'.state = k.state
    BY <1>1, CalmNow DEF SchedRecords
  <1>3. Calm(k') /\ SameSlots(k, k')
    BY <1>2, CalmNow DEF Calm, SameSlots
  <1>4. TimersWait' /\ waitfor'[initproc] = AnyChild
    BY <1>1, CalmNow DEF Quiet, TimersWait
  <1> QED
    BY <1>1, <1>3, <1>4, QuietFrame

(* The clock interrupt: the head of timer_list has not expired before it, and
   the owner of an expired timer sleeps in do_sleep or has been killed. *)
LEMMA ClockQuiet ==
    ASSUME Inv, Quiet, interrupt_handler \/ run_timer_list_wake \/ run_timer_list_end
    PROVE  Quiet'
  <1>0. waitfor[initproc] = AnyChild
    BY CalmNow
  <1>1. CASE interrupt_handler
    <2>1. /\ ~in_timer /\ k' = Assert_(k, ~HeadExpired(timers)) /\ timers' = TickHead(timers)
          /\ in_timer' = TRUE /\ UNCHANGED <<parent, waitfor, nr_process>>
      BY <1>1 DEF interrupt_handler
    <2>2. TimersOK(timers, Procs) /\ ~HeadExpired(timers)
      BY <2>1 DEF Quiet, TimersWait
    <2>3. Calm(k') /\ SameSlots(k, k')
      BY <2>1, <2>2, CalmNow, AssertCalm DEF SameSlots
    <2>4. TimersWait'
      BY <2>1, <2>2, TickHeadExpires DEF TimersWait
    <2> QED
      BY <1>0, <2>1, <2>3, <2>4, QuietFrame
  <1>2. CASE run_timer_list_wake
    <2>1. /\ in_timer /\ HeadExpired(timers) /\ k' = FireTimer(timers[1].proc)
          /\ timers' = del_timer(timers, timers[1].proc)
          /\ UNCHANGED <<parent, waitfor, in_timer, nr_process>>
      BY <1>2 DEF run_timer_list_wake
    <2>2. TimersOK(timers, Procs)
      BY DEF Quiet, TimersWait
    <2>3. 1 \in 1 .. Len(timers)
      BY <2>1, <2>2 DEF TimersOK, HeadExpired
    <2>4. PICK q \in Procs : q = timers[1].proc
      BY <2>3 DEF Inv, TypeOK, IsTimerList
    <2>5. HasTimer(timers, q)
      BY <2>3, <2>4 DEF HasTimer
    <2>6. pc[q] \in {"sleep_call", "sleep_woken"}
      BY <2>5 DEF Inv, SleepersHaveTimers
    <2>7. k.state[q] \notin {"FREE", "PROC_ZOMBIE"}
      BY <2>6 DEF Inv, ControlOK
    <2>8. k.wait_state[q] # "0" => k.wait_state[q] \in WT_INTERRUPTED
      BY DEF Quiet, WaitsOK, WT_INTERRUPTED
    <2>9. PICK a : a = Assert_(k, k.wait_state[q] # "0" => k.wait_state[q] \in WT_INTERRUPTED)
      OBVIOUS
    <2>10. a \in SchedRecords /\ RunQueueOK(a) /\ a.state = k.state /\ Calm(a)
      BY <2>8, <2>9, CalmNow, AssertCalm
    <2>11. k' = wakeup_proc(a, q)
      BY <2>1, <2>4, <2>9 DEF FireTimer
    <2>12. Calm(k') /\ SameSlots(a, k')
      BY <2>7, <2>10, <2>11, WakeupCalm
    <2>13. SameSlots(k, k')
      BY <2>10, <2>12 DEF SameSlots
    <2>14. TimersWait'
      BY <2>1, <2>2, DelTimerExpires DEF TimersWait
    <2> QED
      BY <1>0, <2>1, <2>12, <2>13, <2>14, QuietFrame
  <1>3. CASE run_timer_list_end
    <2>1. /\ ~HeadExpired(timers) /\ k' = sched_class_proc_tick(k, k.current)
          /\ UNCHANGED <<parent, waitfor, timers, nr_process>>
      BY <1>3 DEF run_timer_list_end
    <2>2. k'.state = k.state /\ k'.wait_state = k.wait_state
      BY <2>1, CalmNow, ProcTickFacts
    <2>3. k'.panic = k.panic
      BY <2>1, CalmNow DEF sched_class_proc_tick, RR_proc_tick, SchedRecords
    <2>4. Calm(k') /\ SameSlots(k, k')
      BY <2>2, <2>3, CalmNow DEF Calm, SameSlots
    <2>5. TimersWait'
      BY <2>1 DEF Quiet, TimersWait
    <2> QED
      BY <1>0, <2>1, <2>4, <2>5, QuietFrame
  <1> QED
    BY <1>1, <1>2, <1>3

(* do_fork: the new process belongs to the generation after its parent's. *)
LEMMA ForkQuiet ==
    ASSUME Inv, Quiet, NEW p \in Procs, NEW c \in Procs, do_fork(p, c)
    PROVE  Quiet'
  <1>1. /\ p = k.current /\ pc[p] = "user" /\ p \notin {idleproc, initproc}
        /\ k.state[c] = "FREE"
        /\ k' = wakeup_proc(ClearProc(Assert_(k, k.wait_state[p] = "0"), c, "PROC_UNINIT"), c)
        /\ parent' = [parent EXCEPT ![c] = p] /\ nr_process' = nr_process + 1
        /\ UNCHANGED <<waitfor, timers, in_timer>>
    BY DEF do_fork, Calls, At
  <1>2. k.wait_state[p] = "0" /\ k.state[p] = "PROC_RUNNABLE" /\ c # initproc /\ c # idleproc /\ c # p
    BY <1>1 DEF Inv, ControlOK
  <1>3. PICK a : a = Assert_(k, k.wait_state[p] = "0")
    OBVIOUS
  <1>4. PICK b : b = ClearProc(a, c, "PROC_UNINIT")
    OBVIOUS
  <1>5. /\ a \in SchedRecords /\ RunQueueOK(a) /\ Calm(a)
        /\ a.state = k.state /\ a.wait_state = k.wait_state
    BY <1>2, <1>3, CalmNow, AssertCalm
  <1>6. /\ b \in SchedRecords /\ RunQueueOK(b)
        /\ b.state = [a.state EXCEPT ![c] = "PROC_UNINIT"]
        /\ b.wait_state = [a.wait_state EXCEPT ![c] = "0"]
    <2>1. "PROC_UNINIT" \in ProcStates /\ a.state[c] # "PROC_RUNNABLE"
      BY <1>1, <1>5 DEF ProcStates
    <2> QED
      BY <1>4, <1>5, <2>1, ClearProcFacts
  <1>7. b.panic = a.panic
    BY <1>4, <1>5 DEF ClearProc, SchedRecords
  <1>8. a.state \in [Procs -> ProcStates] /\ a.wait_state \in [Procs -> WaitStates]
    BY <1>5 DEF SchedRecords
  <1>9. Calm(b) /\ b.state[c] = "PROC_UNINIT"
    BY <1>5, <1>6, <1>7, <1>8 DEF Calm
  <1>10. Calm(k') /\ SameSlots(b, k')
    <2>1. k' = wakeup_proc(b, c)
      BY <1>1, <1>3, <1>4
    <2>2. b.state[c] \notin {"FREE", "PROC_ZOMBIE"}
      BY <1>9
    <2> QED
      BY <2>1, <2>2, <1>6, <1>9, WakeupCalm
  <1>11. Alive' = Alive \cup {c} /\ c \notin Alive
    <2>1. \A x \in Procs : k'.state[x] = "FREE" <=> (x # c /\ k.state[x] = "FREE")
      BY <1>5, <1>6, <1>8, <1>10 DEF SameSlots
    <2> QED
      BY <1>1, <2>1 DEF Alive
  <1>12. CountOK'
    <2>1. IsFiniteSet(Alive) /\ nr_process = Cardinality(Alive)
      BY DEF Quiet, CountOK
    <2>2. IsFiniteSet(Alive \cup {c}) /\ Cardinality(Alive \cup {c}) = Cardinality(Alive) + 1
      BY <1>11, <2>1, FS_AddElement
    <2> QED
      BY <1>1, <1>11, <2>1, <2>2 DEF CountOK
  <1>13. Generations'
    <2>1. PICK rank \in [Procs -> Nat] :
             \A x \in Alive \ {idleproc, initproc} :
                parent[x] # initproc => parent[x] # idleproc /\ rank[parent[x]] < rank[x]
      BY DEF Quiet, Generations
    <2> DEFINE new == [rank EXCEPT ![c] = rank[p] + 1]
    <2>2. new \in [Procs -> Nat] /\ new[c] = rank[p] + 1 /\ rank[p] \in Nat
      OBVIOUS
    <2>3. \A x : x # c => new[x] = rank[x]
      BY <2>1
    <2>4. parent \in [Procs -> Procs \cup {NoProc}]
      BY DEF Inv, TypeOK
    <2> HIDE DEF new
    <2>5. ASSUME NEW x \in Alive' \ {idleproc, initproc}, parent'[x] # initproc
          PROVE  parent'[x] # idleproc /\ new[parent'[x]] < new[x]
      <3>1. CASE x = c
        <4>1. parent'[x] = p
          BY <1>1, <2>4, <3>1
        <4> QED
          BY <4>1, <3>1, <1>1, <1>2, <2>2, <2>3
      <3>2. CASE x # c
        <4>1. x \in Procs /\ x \in Alive /\ parent'[x] = parent[x] /\ k.state[x] # "FREE"
          BY <1>1, <1>11, <2>4, <2>5, <3>2 DEF Alive
        <4>2. parent[x] # c
          BY <1>1, <4>1, <2>5 DEF Inv, LiveParent
        <4>3. parent[x] # idleproc /\ rank[parent[x]] < rank[x]
          BY <2>1, <2>5, <4>1
        <4> QED
          BY <2>3, <3>2, <4>1, <4>2, <4>3
      <3> QED
        BY <3>1, <3>2
    <2> QED
      BY <2>2, <2>5 DEF Generations
  <1>14. TimersWait' /\ waitfor'[initproc] = AnyChild
    BY <1>1, CalmNow DEF Quiet, TimersWait
  <1> QED
    BY <1>10, <1>12, <1>13, <1>14 DEF Quiet, Calm, NoPanic, WaitsOK

(* do_exit: the parent exists and is no zombie, the children go to init. *)
LEMMA ExitQuiet ==
    ASSUME Inv, Quiet, NEW p \in Procs, do_exit(p)
    PROVE  Quiet'
  <1>1. PICK a : a = Assert_(k, p # initproc)
    OBVIOUS
  <1>2. PICK b : b = [a EXCEPT !.state = [a.state EXCEPT ![p] = "PROC_ZOMBIE"]]
    OBVIOUS
  <1>3. PICK w : w = WakeParent(b, p)
    OBVIOUS
  <1>4. /\ p = k.current /\ pc[p] = "exit" /\ k' = WakeInit(w, p) /\ parent' = Reparent(p)
        /\ UNCHANGED <<waitfor, timers, in_timer, nr_process>>
    BY <1>1, <1>2, <1>3 DEF do_exit, At
  <1>5. p # idleproc /\ p # initproc /\ k.state[p] = "PROC_RUNNABLE"
    BY <1>4 DEF Inv, ControlOK
  <1>6. /\ parent[p] \in Procs /\ parent[p] # p
        /\ k.state[parent[p]] \notin {"FREE", "PROC_ZOMBIE"}
    BY <1>5 DEF Inv, LiveParent, Family
  <1>7. k.state[initproc] \notin {"FREE", "PROC_ZOMBIE"} /\ initproc \in Procs
    BY InitAssumption DEF Inv, ControlOK
  <1>8. /\ a \in SchedRecords /\ RunQueueOK(a) /\ a.current = k.current
        /\ a.state = k.state /\ Calm(a)
    BY <1>1, <1>5, CalmNow, AssertCalm
  <1>9. PICK st \in [Procs -> ProcStates] : st = [a.state EXCEPT ![p] = "PROC_ZOMBIE"]
    BY <1>8 DEF SchedRecords, ProcStates
  <1>10. /\ b \in SchedRecords /\ b.current = a.current /\ b.run_list = a.run_list
         /\ b.state = st /\ b.wait_state = a.wait_state /\ b.panic = a.panic
    BY <1>2, <1>8, <1>9 DEF SchedRecords
  <1>11. \A x \in Procs : b.state[x] = IF x = p THEN "PROC_ZOMBIE" ELSE k.state[x]
    BY <1>8, <1>9, <1>10 DEF SchedRecords
  <1>12. RunQueueOK(b)
    <2>1. \A x \in Procs : x # a.current =>
             (b.state[x] = "PROC_RUNNABLE" <=> a.state[x] = "PROC_RUNNABLE")
      BY <1>4, <1>8, <1>11
    <2> QED
      BY <2>1, <1>8, <1>10, RunQueueFrame
  <1>13. Calm(b)
    BY <1>8, <1>10 DEF Calm
  <1>14. /\ w \in SchedRecords /\ RunQueueOK(w) /\ Calm(w) /\ SameSlots(b, w)
         /\ w.state[initproc] \notin {"FREE", "PROC_ZOMBIE"}
    <2>1. CASE w = b
      BY <2>1, <1>5, <1>7, <1>10, <1>11, <1>12, <1>13 DEF SameSlots
    <2>2. CASE w = wakeup_proc(b, parent[p])
      <3>1. b.state[parent[p]] \notin {"FREE", "PROC_ZOMBIE"}
        BY <1>6, <1>11
      <3>2. w \in SchedRecords /\ RunQueueOK(w) /\ Calm(w) /\ SameSlots(b, w)
        BY <2>2, <3>1, <1>6, <1>10, <1>12, <1>13, WakeupCalm
      <3>3. PICK q \in Procs : q = parent[p] /\ w = wakeup_proc(b, q)
        BY <2>2, <1>6
      <3>4. w.state = [b.state EXCEPT ![q] = "PROC_RUNNABLE"]
        <4>1. b \in SchedRecords /\ w = wakeup_proc(b, q)
          BY <3>3, <1>10
        <4> QED
          BY <4>1, <1>12, WakeupFacts
      <3>5. w.state[initproc] \notin {"FREE", "PROC_ZOMBIE"}
        BY <3>4, <1>5, <1>7, <1>9, <1>10, <1>11
      <3> QED
        BY <3>2, <3>5
    <2> QED
      BY <2>1, <2>2, <1>3 DEF WakeParent
  <1>15. Calm(k') /\ SameSlots(w, k')
    <2>1. CASE k' = w
      BY <2>1, <1>14 DEF SameSlots
    <2>2. CASE k' = wakeup_proc(w, initproc)
      BY <2>2, <1>7, <1>14, WakeupCalm
    <2> QED
      BY <2>1, <2>2, <1>4 DEF WakeInit
  <1>16. Alive' = Alive
    <2>1. \A x \in Procs : k'.state[x] = "FREE" <=> k.state[x] = "FREE"
      BY <1>5, <1>11, <1>14, <1>15 DEF SameSlots
    <2> QED
      BY <2>1 DEF Alive
  <1>17. CountOK'
    BY <1>4, <1>16 DEF Quiet, CountOK
  <1>18. Generations'
    <2>1. PICK rank \in [Procs -> Nat] :
             \A x \in Alive \ {idleproc, initproc} :
                parent[x] # initproc => parent[x] # idleproc /\ rank[parent[x]] < rank[x]
      BY DEF Quiet, Generations
    <2>2. \A x \in Procs : parent'[x] # initproc => parent'[x] = parent[x]
      BY <1>4 DEF Reparent
    <2>3. \A x \in Alive' \ {idleproc, initproc} :
             parent'[x] # initproc => parent'[x] # idleproc /\ rank[parent'[x]] < rank[x]
      BY <2>1, <2>2, <1>16 DEF Alive
    <2> QED
      BY <2>3 DEF Generations
  <1>19. TimersWait' /\ waitfor'[initproc] = AnyChild
    BY <1>4, CalmNow DEF Quiet, TimersWait
  <1> QED
    BY <1>15, <1>17, <1>18, <1>19 DEF Quiet, Calm, NoPanic, WaitsOK

(* do_wait frees a zombie, which is neither idle nor init. *)
LEMMA ReapQuiet ==
    ASSUME Inv, Quiet, NEW p \in Procs, NEW c \in Procs, do_wait_reap(p, c)
    PROVE  Quiet'
  <1>1. PICK a : a = Assert_(k, c \notin {idleproc, initproc})
    OBVIOUS
  <1>2. /\ k' = ClearProc(a, c, "FREE") /\ k.state[c] = "PROC_ZOMBIE"
        /\ parent' = [parent EXCEPT ![c] = NoProc] /\ nr_process' = nr_process - 1
        /\ waitfor' = [waitfor EXCEPT ![p] = AnyChild, ![c] = AnyChild]
        /\ UNCHANGED <<timers, in_timer>>
    BY <1>1 DEF do_wait_reap, Zombies, remove_links
  <1>3. c \notin {idleproc, initproc}
    BY <1>2 DEF Inv, ControlOK
  <1>4. /\ a \in SchedRecords /\ RunQueueOK(a) /\ Calm(a)
        /\ a.state = k.state /\ a.wait_state = k.wait_state
    BY <1>1, <1>3, CalmNow, AssertCalm
  <1>5. /\ k'.state = [a.state EXCEPT ![c] = "FREE"]
        /\ k'.wait_state = [a.wait_state EXCEPT ![c] = "0"]
    <2>1. "FREE" \in ProcStates /\ a.state[c] # "PROC_RUNNABLE"
      BY <1>2, <1>4 DEF ProcStates
    <2> QED
      BY <1>2, <1>4, <2>1, ClearProcFacts
  <1>6. k'.panic = a.panic
    BY <1>2, <1>4 DEF ClearProc, SchedRecords
  <1>7. a.state \in [Procs -> ProcStates] /\ a.wait_state \in [Procs -> WaitStates]
    BY <1>4 DEF SchedRecords
  <1>8. Calm(k')
    BY <1>4, <1>5, <1>6, <1>7 DEF Calm
  <1>9. Alive' = Alive \ {c} /\ c \in Alive
    BY <1>2, <1>4, <1>5, <1>7 DEF Alive
  <1>10. CountOK'
    <2>1. IsFiniteSet(Alive) /\ nr_process = Cardinality(Alive)
      BY DEF Quiet, CountOK
    <2>2. IsFiniteSet(Alive \ {c}) /\ Cardinality(Alive \ {c}) = Cardinality(Alive) - 1
      BY <1>9, <2>1, FS_RemoveElement
    <2> QED
      BY <1>2, <1>9, <2>1, <2>2 DEF CountOK
  <1>11. Generations'
    <2>1. PICK rank \in [Procs -> Nat] :
             \A x \in Alive \ {idleproc, initproc} :
                parent[x] # initproc => parent[x] # idleproc /\ rank[parent[x]] < rank[x]
      BY DEF Quiet, Generations
    <2>2. parent \in [Procs -> Procs \cup {NoProc}]
      BY DEF Inv, TypeOK
    <2>3. \A x \in Alive' : x \in Alive /\ parent'[x] = parent[x]
      BY <1>2, <1>9, <2>2 DEF Alive
    <2>4. \A x \in Alive' \ {idleproc, initproc} :
             parent'[x] # initproc => parent'[x] # idleproc /\ rank[parent'[x]] < rank[x]
      BY <2>1, <2>3
    <2> QED
      BY <2>4 DEF Generations
  <1>12. TimersWait'
    BY <1>2 DEF Quiet, TimersWait
  <1>13. waitfor'[initproc] = AnyChild
    BY <1>2, CalmNow
  <1> QED
    BY <1>8, <1>10, <1>11, <1>12, <1>13 DEF Quiet, Calm, NoPanic, WaitsOK

LEMMA NextQuiet ==
    ASSUME Inv, Quiet, [Next]_vars
    PROVE  Quiet'
  <1>1. CASE KernelStep
    <2>1. ASSUME NEW p \in Procs,
                 \/ do_exit(p)
                 \/ do_wait_sleep(p) \/ do_wait_woken(p) \/ do_wait_fails(p)
                 \/ \E c \in Procs : do_wait_reap(p, c)
                 \/ do_sleep_woken(p)
                 \/ CallSchedule(p) \/ trap_return(p)
          PROVE  Quiet'
      BY <2>1, ExitQuiet, SleepQuiet, MoveQuiet, WaitFailsQuiet, ReapQuiet, SleepWokenQuiet
    <2>2. CASE cpu_idle
      BY <2>2, MoveQuiet, IdleAssumption
    <2> QED
      BY <1>1, <2>1, <2>2 DEF KernelStep
  <1>2. CASE TimerStep \/ interrupt_handler
    BY <1>2, ClockQuiet DEF TimerStep
  <1>3. CASE ProcessStep
    <2>1. PICK p \in Procs :
             \/ \E c \in Procs : do_fork(p, c) \/ do_kill(p, c)
             \/ do_fork_fails(p)
             \/ sys_exit(p)
             \/ \E pid \in Procs \cup {AnyChild} : sys_wait(p, pid)
             \/ do_yield(p)
             \/ \E t \in SleepTimes : do_sleep(p, t)
      BY <1>3 DEF ProcessStep
    <2> QED
      BY <2>1, ForkQuiet, KillQuiet, MoveQuiet, YieldQuiet, SleepQuiet
  <1>4. CASE UNCHANGED vars
    BY <1>4 DEF vars, Quiet, NoPanic, WaitsOK, TimersWait, CountOK, Generations, Alive
  <1> QED
    BY <1>1, <1>2, <1>3, <1>4 DEF Next, Halted

(* No assert() or panic() of the modelled code is reached: nobody wakes a
   zombie or enqueues a process twice, no timer is overdue, and init finds
   exactly two processes when it has no children left. *)
THEOREM NoPanicCorrect ==
    ASSUME ~KillInit PROVE Spec => []NoPanic
  <1>1. Init => Quiet
    BY InitQuiet
  <1>2. Inv /\ Quiet /\ [Next]_vars => Quiet'
    BY NextQuiet
  <1>3. Quiet => NoPanic
    BY DEF Quiet
  <1> QED
    BY <1>1, <1>2, <1>3, Invariance, PTL DEF Spec

---------------------------------------------------------------------------
(* get_pid, which names the processes, never hands out a pid that is in use,
   for every MAX_PID and MAX_PROCESS: the invariant of its loop, and of the
   range that it keeps from one call to the next. *)

(* The process list is a list of pids, each there once. *)
ListOK ==
    /\ proc_list \in Seq(1 .. MAX_PID - 1)
    /\ \A i, j \in 1 .. Len(proc_list) : proc_list[i] = proc_list[j] => i = j

(* Inside the loop last_pid is below next_safe, so that it can be returned. *)
CacheOK ==
    /\ last_pid \in 1 .. MAX_PID /\ next_safe \in 1 .. MAX_PID /\ le \in 0 .. Len(proc_list) + 1
    /\ le # 0 => last_pid < next_safe

(* No pid of the range is in use by the processes the loop has seen, and
   neither is last_pid while it is looked for. *)
RangeOK ==
    \A i \in 1 .. Len(proc_list) :
       /\ le = 0 \/ i < le => ~(last_pid < proc_list[i] /\ proc_list[i] < next_safe)
       /\ i < le => proc_list[i] # last_pid

(* The inductive invariant. *)
PidInv == ListOK /\ CacheOK /\ RangeOK

---------------------------------------------------------------------------
(* A new pid at the head of the list. *)
LEMMA ConsFacts ==
    ASSUME ListOK, NEW pid \in 1 .. MAX_PID - 1, set_links(pid),
           \A i \in 1 .. Len(proc_list) : proc_list[i] # pid
    PROVE  /\ ListOK' /\ Len(proc_list') = Len(proc_list) + 1
           /\ \A i \in 1 .. Len(proc_list') : proc_list'[i] = IF i = 1 THEN pid ELSE proc_list[i - 1]
  <1>1. /\ proc_list \in Seq(1 .. MAX_PID - 1) /\ <<pid>> \in Seq(1 .. MAX_PID - 1)
        /\ proc_list' = <<pid>> \o proc_list
    BY DEF ListOK, set_links
  <1>2. /\ proc_list' \in Seq(1 .. MAX_PID - 1) /\ Len(proc_list') = Len(proc_list) + 1
        /\ \A i \in 1 .. Len(proc_list') : proc_list'[i] = IF i = 1 THEN pid ELSE proc_list[i - 1]
    BY <1>1
  <1>3. ASSUME NEW i \in 1 .. Len(proc_list'), NEW j \in 1 .. Len(proc_list'),
               proc_list'[i] = proc_list'[j]
        PROVE  i = j
    <2>1. CASE i = 1 \/ j = 1
      BY <1>2, <1>3, <2>1
    <2>2. CASE i # 1 /\ j # 1
      <3>1. /\ i - 1 \in 1 .. Len(proc_list) /\ j - 1 \in 1 .. Len(proc_list)
            /\ proc_list[i - 1] = proc_list[j - 1]
        BY <1>1, <1>2, <1>3, <2>2
      <3> QED
        BY <3>1 DEF ListOK
    <2> QED
      BY <2>1, <2>2
  <1> QED
    BY <1>2, <1>3 DEF ListOK

(* A sequence without its i-th element. *)
LEMMA RemoveAtFacts ==
    ASSUME NEW S, NEW s \in Seq(S), NEW i \in 1 .. Len(s)
    PROVE  /\ RemoveAt(s, i) \in Seq(S) /\ Len(RemoveAt(s, i)) = Len(s) - 1
           /\ \A j \in 1 .. Len(s) - 1 : RemoveAt(s, i)[j] = IF j < i THEN s[j] ELSE s[j + 1]
  <1>1. Len(s) \in Nat /\ i \in Int /\ 1 <= i /\ i <= Len(s) /\ \A j \in 1 .. Len(s) : s[j] \in S
    OBVIOUS
  <1>2. PICK a : a = SubSeq(s, 1, i - 1)
    OBVIOUS
  <1>3. PICK b : b = SubSeq(s, i + 1, Len(s))
    OBVIOUS
  <1>4. a \in Seq(S) /\ Len(a) = i - 1 /\ \A j \in 1 .. i - 1 : a[j] = s[j]
    BY <1>1, <1>2
  <1>5. b \in Seq(S) /\ Len(b) = Len(s) - i /\ \A j \in 1 .. Len(s) - i : b[j] = s[i + j]
    BY <1>1, <1>3
  <1>6. RemoveAt(s, i) = a \o b
    BY <1>2, <1>3 DEF RemoveAt
  <1>7. RemoveAt(s, i) \in Seq(S) /\ Len(RemoveAt(s, i)) = Len(s) - 1
    BY <1>1, <1>4, <1>5, <1>6, SMTT(30)
  <1>8. ASSUME NEW j \in 1 .. Len(s) - 1 PROVE (a \o b)[j] = IF j < i THEN s[j] ELSE s[j + 1]
    <2>1. CASE j < i
      BY <1>1, <1>4, <1>5, <2>1
    <2>2. CASE ~(j < i)
      <3>1. (a \o b)[j] = b[j - (i - 1)] /\ j - (i - 1) \in 1 .. Len(s) - i
        BY <1>1, <1>4, <1>5, <2>2
      <3>2. i + (j - (i - 1)) = j + 1
        BY <1>1
      <3> QED
        BY <3>1, <3>2, <1>5, <2>2
    <2> QED
      BY <2>1, <2>2
  <1> QED
    BY <1>6, <1>7, <1>8

(* The i-th process leaves the list. *)
LEMMA RemoveFacts ==
    ASSUME ListOK, NEW i \in 1 .. Len(proc_list), proc_list' = RemoveAt(proc_list, i)
    PROVE  /\ ListOK' /\ Len(proc_list') = Len(proc_list) - 1
           /\ \A j \in 1 .. Len(proc_list') :
                 proc_list'[j] = IF j < i THEN proc_list[j] ELSE proc_list[j + 1]
  <1>1. proc_list \in Seq(1 .. MAX_PID - 1) /\ Len(proc_list) \in Nat
    BY DEF ListOK
  <1>2. /\ proc_list' \in Seq(1 .. MAX_PID - 1) /\ Len(proc_list') = Len(proc_list) - 1
        /\ \A j \in 1 .. Len(proc_list') :
              proc_list'[j] = IF j < i THEN proc_list[j] ELSE proc_list[j + 1]
    BY <1>1, RemoveAtFacts
  <1>3. ASSUME NEW x \in 1 .. Len(proc_list'), NEW y \in 1 .. Len(proc_list'),
               proc_list'[x] = proc_list'[y]
        PROVE  x = y
    <2>1. PICK u \in 1 .. Len(proc_list) : proc_list'[x] = proc_list[u] /\ u = IF x < i THEN x ELSE x + 1
      BY <1>1, <1>2
    <2>2. PICK v \in 1 .. Len(proc_list) : proc_list'[y] = proc_list[v] /\ v = IF y < i THEN y ELSE y + 1
      BY <1>1, <1>2
    <2>3. u = v
      BY <2>1, <2>2, <1>3 DEF ListOK
    <2> QED
      BY <2>1, <2>2, <2>3, <1>1, <1>2
  <1> QED
    BY <1>2, <1>3 DEF ListOK

---------------------------------------------------------------------------
LEMMA PidInitInv == PidInit => PidInv
  BY PidAssumption DEF PidInit, PidInv, ListOK, CacheOK, RangeOK

LEMMA PidNextInv == PidInv /\ [PidNext]_pidvars => PidInv'
  <1> SUFFICES ASSUME PidInv, [PidNext]_pidvars PROVE PidInv'
    OBVIOUS
  <1> USE PidAssumption
  <1>1. /\ proc_list \in Seq(1 .. MAX_PID - 1) /\ Len(proc_list) \in Nat
        /\ \A i \in 1 .. Len(proc_list) : proc_list[i] \in 1 .. MAX_PID - 1
    BY DEF PidInv, ListOK
  <1>2. CASE get_pid_next
    <2>1. \A i \in 1 .. Len(proc_list) : proc_list[i] # last_pid + 1
      BY <1>1, <1>2 DEF get_pid_next, PidInv, RangeOK, CacheOK
    <2>2. /\ ListOK' /\ Len(proc_list') = Len(proc_list) + 1
          /\ \A i \in 1 .. Len(proc_list') :
                proc_list'[i] = IF i = 1 THEN last_pid + 1 ELSE proc_list[i - 1]
      BY <2>1, <1>2, ConsFacts DEF get_pid_next, PidInv, CacheOK
    <2>3. CacheOK'
      BY <1>1, <1>2, <2>2 DEF get_pid_next, PidInv, CacheOK
    <2>4. RangeOK'
      <3>1. le' = 0 /\ last_pid' = last_pid + 1 /\ next_safe' = next_safe /\ last_pid \in Nat
        BY <1>2 DEF get_pid_next, PidInv, CacheOK
      <3>2. ASSUME NEW i \in 1 .. Len(proc_list'), i # 1
            PROVE  i - 1 \in 1 .. Len(proc_list) /\ proc_list'[i] = proc_list[i - 1]
        BY <1>1, <2>2, <3>2
      <3>3. \A j \in 1 .. Len(proc_list) : ~(last_pid < proc_list[j] /\ proc_list[j] < next_safe)
        BY <1>2 DEF get_pid_next, PidInv, RangeOK
      <3>4. ASSUME NEW i \in 1 .. Len(proc_list')
            PROVE  ~(last_pid' < proc_list'[i] /\ proc_list'[i] < next_safe') /\ ~(i < le')
        <4>1. CASE i = 1
          BY <2>2, <3>1, <4>1
        <4>2. CASE i # 1
          <5>1. i \in Nat /\ i - 1 \in 1 .. Len(proc_list) /\ proc_list'[i] = proc_list[i - 1]
            BY <1>1, <3>2, <4>2
          <5>2. ~(last_pid < proc_list[i - 1] /\ proc_list[i - 1] < next_safe)
            BY <5>1, <3>3
          <5>3. proc_list[i - 1] \in Nat /\ next_safe \in Nat
            BY <5>1, <1>1 DEF PidInv, CacheOK
          <5> QED
            BY <5>1, <5>2, <5>3, <3>1
        <4> QED
          BY <4>1, <4>2
      <3> QED
        BY <3>4 DEF RangeOK
    <2> QED
      BY <2>2, <2>3, <2>4 DEF PidInv
  <1>3. CASE get_pid_inside
    BY <1>1, <1>3 DEF get_pid_inside, WrapPid, PidInv, ListOK, CacheOK, RangeOK
  <1>4. CASE get_pid_taken
    <2>1. ListOK' /\ CacheOK'
      BY <1>1, <1>4, SMTT(30) DEF get_pid_taken, Restart, WrapPid, PidInv, ListOK, CacheOK
    <2>2. RangeOK'
      <3>1. CASE Restart(last_pid + 1, next_safe)
        <4>1. le' = 1 /\ proc_list' = proc_list
          BY <1>4, <3>1 DEF get_pid_taken
        <4> QED
          BY <1>1, <4>1 DEF RangeOK
      <3>2. CASE ~Restart(last_pid + 1, next_safe)
        <4>1. /\ le \in 1 .. Len(proc_list) /\ proc_list[le] = last_pid /\ last_pid + 1 < next_safe
              /\ last_pid' = last_pid + 1 /\ le' = le + 1
              /\ next_safe' = next_safe /\ proc_list' = proc_list
          BY <1>4, <3>2 DEF get_pid_taken, Restart, PidInv, CacheOK
        <4>2. ASSUME NEW i \in 1 .. Len(proc_list), i < le + 1
              PROVE  ~(last_pid + 1 < proc_list[i] /\ proc_list[i] < next_safe) /\ proc_list[i] # last_pid + 1
          <5>1. proc_list[i] \in Nat /\ last_pid \in Nat /\ next_safe \in Nat /\ i \in Nat /\ le \in Nat
            BY <1>1, <4>1 DEF PidInv, CacheOK
          <5>2. CASE i = le
            BY <5>1, <5>2, <4>1
          <5>3. CASE i < le
            <6>1. ~(last_pid < proc_list[i] /\ proc_list[i] < next_safe)
              BY <5>3 DEF PidInv, RangeOK
            <6> QED
              BY <5>1, <6>1, <4>1
          <5> QED
            BY <4>2, <5>1, <5>2, <5>3
        <4> QED
          BY <1>1, <4>1, <4>2 DEF RangeOK
      <3> QED
        BY <3>1, <3>2
    <2> QED
      BY <2>1, <2>2 DEF PidInv
  <1>5. CASE get_pid_other
    <2>1. ListOK' /\ CacheOK'
      BY <1>1, <1>5 DEF get_pid_other, Bound, PidInv, ListOK, CacheOK
    <2>2. RangeOK'
      BY <1>1, <1>5, SMTT(30) DEF get_pid_other, Bound, PidInv, CacheOK, RangeOK
    <2> QED
      BY <2>1, <2>2 DEF PidInv
  <1>6. CASE get_pid_return
    <2>1. last_pid \in 1 .. MAX_PID - 1 /\ \A i \in 1 .. Len(proc_list) : proc_list[i] # last_pid
      BY <1>1, <1>6 DEF get_pid_return, PidInv, CacheOK, RangeOK
    <2>2. /\ ListOK' /\ Len(proc_list') = Len(proc_list) + 1
          /\ \A i \in 1 .. Len(proc_list') :
                proc_list'[i] = IF i = 1 THEN last_pid ELSE proc_list[i - 1]
      BY <2>1, <1>6, ConsFacts DEF get_pid_return, PidInv
    <2>3. CacheOK'
      BY <1>1, <1>6, <2>2 DEF get_pid_return, PidInv, CacheOK
    <2>4. RangeOK'
      <3>1. le' = 0 /\ last_pid' = last_pid /\ next_safe' = next_safe /\ last_pid \in Nat
        BY <1>6 DEF get_pid_return, PidInv, CacheOK
      <3>2. ASSUME NEW i \in 1 .. Len(proc_list'), i # 1
            PROVE  i - 1 \in 1 .. Len(proc_list) /\ proc_list'[i] = proc_list[i - 1]
        BY <1>1, <2>2, <3>2
      <3>3. \A j \in 1 .. Len(proc_list) : ~(last_pid < proc_list[j] /\ proc_list[j] < next_safe)
        BY <1>1, <1>6 DEF get_pid_return, PidInv, RangeOK
      <3>4. ASSUME NEW i \in 1 .. Len(proc_list')
            PROVE  ~(last_pid' < proc_list'[i] /\ proc_list'[i] < next_safe') /\ ~(i < le')
        <4>1. CASE i = 1
          BY <2>2, <3>1, <4>1
        <4>2. CASE i # 1
          <5>1. i \in Nat /\ i - 1 \in 1 .. Len(proc_list) /\ proc_list'[i] = proc_list[i - 1]
            BY <1>1, <3>2, <4>2
          <5>2. ~(last_pid < proc_list[i - 1] /\ proc_list[i - 1] < next_safe)
            BY <5>1, <3>3
          <5>3. proc_list[i - 1] \in Nat /\ next_safe \in Nat
            BY <5>1, <1>1 DEF PidInv, CacheOK
          <5> QED
            BY <5>1, <5>2, <5>3, <3>1
        <4> QED
          BY <4>1, <4>2
      <3> QED
        BY <3>4 DEF RangeOK
    <2> QED
      BY <2>2, <2>3, <2>4 DEF PidInv
  <1>7. ASSUME NEW i \in 1 .. MAX_PROCESS, do_wait(i) PROVE PidInv'
    <2>1. i \in 1 .. Len(proc_list) /\ proc_list' = RemoveAt(proc_list, i)
      BY <1>1, <1>7 DEF do_wait
    <2>2. /\ ListOK' /\ Len(proc_list') = Len(proc_list) - 1
          /\ \A j \in 1 .. Len(proc_list') :
                proc_list'[j] = IF j < i THEN proc_list[j] ELSE proc_list[j + 1]
      BY <2>1, RemoveFacts DEF PidInv
    <2>3. UNCHANGED <<last_pid, next_safe, le>> /\ le = 0
      BY <1>7 DEF do_wait
    <2>4. CacheOK'
      BY <1>1, <2>1, <2>2, <2>3 DEF PidInv, CacheOK
    <2>5. RangeOK'
      <3>1. ASSUME NEW j \in 1 .. Len(proc_list')
            PROVE  \E x \in 1 .. Len(proc_list) : proc_list'[j] = proc_list[x]
        <4>1. CASE j < i
          BY <1>1, <2>1, <2>2, <4>1
        <4>2. CASE ~(j < i)
          <5>1. j + 1 \in 1 .. Len(proc_list) /\ proc_list'[j] = proc_list[j + 1]
            BY <1>1, <2>1, <2>2, <4>2
          <5> QED
            BY <5>1
        <4> QED
          BY <4>1, <4>2
      <3>2. ASSUME NEW j \in 1 .. Len(proc_list')
            PROVE  ~(last_pid' < proc_list'[j] /\ proc_list'[j] < next_safe') /\ ~(j < le')
        BY <1>1, <2>3, <3>1, SMTT(30) DEF PidInv, RangeOK
      <3> QED
        BY <3>2 DEF RangeOK
    <2> QED
      BY <2>2, <2>4, <2>5 DEF PidInv
  <1>8. CASE UNCHANGED pidvars
    BY <1>8 DEF pidvars, PidInv, ListOK, CacheOK, RangeOK
  <1> QED
    BY <1>2, <1>3, <1>4, <1>5, <1>6, <1>7, <1>8 DEF PidNext, Loop

(* No two processes ever have the same pid, and the range that get_pid caches
   is free of pids in use, though processes end and pids wrap around. *)
THEOREM PidsUniqueCorrect == PidSpec => []PidsUnique
  <1>1. PidInv => PidsUnique
    <2> SUFFICES ASSUME PidInv PROVE PidsUnique
      OBVIOUS
    <2>1. DOMAIN proc_list = 1 .. Len(proc_list)
      BY DEF PidInv, ListOK
    <2>2. IsInjective(proc_list)
      BY <2>1 DEF PidInv, ListOK, IsInjective
    <2>3. ASSUME NEW i \in 1 .. Len(proc_list) PROVE proc_list[i] \in 1 .. MAX_PID - 1
      <3>1. proc_list \in Seq(1 .. MAX_PID - 1)
        BY DEF PidInv, ListOK
      <3> QED
        BY <3>1, PidAssumption
    <2>4. \A i \in 1 .. Len(proc_list) : le = 0 => ~(last_pid < proc_list[i] /\ proc_list[i] < next_safe)
      BY DEF PidInv, RangeOK
    <2> QED
      BY <2>2, <2>3, <2>4 DEF PidsUnique
  <1> QED
    BY <1>1, PidInitInv, PidNextInv, PTL DEF PidSpec

---------------------------------------------------------------------------
(* Readers of the keyboard.  The invariant of the processes is kept when some
   of them are inside dev_stdin_read; with it comes an invariant of the wait
   queue. *)

(* p is on the queue of the device. *)
Queued(q, p) == \E i \in 1 .. Len(q) : q[i] = p

Distinct(q) == \A i, j \in 1 .. Len(q) : q[i] = q[j] => i = j

(* The positions of the buffer, of whose contents nothing is said. *)
BufferOK(s) ==
    /\ s = [buf |-> s.buf, rpos |-> s.rpos, wpos |-> s.wpos]
    /\ s.rpos \in 0 .. 2 * STDIN_BUFSIZE - 1 /\ s.wpos \in 0 .. 2 * STDIN_BUFSIZE - 1

(* Whoever sleeps for the keyboard is on the queue, and the buffer is empty. *)
SleepersQueued ==
    \A p \in Procs : k.wait_state[p] = "WT_KBD" => Unread(stdin) = 0 /\ Queued(wait_queue, p)

(* Whoever is on the queue is behind wait_current_set and before the end of
   wait_current_del. *)
QueuedRead ==
    \A p \in Procs : Queued(wait_queue, p) => pc[p] \in {"read_call", "read_woken"}

Readers ==
    /\ BufferOK(stdin)
    /\ left \in [Procs -> Nat]
    /\ wait_queue \in Seq(Procs) /\ Distinct(wait_queue)
    /\ SleepersQueued
    /\ QueuedRead

(* The remainder, where one subtraction or addition is enough. *)
LEMMA ModFacts ==
    ASSUME NEW M \in Nat, M > 0, NEW x \in Int
    PROVE  /\ x % M \in 0 .. M - 1
           /\ 0 <= x /\ x < M => x % M = x
           /\ M <= x /\ x < 2 * M => x % M = x - M
           /\ -M <= x /\ x < 0 => x % M = x + M
  OBVIOUS

(* What is unread is counted right, and reading all of it empties the buffer. *)
LEMMA UnreadFacts ==
    ASSUME NEW s, BufferOK(s)
    PROVE  /\ Unread(s) \in Nat
           /\ BufferOK(stdin_rest(s, Unread(s))) /\ Unread(stdin_rest(s, Unread(s))) = 0
  <1> DEFINE M == 2 * STDIN_BUFSIZE
  <1>1. M \in Nat /\ M > 0
    BY InputAssumption
  <1>2. PICK r \in 0 .. M - 1 : r = s.rpos
    BY DEF BufferOK
  <1>3. PICK w \in 0 .. M - 1 : w = s.wpos
    BY DEF BufferOK
  <1> HIDE DEF M
  <1>4. PICK u : u = (w - r) % M
    OBVIOUS
  <1>5. u \in 0 .. M - 1 /\ u = IF r <= w THEN w - r ELSE w - r + M
    <2>1. w - r \in Int
      BY <1>1
    <2>2. u \in 0 .. M - 1
      BY <1>1, <1>4, <2>1, ModFacts
    <2>3. CASE r <= w
      <3>1. 0 <= w - r /\ w - r < M
        BY <1>1, <2>3
      <3> QED
        BY <1>1, <1>4, <2>1, <2>2, <2>3, <3>1, ModFacts
    <2>4. CASE ~(r <= w)
      <3>1. -M <= w - r /\ w - r < 0
        BY <1>1, <2>4
      <3> QED
        BY <1>1, <1>4, <2>1, <2>2, <2>4, <3>1, ModFacts
    <2> QED
      BY <2>3, <2>4
  <1>6. (r + u) % M = w
    <2>1. r + u \in Int
      BY <1>1, <1>5
    <2>2. CASE r <= w
      <3>1. r + u = w /\ 0 <= r + u /\ r + u < M
        BY <1>1, <1>5, <2>2
      <3> QED
        BY <1>1, <2>1, <3>1, ModFacts
    <2>3. CASE ~(r <= w)
      <3>1. PICK x \in Int : x = r + u
        BY <2>1
      <3>2. x - M = w /\ M <= x /\ x < 2 * M
        BY <1>1, <1>5, <2>3, <3>1
      <3>3. x % M = x - M
        BY <1>1, <3>2, ModFacts
      <3> QED
        BY <3>1, <3>2, <3>3
    <2> QED
      BY <2>2, <2>3
  <1>7. (w - w) % M = 0
    <2>1. w - w = 0 /\ 0 \in Int /\ 0 <= 0 /\ 0 < M
      BY <1>1
    <2>2. 0 % M = 0
      BY <1>1, <2>1, ModFacts
    <2> QED
      BY <2>1, <2>2
  <1>8. Unread(s) = u
    BY <1>2, <1>3, <1>4 DEF Unread, M
  <1>9. stdin_rest(s, u) = [buf |-> s.buf, rpos |-> w, wpos |-> w]
    <2>1. s = [buf |-> s.buf, rpos |-> r, wpos |-> w]
      BY <1>2, <1>3 DEF BufferOK
    <2>2. Advance(r, u) = w
      BY <1>6 DEF Advance, M
    <2>3. stdin_rest(s, u) = [s EXCEPT !.rpos = Advance(s.rpos, u)]
      BY DEF stdin_rest
    <2> QED
      BY <2>1, <2>2, <2>3, <1>2
  <1>10. PICK t : t = [buf |-> s.buf, rpos |-> w, wpos |-> w]
    OBVIOUS
  <1>11. t.rpos = w /\ t.wpos = w /\ t.buf = s.buf
    BY <1>10
  <1>12. BufferOK(t) /\ Unread(t) = 0
    BY <1>7, <1>10, <1>11 DEF BufferOK, Unread, M
  <1> QED
    BY <1>1, <1>5, <1>8, <1>9, <1>10, <1>12

(* A step that leaves p_wpos alone and moves p_rpos, or moves p_wpos. *)
LEMMA BufferSteps ==
    ASSUME NEW s, BufferOK(s)
    PROVE  /\ \A n \in Nat : BufferOK(stdin_rest(s, n))
           /\ \A n \in Nat : Unread(s) = 0 /\ n = 0 => Unread(stdin_rest(s, n)) = 0
           /\ \A c : BufferOK(stdin_put(s, c))
  <1> DEFINE M == 2 * STDIN_BUFSIZE
  <1>1. M \in Nat /\ M > 0 /\ s.rpos \in 0 .. M - 1 /\ s.wpos \in 0 .. M - 1
    BY InputAssumption DEF BufferOK
  <1>2. s = [buf |-> s.buf, rpos |-> s.rpos, wpos |-> s.wpos]
    BY DEF BufferOK
  <1>3. ASSUME NEW n \in Nat, NEW i \in 0 .. M - 1 PROVE Advance(i, n) \in 0 .. M - 1
    <2>1. i + n \in Int
      BY <1>1
    <2> QED
      BY <1>1, <2>1, ModFacts DEF Advance
  <1> HIDE DEF M
  <1>4. ASSUME NEW n \in Nat PROVE BufferOK(stdin_rest(s, n))
    <2>1. PICK r \in 0 .. M - 1 : r = Advance(s.rpos, n)
      BY <1>1, <1>3
    <2>2. PICK t : t = stdin_rest(s, n)
      OBVIOUS
    <2>3. t = [buf |-> s.buf, rpos |-> r, wpos |-> s.wpos]
      BY <1>2, <2>1, <2>2 DEF stdin_rest
    <2> QED
      BY <1>1, <2>1, <2>2, <2>3 DEF BufferOK, M
  <1>5. ASSUME Unread(s) = 0 PROVE Unread(stdin_rest(s, 0)) = 0
    <2>1. Advance(s.rpos, 0) = s.rpos
      <3>1. s.rpos + 0 = s.rpos /\ s.rpos \in Int /\ 0 <= s.rpos /\ s.rpos < M
        BY <1>1
      <3>2. s.rpos % M = s.rpos
        BY <1>1, <3>1, ModFacts
      <3> QED
        BY <3>1, <3>2 DEF Advance, M
    <2>2. PICK t : t = stdin_rest(s, 0)
      OBVIOUS
    <2>3. t.rpos = s.rpos /\ t.wpos = s.wpos
      BY <1>2, <2>1, <2>2 DEF stdin_rest
    <2> QED
      BY <1>5, <2>2, <2>3 DEF Unread
  <1>6. ASSUME NEW c PROVE BufferOK(stdin_put(s, c))
    <2>1. PICK w \in 0 .. M - 1 : w = IF Unread(s) < STDIN_BUFSIZE THEN Advance(s.wpos, 1) ELSE s.wpos
      BY <1>1, <1>3
    <2>2. PICK b : b = [s.buf EXCEPT ![s.wpos % STDIN_BUFSIZE] = c]
      OBVIOUS
    <2>3. PICK t : t = stdin_put(s, c)
      OBVIOUS
    <2>4. t = [buf |-> b, rpos |-> s.rpos, wpos |-> w]
      BY <1>2, <2>1, <2>2, <2>3 DEF stdin_put
    <2> QED
      BY <1>1, <2>1, <2>3, <2>4 DEF BufferOK, M
  <1> QED
    BY <1>4, <1>5, <1>6

---------------------------------------------------------------------------
(* Waking a process lets it wait for nothing and changes nobody else's
   wait_state. *)
LEMMA WakeupWaits ==
    ASSUME NEW a \in SchedRecords, NEW q \in Procs, NEW b, b = wakeup_proc(a, q)
    PROVE  /\ b \in SchedRecords
           /\ \A x \in Procs : b.wait_state[x] \in {a.wait_state[x], "0"}
  <1>1. CASE a.state[q] = "PROC_RUNNABLE"
    BY <1>1 DEF wakeup_proc
  <1>2. CASE a.state[q] # "PROC_RUNNABLE"
    <2>1. PICK e : e = Assert_(a, a.state[q] # "PROC_ZOMBIE")
      OBVIOUS
    <2>2. e \in SchedRecords /\ e.wait_state = a.wait_state /\ e.current = a.current
      BY <2>1, AssertFacts
    <2>3. PICK m : m = MakeRunnable(e, q)
      OBVIOUS
    <2>4. m \in SchedRecords /\ m.wait_state = [e.wait_state EXCEPT ![q] = "0"]
      BY <2>2, <2>3, MakeRunnableFacts
    <2>5. b = m \/ b = RR_enqueue(m, q)
      BY <1>2, <2>1, <2>3 DEF wakeup_proc, sched_class_enqueue
    <2>6. b \in SchedRecords /\ b.wait_state = m.wait_state
      BY <2>4, <2>5, EnqueueFacts
    <2>7. a.wait_state \in [Procs -> WaitStates]
      BY DEF SchedRecords
    <2>8. \A x \in Procs : m.wait_state[x] \in {a.wait_state[x], "0"}
      BY <2>2, <2>4, <2>7
    <2> QED
      BY <2>6, <2>8
  <1> QED
    BY <1>1, <1>2

(* Going to sleep for something else. *)
LEMMA SleepWaits ==
    ASSUME NEW a \in SchedRecords, RunQueueOK(a), NEW w \in WaitStates, w # "WT_KBD",
           NEW b, b = SleepCurrent(a, w)
    PROVE  \A x \in Procs : b.wait_state[x] = "WT_KBD" => a.wait_state[x] = "WT_KBD"
  <1>1. /\ b \in SchedRecords /\ RunQueueOK(b) /\ b.current = a.current
        /\ b.state = [a.state EXCEPT ![a.current] = "PROC_SLEEPING"]
        /\ b.wait_state = [a.wait_state EXCEPT ![a.current] = w]
    BY SleepCurrentFacts, ZenonT(40)
  <1>2. a.wait_state \in [Procs -> WaitStates]
    BY DEF SchedRecords
  <1> QED
    BY <1>1, <1>2

(* What the steps of module Process leave alone: nobody begins to wait for the
   keyboard, and nobody moves who is asleep in dev_stdin_read. *)
Aloof ==
    /\ \A x \in Procs : k'.wait_state[x] = "WT_KBD" => k.wait_state[x] = "WT_KBD"
    /\ \A x \in Procs : pc[x] \in {"read_call", "read_woken"} => pc'[x] = pc[x]

LEMMA AloofFrame ==
    ASSUME Readers, Aloof, UNCHANGED inputVars
    PROVE  Readers'
  <1>1. UNCHANGED <<stdin, left, wait_queue>>
    BY DEF inputVars
  <1>2. BufferOK(stdin)' /\ (left \in [Procs -> Nat])' /\ (wait_queue \in Seq(Procs))' /\ Distinct(wait_queue)'
    BY <1>1 DEF Readers, BufferOK, Distinct
  <1>3. \A p : Queued(wait_queue, p)' <=> Queued(wait_queue, p)
    BY <1>1 DEF Queued
  <1>4. Unread(stdin)' = Unread(stdin)
    BY <1>1 DEF Unread
  <1>5. SleepersQueued'
    BY <1>3, <1>4 DEF Aloof, Readers, SleepersQueued
  <1>6. QueuedRead'
    BY <1>3 DEF Aloof, Readers, QueuedRead
  <1> QED
    BY <1>2, <1>5, <1>6 DEF Readers

(* The running process goes from one place outside of dev_stdin_read to
   another. *)
LEMMA AloofMove ==
    ASSUME Inv, NEW p \in Procs, pc[p] \notin {"read_call", "read_woken"},
           NEW c, pc' = [pc EXCEPT ![p] = c],
           \A x \in Procs : k'.wait_state[x] = "WT_KBD" => k.wait_state[x] = "WT_KBD"
    PROVE  Aloof
  <1>1. \A x \in Procs : x # p => pc'[x] = pc[x]
    BY DEF Inv, TypeOK
  <1> QED
    BY <1>1 DEF Aloof

LEMMA KernelAloof ==
    ASSUME Inv, KernelStep
    PROVE  Aloof
  <1>1. k \in SchedRecords /\ RunQueueOK(k) /\ pc \in [Procs -> PCs]
    BY DEF Inv, TypeOK
  <1>2. CASE cpu_idle
    <2>1. k'.wait_state = k.wait_state
      BY <1>1, <1>2, ScheduleFacts DEF cpu_idle
    <2> QED
      BY <1>2, <2>1 DEF cpu_idle, Aloof
  <1>3. ASSUME NEW p \in Procs, CallSchedule(p) PROVE Aloof
    <2>1. k'.wait_state = k.wait_state
      BY <1>1, <1>3, ScheduleFacts DEF CallSchedule
    <2>2. pc[p] \notin {"read_call", "read_woken"} /\ pc' = [pc EXCEPT ![p] = Resume[pc[p]]]
      BY <1>3 DEF CallSchedule, Resume, Goto
    <2> QED
      BY <2>1, <2>2, AloofMove
  <1>4. ASSUME NEW p \in Procs, do_wait_sleep(p) PROVE Aloof
    <2>1. p = k.current /\ pc[p] = "wait" /\ pc' = [pc EXCEPT ![p] = "wait_call"]
      BY <1>4 DEF do_wait_sleep, At, Goto
    <2>kid. "WT_CHILD" \in WaitStates
      BY DEF WaitStates
    <2>k. k' = SleepCurrent(k, "WT_CHILD")
      BY <1>4 DEF do_wait_sleep
    <2>3. \A x \in Procs : k'.wait_state[x] = "WT_KBD" => k.wait_state[x] = "WT_KBD"
      BY <1>1, <2>k, <2>kid, SleepWaits
    <2> QED
      BY <2>1, <2>3, AloofMove
  <1>5. ASSUME NEW p \in Procs, do_wait_woken(p) \/ do_sleep_woken(p) \/ trap_return(p) PROVE Aloof
    <2>1. k' = k /\ pc[p] \notin {"read_call", "read_woken"} /\ \E c : pc' = [pc EXCEPT ![p] = c]
      BY <1>5 DEF do_wait_woken, do_sleep_woken, trap_return, At, Goto, Return
    <2> QED
      BY <2>1, AloofMove
  <1>6. ASSUME NEW p \in Procs, do_wait_fails(p) PROVE Aloof
    <2>1. pc[p] = "wait" /\ \E c : pc' = [pc EXCEPT ![p] = c]
      BY <1>6 DEF do_wait_fails, At, Goto
    <2>2. k' = k \/ k' = Assert_(k, nr_process = 2)
      BY <1>6 DEF do_wait_fails
    <2>3. k'.wait_state = k.wait_state
      BY <1>1, <2>2, AssertFacts
    <2> QED
      BY <2>1, <2>3, AloofMove
  <1>7. ASSUME NEW p \in Procs, NEW c \in Procs, do_wait_reap(p, c) PROVE Aloof
    <2>1. PICK a : a = Assert_(k, c \notin {idleproc, initproc})
      OBVIOUS
    <2>2. a \in SchedRecords /\ a.wait_state = k.wait_state
      BY <1>1, <2>1, AssertFacts
    <2>3. k' = ClearProc(a, c, "FREE")
      BY <1>7, <2>1 DEF do_wait_reap
    <2>4. k'.wait_state = [a.wait_state EXCEPT ![c] = "0"]
      BY <2>2, <2>3 DEF ClearProc, SchedRecords
    <2>ws. a.wait_state \in [Procs -> WaitStates]
      BY <2>2 DEF SchedRecords
    <2>5. \A x \in Procs : k'.wait_state[x] = "WT_KBD" => k.wait_state[x] = "WT_KBD"
      BY <2>2, <2>4, <2>ws
    <2>6. pc[p] = "wait" /\ pc[c] \in {"exit_call", "dead"}
      BY <1>7 DEF do_wait_reap, At, Zombies, Inv, ControlOK
    <2>7. \A x \in Procs : x # p /\ x # c => pc'[x] = pc[x]
      BY <1>1, <1>7 DEF do_wait_reap
    <2> QED
      BY <2>5, <2>6, <2>7 DEF Aloof
  <1>8. ASSUME NEW p \in Procs, do_exit(p) PROVE Aloof
    <2>1. pc[p] = "exit" /\ pc' = [pc EXCEPT ![p] = "exit_call"] /\ p # idleproc
      BY <1>8 DEF do_exit, At, Goto, Inv, ControlOK
    <2>2. PICK a : a = Assert_(k, p # initproc)
      OBVIOUS
    <2>3. a \in SchedRecords /\ a.wait_state = k.wait_state
      BY <1>1, <2>2, AssertFacts
    <2>4. PICK b : b = [a EXCEPT !.state = [a.state EXCEPT ![p] = "PROC_ZOMBIE"]]
      OBVIOUS
    <2>5. b \in SchedRecords /\ b.wait_state = k.wait_state
      <3>1. PICK st : st = [a.state EXCEPT ![p] = "PROC_ZOMBIE"]
        OBVIOUS
      <3>2. st \in [Procs -> ProcStates]
        BY <2>3, <3>1 DEF SchedRecords, ProcStates
      <3>3. b = [a EXCEPT !.state = st]
        BY <2>4, <3>1
      <3> QED
        BY <2>3, <3>2, <3>3 DEF SchedRecords
    <2>6. k' = WakeInit(WakeParent(b, p), p)
      BY <1>8, <2>2, <2>4, Zenon DEF do_exit
    <2>7. PICK d : d = WakeParent(b, p)
      OBVIOUS
    <2>8. parent[p] \in Procs /\ initproc \in Procs
      <3>1. k.state[p] # "FREE"
        BY <2>1 DEF Inv, ControlOK
      <3> QED
        BY <2>1, <3>1, InitAssumption DEF Inv, LiveParent
    <2>9. d \in SchedRecords /\ \A x \in Procs : d.wait_state[x] \in {b.wait_state[x], "0"}
      <3>1. d = b \/ d = wakeup_proc(b, parent[p])
        BY <2>7 DEF WakeParent
      <3> QED
        BY <3>1, <2>5, <2>8, WakeupWaits
    <2>10. \A x \in Procs : k'.wait_state[x] \in {d.wait_state[x], "0"}
      <3>1. k' = d \/ k' = wakeup_proc(d, initproc)
        BY <2>6, <2>7 DEF WakeInit
      <3> QED
        BY <3>1, <2>8, <2>9, WakeupWaits
    <2>11. \A x \in Procs : k'.wait_state[x] = "WT_KBD" => k.wait_state[x] = "WT_KBD"
      BY <2>5, <2>9, <2>10
    <2> QED
      BY <2>1, <2>11, AloofMove
  <1> QED
    BY <1>2, <1>3, <1>4, <1>5, <1>6, <1>7, <1>8, <1>1 DEF KernelStep

(* The system calls of module Process, the clock and the timers. *)
LEMMA ProcessAloof ==
    ASSUME Inv, ProcessStep \/ interrupt_handler \/ run_timer_list_wake \/ Halted
    PROVE  Aloof
  <1>1. k \in SchedRecords /\ RunQueueOK(k) /\ pc \in [Procs -> PCs]
    BY DEF Inv, TypeOK
  <1>2. CASE Halted
    BY <1>2 DEF Halted, vars, Aloof
  <1>3. CASE interrupt_handler
    <2>1. k'.wait_state = k.wait_state
      BY <1>1, <1>3, AssertFacts DEF interrupt_handler
    <2> QED
      BY <1>3, <2>1 DEF interrupt_handler, Aloof
  <1>4. CASE run_timer_list_wake
    <2>1. PICK q : q = timers[1].proc
      OBVIOUS
    <2>2. q \in Procs
      <3>1. timers # << >> /\ IsTimerList(timers, Procs)
        BY <1>4 DEF run_timer_list_wake, HeadExpired, Inv, TypeOK
      <3> QED
        BY <2>1, <3>1 DEF IsTimerList
    <2>3. PICK a : a = Assert_(k, k.wait_state[q] # "0" => k.wait_state[q] \in WT_INTERRUPTED)
      OBVIOUS
    <2>4. a \in SchedRecords /\ a.wait_state = k.wait_state
      BY <1>1, <2>3, AssertFacts
    <2>5. k' = wakeup_proc(a, q) /\ pc' = pc
      BY <1>4, <2>1, <2>3, Zenon DEF run_timer_list_wake, FireTimer
    <2>6. \A x \in Procs : k'.wait_state[x] \in {a.wait_state[x], "0"}
      BY <2>2, <2>4, <2>5, WakeupWaits
    <2> QED
      BY <2>4, <2>5, <2>6 DEF Aloof
  <1>5. ASSUME NEW p \in Procs, NEW c \in Procs, do_fork(p, c) PROVE Aloof
    <2>1. PICK a : a = Assert_(k, k.wait_state[p] = "0")
      OBVIOUS
    <2>2. a \in SchedRecords /\ a.wait_state = k.wait_state
      BY <1>1, <2>1, AssertFacts
    <2>3. PICK b : b = ClearProc(a, c, "PROC_UNINIT")
      OBVIOUS
    <2>4. b \in SchedRecords /\ b.wait_state = [a.wait_state EXCEPT ![c] = "0"]
      <3>1. PICK st : st = [a.state EXCEPT ![c] = "PROC_UNINIT"]
        OBVIOUS
      <3>2. PICK ws : ws = [a.wait_state EXCEPT ![c] = "0"]
        OBVIOUS
      <3>3. PICK ts : ts = [a.time_slice EXCEPT ![c] = 0]
        OBVIOUS
      <3>4. PICK nr : nr = [a.need_resched EXCEPT ![c] = FALSE]
        OBVIOUS
      <3>5. /\ st \in [Procs -> ProcStates] /\ ws \in [Procs -> WaitStates]
            /\ ts \in [Procs -> 0 .. MaxTimeSlice] /\ nr \in [Procs -> BOOLEAN]
        BY <2>2, <3>1, <3>2, <3>3, <3>4, SliceAssumption DEF SchedRecords, WaitStates, ProcStates
      <3>6. b = [a EXCEPT !.state = st, !.wait_state = ws, !.time_slice = ts, !.need_resched = nr]
        BY <2>3, <3>1, <3>2, <3>3, <3>4 DEF ClearProc
      <3>7. b \in SchedRecords /\ b.wait_state = ws
        BY <2>2, <3>5, <3>6 DEF SchedRecords
      <3> QED
        BY <3>2, <3>7
    <2>5. k' = wakeup_proc(b, c)
      BY <1>5, <2>1, <2>3, Zenon DEF do_fork
    <2>6. \A x \in Procs : k'.wait_state[x] \in {b.wait_state[x], "0"}
      BY <2>4, <2>5, WakeupWaits
    <2>7. a.wait_state \in [Procs -> WaitStates]
      BY <2>2 DEF SchedRecords
    <2>8. \A x \in Procs : b.wait_state[x] \in {k.wait_state[x], "0"}
      BY <2>2, <2>4, <2>7
    <2>9. \A x \in Procs : k'.wait_state[x] = "WT_KBD" => k.wait_state[x] = "WT_KBD"
      BY <2>6, <2>8
    <2>10. pc[p] = "user" /\ pc[c] = "user"
      BY <1>5 DEF do_fork, Calls, At, Inv, ControlOK
    <2>11. \A x \in Procs : x # p /\ x # c => pc'[x] = pc[x]
      BY <1>1, <1>5 DEF do_fork
    <2> QED
      BY <2>9, <2>10, <2>11 DEF Aloof
  <1>6. ASSUME NEW p \in Procs, NEW q \in Procs, do_kill(p, q) PROVE Aloof
    <2>1. pc[p] = "user" /\ pc' = [pc EXCEPT ![p] = "trapret"]
      BY <1>6 DEF do_kill, Calls, At, Goto
    <2>2. k' = k \/ k' = wakeup_proc(k, q)
      BY <1>6 DEF do_kill
    <2>3. \A x \in Procs : k'.wait_state[x] \in {k.wait_state[x], "0"}
      BY <1>1, <2>2, WakeupWaits
    <2>4. \A x \in Procs : k'.wait_state[x] = "WT_KBD" => k.wait_state[x] = "WT_KBD"
      BY <2>3
    <2> QED
      BY <2>1, <2>4, AloofMove
  <1>7. ASSUME NEW p \in Procs,
               do_fork_fails(p) \/ sys_exit(p) \/ \E pid \in Procs \cup {AnyChild} : sys_wait(p, pid)
        PROVE  Aloof
    <2>1. k' = k /\ pc[p] = "user" /\ \E c : pc' = [pc EXCEPT ![p] = c]
      BY <1>7 DEF do_fork_fails, sys_exit, sys_wait, Calls, At, Goto
    <2> QED
      BY <2>1, AloofMove
  <1>8. ASSUME NEW p \in Procs, do_yield(p) PROVE Aloof
    <2>1. pc[p] = "user" /\ pc' = [pc EXCEPT ![p] = "trapret"]
      BY <1>8 DEF do_yield, Calls, At, Goto
    <2>2. PICK nr : nr = [k.need_resched EXCEPT ![p] = TRUE]
      OBVIOUS
    <2>3. k' = [k EXCEPT !.need_resched = nr]
      BY <1>8, <2>2 DEF do_yield
    <2>4. k'.wait_state = k.wait_state
      BY <1>1, <2>3 DEF SchedRecords
    <2> QED
      BY <2>1, <2>4, AloofMove
  <1>9. ASSUME NEW p \in Procs, NEW t \in SleepTimes, do_sleep(p, t) PROVE Aloof
    <2>1. pc[p] = "user" /\ pc' = [pc EXCEPT ![p] = "sleep_call"]
      BY <1>9 DEF do_sleep, Calls, At, Goto
    <2>2. PICK a : a = Assert_(k, t > 0 /\ ~HasTimer(timers, p))
      OBVIOUS
    <2>3. a \in SchedRecords /\ RunQueueOK(a) /\ a.wait_state = k.wait_state
      BY <1>1, <2>2, AssertKeeps
    <2>4. k' = SleepCurrent(a, "WT_TIMER")
      BY <1>9, <2>2 DEF do_sleep
    <2>5. "WT_TIMER" \in WaitStates
      BY DEF WaitStates
    <2>8. \A x \in Procs : k'.wait_state[x] = "WT_KBD" => k.wait_state[x] = "WT_KBD"
      BY <2>3, <2>4, <2>5, SleepWaits
    <2> QED
      BY <2>1, <2>8, AloofMove
  <1>10. CASE ProcessStep
    BY <1>5, <1>6, <1>7, <1>8, <1>9, <1>10 DEF ProcessStep
  <1> QED
    BY <1>2, <1>3, <1>4, <1>10

---------------------------------------------------------------------------
(* wakeup_queue.  f[i] is the scheduler after the first i wakeups. *)
Wakes(f, a, q, n) ==
    f[0] = a /\ \A i \in 1 .. n : f[i] = wakeup_proc(f[i - 1], q[i])

LEMMA WakesExist ==
    ASSUME NEW n \in Nat, NEW a \in SchedRecords, NEW q, \A i \in 1 .. n : q[i] \in Procs
    PROVE  \E f \in [0 .. n -> SchedRecords] : Wakes(f, a, q, n)
  <1> DEFINE Ok(m) == \E f \in [0 .. m -> SchedRecords] : Wakes(f, a, q, m)
             Bad == {m \in 0 .. n : ~Ok(m)}
  <1>1. SUFFICES ASSUME Bad # {} PROVE FALSE
    <2>1. n \in 0 .. n
      OBVIOUS
    <2> QED
      BY <2>1, Zenon
  <1>2. Bad \in SUBSET Nat
    OBVIOUS
  <1>3. PICK m \in Bad : \A y \in Bad : m <= y
    BY <1>1, <1>2, LeastNat
  <1>4. m # 0
    <2> DEFINE f == [j \in 0 .. 0 |-> a]
    <2>1. f \in [0 .. 0 -> SchedRecords] /\ Wakes(f, a, q, 0)
      BY DEF Wakes
    <2>2. Ok(0)
      BY <2>1, Zenon
    <2> QED
      BY <2>2, <1>3
  <1>5. m \in 1 .. n /\ m - 1 \in 0 .. n /\ Ok(m - 1)
    <2>1. m \in 0 .. n /\ ~(m <= m - 1)
      BY <1>3
    <2>2. m - 1 \notin Bad
      BY <1>3, <2>1, Zenon
    <2> QED
      BY <1>4, <2>1, <2>2
  <1>6. PICK f \in [0 .. m - 1 -> SchedRecords] : Wakes(f, a, q, m - 1)
    BY <1>5, Zenon
  <1>7. PICK w : w = wakeup_proc(f[m - 1], q[m])
    OBVIOUS
  <1>8. f[m - 1] \in SchedRecords /\ q[m] \in Procs
    BY <1>5, <1>6
  <1>9. w \in SchedRecords
    BY <1>7, <1>8, WakeupWaits
  <1> DEFINE g == [j \in 0 .. m |-> IF j = m THEN w ELSE f[j]]
  <1>10. g \in [0 .. m -> SchedRecords] /\ g[0] = a
    BY <1>5, <1>6, <1>9 DEF Wakes
  <1>11. ASSUME NEW i \in 1 .. m PROVE g[i] = wakeup_proc(g[i - 1], q[i])
    <2>1. CASE i = m
      <3>1. g[i] = w /\ g[i - 1] = f[m - 1]
        BY <1>5, <2>1
      <3> QED
        BY <1>7, <2>1, <3>1
    <2>2. CASE i # m
      <3>1. i \in 1 .. m - 1 /\ i \in 0 .. m /\ i - 1 \in 0 .. m /\ i - 1 # m
        BY <1>5, <2>2
      <3>2. g[i] = f[i] /\ g[i - 1] = f[i - 1]
        BY <2>2, <3>1
      <3>3. f[i] = wakeup_proc(f[i - 1], q[i])
        BY <1>6, <3>1 DEF Wakes
      <3> QED
        BY <3>2, <3>3
    <2> QED
      BY <2>1, <2>2
  <1> HIDE DEF g
  <1>12. Ok(m)
    BY <1>10, <1>11, Zenon DEF Wakes
  <1> QED
    BY <1>12, <1>3, Zenon

(* b is the scheduler a with the first i processes of q woken. *)
WokenOK(b, a, q, i) ==
    /\ b \in SchedRecords /\ RunQueueOK(b) /\ b.current = a.current
    /\ \A x \in Procs :
          LET woken == \E j \in 1 .. i : q[j] = x
          IN  /\ b.state[x] = IF woken THEN "PROC_RUNNABLE" ELSE a.state[x]
              /\ b.wait_state[x] = IF woken THEN "0" ELSE a.wait_state[x]

LEMMA WokenStep ==
    ASSUME NEW a \in SchedRecords, \A x \in Procs : a.state[x] = "PROC_RUNNABLE" => a.wait_state[x] = "0",
           NEW q, NEW i \in Nat, i > 0, q[i] \in Procs,
           NEW b, WokenOK(b, a, q, i - 1), NEW c, c = wakeup_proc(b, q[i])
    PROVE  WokenOK(c, a, q, i)
  <1>1. PICK p \in Procs : p = q[i]
    OBVIOUS
  <1>2. b \in SchedRecords /\ RunQueueOK(b) /\ b.current = a.current
    BY DEF WokenOK
  <1>3. b.state[p] = "PROC_RUNNABLE" => b.wait_state[p] = "0"
    BY DEF WokenOK
  <1>4. c = wakeup_proc(b, p)
    BY <1>1
  <1>5. /\ c \in SchedRecords /\ RunQueueOK(c) /\ c.current = b.current
        /\ \A x \in Procs : /\ c.state[x] = IF x = p THEN "PROC_RUNNABLE" ELSE b.state[x]
                            /\ c.wait_state[x] = IF x = p THEN "0" ELSE b.wait_state[x]
    BY <1>2, <1>3, <1>4, WakeupPointwise
  <1>6. ASSUME NEW x \in Procs
        PROVE  (\E j \in 1 .. i : q[j] = x) <=> (x = p \/ \E j \in 1 .. i - 1 : q[j] = x)
    BY <1>1
  <1> QED
    BY <1>2, <1>5, <1>6 DEF WokenOK

LEMMA WakeupQueueFacts ==
    ASSUME NEW a \in SchedRecords, RunQueueOK(a), wait_queue \in Seq(Procs),
           \A x \in Procs : a.state[x] = "PROC_RUNNABLE" => a.wait_state[x] = "0",
           NEW b, b = wakeup_queue(a)
    PROVE  WokenOK(b, a, wait_queue, Len(wait_queue))
  <1>1. PICK q \in Seq(Procs) : q = wait_queue
    OBVIOUS
  <1>2. PICK n \in Nat : n = Len(q)
    OBVIOUS
  <1>3. \A i \in 1 .. n : q[i] \in Procs
    BY <1>2
  <1> DEFINE Eq(g) == g = [i \in 0 .. n |-> IF i = 0 THEN a ELSE wakeup_proc(g[i - 1], q[i])]
             woken == CHOOSE g : Eq(g)
  <1>4. PICK g \in [0 .. n -> SchedRecords] : Wakes(g, a, q, n)
    BY <1>3, WakesExist
  <1>5. Eq(g)
    <2>1. ASSUME NEW i \in 0 .. n PROVE g[i] = IF i = 0 THEN a ELSE wakeup_proc(g[i - 1], q[i])
      BY <1>4 DEF Wakes
    <2>2. PICK h : h = [i \in 0 .. n |-> IF i = 0 THEN a ELSE wakeup_proc(g[i - 1], q[i])]
      OBVIOUS
    <2>3. \A i \in 0 .. n : h[i] = g[i]
      BY <2>1, <2>2
    <2>4. h = g
      BY <2>2, <2>3, <1>4
    <2> QED
      BY <2>2, <2>4
  <1>6. Eq(woken)
    BY <1>5
  <1>7. b = woken[n]
    BY <1>1, <1>2 DEF wakeup_queue
  <1> HIDE DEF woken
  <1>8. woken[0] = a /\ \A i \in 1 .. n : woken[i] = wakeup_proc(woken[i - 1], q[i])
    <2>1. \A i \in 0 .. n : woken[i] = IF i = 0 THEN a ELSE wakeup_proc(woken[i - 1], q[i])
      BY <1>6
    <2> QED
      BY <2>1
  <1> DEFINE Bad == {i \in 0 .. n : ~WokenOK(woken[i], a, q, i)}
  <1>9. Bad = {}
    <2>1. SUFFICES ASSUME Bad # {} PROVE FALSE
      OBVIOUS
    <2>2. Bad \in SUBSET Nat
      OBVIOUS
    <2>3. PICK m \in Bad : \A y \in Bad : m <= y
      BY <2>1, <2>2, LeastNat
    <2>4. m # 0
      <3>1. WokenOK(a, a, q, 0)
        BY DEF WokenOK
      <3> QED
        BY <2>3, <3>1, <1>8
    <2>5. m \in 1 .. n /\ m - 1 \in 0 .. n /\ m - 1 \notin Bad
      <3>1. m \in 0 .. n /\ ~(m <= m - 1)
        BY <2>3
      <3>2. m - 1 \notin Bad
        BY <2>3, <3>1, Zenon
      <3> QED
        BY <2>4, <3>1, <3>2
    <2>6. WokenOK(woken[m - 1], a, q, m - 1)
      BY <2>5, Zenon
    <2>7. woken[m] = wakeup_proc(woken[m - 1], q[m]) /\ q[m] \in Procs
      BY <1>3, <1>8, <2>5
    <2>8. m \in Nat /\ m > 0
      BY <2>5
    <2>9. WokenOK(woken[m], a, q, m)
      BY <2>6, <2>7, <2>8, WokenStep
    <2> QED
      BY <2>3, <2>9
  <1>10. n \in 0 .. n
    OBVIOUS
  <1>11. WokenOK(woken[n], a, q, n)
    BY <1>9, <1>10, Zenon
  <1> QED
    BY <1>1, <1>2, <1>7, <1>11

---------------------------------------------------------------------------
(* The end of the clock interrupt, with or without a character for those who
   wait: W are the processes it wakes. *)
LEMMA WakeAllInv ==
    ASSUME Inv, NEW W \in SUBSET Procs, \A x \in W : pc[x] \in {"read_call", "read_woken"},
           in_timer, in_timer' = FALSE,
           k' \in SchedRecords, RunQueueOK(k'), k'.current = k.current,
           \A x \in Procs : /\ k'.state[x] = IF x \in W THEN "PROC_RUNNABLE" ELSE k.state[x]
                            /\ k'.wait_state[x] = IF x \in W THEN "0" ELSE k.wait_state[x],
           pc' = pc \/ (k.current \notin Kernel /\ pc' = [pc EXCEPT ![k.current] = "trapret"]),
           UNCHANGED <<parent, exiting, waitfor, timers, nr_process>>
    PROVE  Inv' /\ \A x \in Procs : pc[x] \in {"read_call", "read_woken"} => pc'[x] = pc[x]
  <1>1. PICK p \in Procs : p = k.current
    BY DEF Inv, TypeOK, SchedRecords
  <1>2. \A x \in W : k.state[x] \notin {"FREE", "PROC_ZOMBIE"}
    BY DEF Inv, ControlOK
  <1>3. \A x \in Procs : /\ k'.state[x] = "FREE" <=> k.state[x] = "FREE"
                         /\ k'.state[x] = "PROC_ZOMBIE" <=> k.state[x] = "PROC_ZOMBIE"
                         /\ k'.state[x] = "PROC_SLEEPING" => k.state[x] = "PROC_SLEEPING"
                         /\ k.state[x] = "PROC_RUNNABLE" => k'.state[x] = "PROC_RUNNABLE"
    BY <1>2
  <1>4. /\ pc' \in [Procs -> PCs]
        /\ \A x \in Procs : \/ pc'[x] = pc[x]
                            \/ /\ x = p /\ pc[x] = "user" /\ x \notin Kernel /\ pc'[x] = "trapret"
    <2>1. p \notin Kernel => pc[p] = "user"
      BY <1>1 DEF Inv, ControlOK
    <2> QED
      BY <2>1, <1>1 DEF Inv, TypeOK, PCs
  <1>5. TypeOK'
    BY <1>4 DEF Inv, TypeOK
  <1>6. ControlOK'
    <2>1. ASSUME NEW x \in Procs
          PROVE  /\ k'.wait_state[x] # "0" => k'.state[x] = "PROC_SLEEPING"
                 /\ k'.state[x] = "PROC_ZOMBIE" <=> pc'[x] \in {"exit_call", "dead"}
                 /\ k'.state[x] = "FREE" => pc'[x] = "user"
      <3>1. /\ k.wait_state[x] # "0" => k.state[x] = "PROC_SLEEPING"
            /\ k.state[x] = "PROC_ZOMBIE" <=> pc[x] \in {"exit_call", "dead"}
            /\ k.state[x] = "FREE" => pc[x] = "user"
            /\ x = p /\ pc[x] = "user" => k.state[x] = "PROC_RUNNABLE"
        BY <1>1 DEF Inv, ControlOK
      <3> QED
        BY <3>1, <1>3, <1>4
    <2>2. pc'[p] \notin {"wait_call", "sleep_call", "exit_call", "read_call"}
             => k'.state[p] = "PROC_RUNNABLE"
      <3>1. pc[p] \notin {"wait_call", "sleep_call", "exit_call", "read_call"}
               => k.state[p] = "PROC_RUNNABLE"
        BY <1>1 DEF Inv, ControlOK
      <3> QED
        BY <3>1, <1>3, <1>4
    <2>3. /\ k'.state[idleproc] = "PROC_RUNNABLE" /\ pc'[idleproc] = "user"
          /\ k'.state[initproc] \in {"PROC_SLEEPING", "PROC_RUNNABLE"}
          /\ pc'[initproc] \in {"wait", "wait_call", "wait_woken", "init_sched", "done"}
          /\ ~exiting'[initproc]
      <3>1. idleproc \in Procs /\ initproc \in Procs /\ idleproc \in Kernel /\ initproc \in Kernel
        BY InitAssumption, IdleAssumption DEF Kernel
      <3>2. /\ k.state[idleproc] = "PROC_RUNNABLE" /\ pc[idleproc] = "user"
            /\ k.state[initproc] \in {"PROC_SLEEPING", "PROC_RUNNABLE"}
            /\ pc[initproc] \in {"wait", "wait_call", "wait_woken", "init_sched", "done"}
            /\ ~exiting[initproc]
        BY DEF Inv, ControlOK
      <3> QED
        BY <3>1, <3>2, <1>4
    <2> QED
      BY <2>1, <2>2, <2>3, <1>1 DEF ControlOK
  <1>7. NoLostChild'
    <2>1. Zombies' = Zombies /\ \A x \in Procs : Awaited(x)' = Awaited(x)
      BY <1>3 DEF Zombies, Awaited, Kids
    <2>2. ASSUME NEW x \in Procs, k'.state[x] = "PROC_SLEEPING", k'.wait_state[x] = "WT_CHILD"
          PROVE  k.state[x] = "PROC_SLEEPING" /\ k.wait_state[x] = "WT_CHILD"
      BY <1>3, <2>2
    <2> QED
      BY <2>1, <2>2 DEF Inv, NoLostChild
  <1>8. LiveParent'
    BY <1>3 DEF Inv, LiveParent
  <1>9. SleepersHaveTimers' /\ DistinctOwners(timers)'
    <2>1. timers' = timers
      OBVIOUS
    <2>2. ASSUME NEW x \in Procs
          PROVE  /\ k'.wait_state[x] = "WT_TIMER" => k.wait_state[x] = "WT_TIMER"
                 /\ HasTimer(timers, x) => pc'[x] \in {"sleep_call", "sleep_woken"}
      BY <1>4 DEF Inv, SleepersHaveTimers
    <2>3. SleepersHaveTimers'
      BY <2>1, <2>2 DEF Inv, SleepersHaveTimers
    <2> QED
      BY <2>1, <2>3 DEF Inv
  <1>10. Family'
    BY DEF Inv, Family
  <1>11. \A x \in Procs : pc[x] \in {"read_call", "read_woken"} => pc'[x] = pc[x]
    BY <1>4
  <1> QED
    BY <1>5, <1>6, <1>7, <1>8, <1>9, <1>10, <1>11 DEF Inv

(* dev_stdin_write wakes everybody on the queue and empties it. *)
LEMMA InputInv ==
    ASSUME Inv, Readers, NEW keys, interrupt_input(keys)
    PROVE  Inv' /\ Readers'
  <1>1. PICK c : c = cons_char(cons_intr(cons, keys))
    OBVIOUS
  <1>2. PICK a : a = sched_class_proc_tick(k, k.current)
    OBVIOUS
  <1>3. k \in SchedRecords /\ RunQueueOK(k) /\ k.current \in Procs
    BY DEF Inv, TypeOK, SchedRecords
  <1>4. /\ a \in SchedRecords /\ RunQueueOK(a) /\ a.current = k.current
        /\ a.state = k.state /\ a.wait_state = k.wait_state
    BY <1>2, <1>3, ProcTickFacts
  <1>5. /\ in_timer /\ in_timer' = FALSE
        /\ pc' = pc \/ (k.current \notin Kernel /\ pc' = [pc EXCEPT ![k.current] = "trapret"])
        /\ UNCHANGED <<parent, exiting, waitfor, timers, nr_process, left>>
    BY DEF interrupt_input, Goto
  <1>6. \/ k' = a /\ UNCHANGED <<stdin, wait_queue>>
        \/ /\ stdin' = stdin_put(stdin, c) /\ wait_queue' = << >>
           /\ k' = IF wait_queue = << >> THEN a ELSE wakeup_queue(a)
    BY <1>1, <1>2, Zenon DEF interrupt_input
  <1>7. left' \in [Procs -> Nat] /\ BufferOK(stdin') /\ wait_queue' \in Seq(Procs) /\ Distinct(wait_queue')
    <2>1. left \in [Procs -> Nat] /\ BufferOK(stdin) /\ wait_queue \in Seq(Procs) /\ Distinct(wait_queue)
      BY DEF Readers
    <2>2. BufferOK(stdin_put(stdin, c))
      BY <2>1, BufferSteps
    <2>3. << >> \in Seq(Procs) /\ Distinct(<< >>)
      BY DEF Distinct
    <2> QED
      BY <1>5, <1>6, <2>1, <2>2, <2>3
  <1>8. CASE k' = a /\ UNCHANGED <<stdin, wait_queue>>
    <2>1. Inv' /\ \A x \in Procs : pc[x] \in {"read_call", "read_woken"} => pc'[x] = pc[x]
      <3>1. PICK W : W = {}
        OBVIOUS
      <3>2. W \in SUBSET Procs /\ \A x \in W : pc[x] \in {"read_call", "read_woken"}
        BY <3>1
      <3>3. /\ k' \in SchedRecords /\ RunQueueOK(k') /\ k'.current = k.current
            /\ \A x \in Procs : /\ k'.state[x] = IF x \in W THEN "PROC_RUNNABLE" ELSE k.state[x]
                                /\ k'.wait_state[x] = IF x \in W THEN "0" ELSE k.wait_state[x]
        BY <1>4, <1>8, <3>1
      <3> QED
        BY <1>5, <3>2, <3>3, WakeAllInv
    <2>2. \A x : Queued(wait_queue', x) <=> Queued(wait_queue, x)
      BY <1>8
    <2>3. Unread(stdin') = Unread(stdin) /\ k'.wait_state = k.wait_state
      BY <1>4, <1>8
    <2>4. SleepersQueued'
      BY <2>2, <2>3 DEF SleepersQueued, Readers
    <2>5. QueuedRead'
      BY <2>1, <2>2 DEF QueuedRead, Readers
    <2> QED
      BY <1>7, <2>1, <2>4, <2>5 DEF Readers
  <1>9. CASE /\ stdin' = stdin_put(stdin, c) /\ wait_queue' = << >>
             /\ k' = IF wait_queue = << >> THEN a ELSE wakeup_queue(a)
    <2>1. wait_queue \in Seq(Procs)
      BY DEF Readers
    <2>2. WokenOK(k', a, wait_queue, Len(wait_queue))
      <3>1. CASE wait_queue = << >>
        <4>1. k' = a /\ Len(wait_queue) = 0
          BY <1>9, <3>1
        <4> QED
          BY <4>1, <1>4 DEF WokenOK
      <3>2. CASE wait_queue # << >>
        <4>1. k' = wakeup_queue(a)
          BY <1>9, <3>2
        <4>2. \A x \in Procs : a.state[x] = "PROC_RUNNABLE" => a.wait_state[x] = "0"
          BY <1>4 DEF Inv, ControlOK
        <4> QED
          BY <4>1, <4>2, <2>1, <1>4, WakeupQueueFacts
      <3> QED
        BY <3>1, <3>2
    <2>3. PICK W : W = {x \in Procs : Queued(wait_queue, x)}
      OBVIOUS
    <2>4. W \in SUBSET Procs /\ \A x \in W : pc[x] \in {"read_call", "read_woken"}
      BY <2>3 DEF Readers, QueuedRead
    <2>5. /\ k' \in SchedRecords /\ RunQueueOK(k') /\ k'.current = k.current
          /\ \A x \in Procs : /\ k'.state[x] = IF x \in W THEN "PROC_RUNNABLE" ELSE k.state[x]
                              /\ k'.wait_state[x] = IF x \in W THEN "0" ELSE k.wait_state[x]
      <3>1. \A x \in Procs : x \in W <=> \E j \in 1 .. Len(wait_queue) : wait_queue[j] = x
        BY <2>3 DEF Queued
      <3> QED
        BY <2>2, <3>1, <1>4 DEF WokenOK
    <2>6. Inv'
      BY <1>5, <2>4, <2>5, WakeAllInv
    <2>7. SleepersQueued'
      <3>1. ASSUME NEW x \in Procs PROVE k'.wait_state[x] # "WT_KBD"
        <4>1. CASE x \in W
          BY <2>5, <4>1
        <4>2. CASE x \notin W
          <5>1. k.wait_state[x] # "WT_KBD"
            BY <4>2, <2>3 DEF Readers, SleepersQueued
          <5> QED
            BY <4>2, <5>1, <2>5
        <4> QED
          BY <4>1, <4>2
      <3> QED
        BY <3>1 DEF SleepersQueued
    <2>8. QueuedRead'
      <3>1. \A x : ~Queued(wait_queue', x)
        BY <1>9 DEF Queued
      <3> QED
        BY <3>1 DEF QueuedRead
    <2> QED
      BY <1>7, <2>6, <2>7, <2>8 DEF Readers
  <1> QED
    BY <1>6, <1>8, <1>9

---------------------------------------------------------------------------
(* A reader moves without a change of its scheduling state. *)
LEMMA ReadMove ==
    ASSUME Inv, NEW p \in Procs, p = k.current, ~in_timer,
           pc[p] \in {"user", "read", "read_woken"}, p # idleproc, p # initproc,
           NEW c \in {"read", "trapret"}, pc' = [pc EXCEPT ![p] = c],
           UNCHANGED <<k, parent, exiting, waitfor, timers, in_timer, nr_process>>
    PROVE  Inv'
  <1>1. /\ k' \in SchedRecords /\ RunQueueOK(k') /\ k'.current = k.current
        /\ k'.state = k.state /\ k'.wait_state = k.wait_state
    BY DEF Inv, TypeOK
  <1>2. exiting' \in [Procs -> BOOLEAN] /\ ~exiting'[initproc]
    BY DEF Inv, TypeOK, ControlOK
  <1>3. c \in PCs /\ c \notin {"exit_call", "dead"}
    BY DEF PCs
  <1> QED
    BY <1>1, <1>2, <1>3, MoveInv

(* Whoever is inside dev_stdin_read is a user process. *)
LEMMA ReaderIsUser ==
    ASSUME Inv, NEW p \in Procs, pc[p] \in {"read", "read_call", "read_woken"}
    PROVE  p # idleproc /\ p # initproc /\ k.state[p] \notin {"FREE", "PROC_ZOMBIE"}
  BY DEF Inv, ControlOK

LEMMA SysReadInv ==
    ASSUME Inv, Readers, NEW p \in Procs, NEW len \in 1 .. MaxRead, sys_read(p, len)
    PROVE  Inv' /\ Readers'
  <1>1. /\ p = k.current /\ ~in_timer /\ pc[p] = "user" /\ p # idleproc /\ p # initproc
        /\ pc' = [pc EXCEPT ![p] = "read"]
        /\ left' = [left EXCEPT ![p] = len]
        /\ UNCHANGED <<k, parent, exiting, waitfor, timers, in_timer, nr_process>>
        /\ UNCHANGED <<stdin, wait_queue>>
    BY DEF sys_read, Calls, At, Goto
  <1>2. Inv'
    BY <1>1, ReadMove
  <1>3. left' \in [Procs -> Nat]
    BY <1>1 DEF Readers
  <1>4. \A x \in Procs : x # p => pc'[x] = pc[x]
    BY <1>1 DEF Inv, TypeOK
  <1>5. QueuedRead'
    BY <1>1, <1>4 DEF Readers, QueuedRead
  <1>6. SleepersQueued'
    BY <1>1 DEF Readers, SleepersQueued
  <1> QED
    BY <1>1, <1>2, <1>3, <1>5, <1>6 DEF Readers

(* The read is complete: if there was a sleeper, nothing was taken. *)
LEMMA ReadInv ==
    ASSUME Inv, Readers, NEW p \in Procs, dev_stdin_read(p)
    PROVE  Inv' /\ Readers'
  <1>1. /\ p = k.current /\ ~in_timer /\ pc[p] = "read"
        /\ pc' = [pc EXCEPT ![p] = "trapret"]
        /\ UNCHANGED <<k, parent, exiting, waitfor, timers, in_timer, nr_process>>
        /\ wait_queue' = wait_queue
    BY DEF dev_stdin_read, At, Goto
  <1>2. Inv'
    BY <1>1, ReaderIsUser, ReadMove
  <1>3. PICK n \in Nat : n = left[p]
    BY DEF Readers
  <1>4. n <= Unread(stdin) /\ stdin' = stdin_rest(stdin, n) /\ left' = [left EXCEPT ![p] = 0]
    BY <1>3 DEF dev_stdin_read
  <1>5. BufferOK(stdin)
    BY DEF Readers
  <1>6. BufferOK(stdin') /\ (Unread(stdin) = 0 => Unread(stdin') = 0)
    <2>1. BufferOK(stdin_rest(stdin, n))
      BY <1>5, BufferSteps
    <2>2. ASSUME Unread(stdin) = 0 PROVE Unread(stdin_rest(stdin, n)) = 0
      <3>1. n = 0
        BY <1>4, <2>2
      <3> QED
        BY <1>5, <2>2, <3>1, BufferSteps
    <2> QED
      BY <1>4, <2>1, <2>2
  <1>7. left' \in [Procs -> Nat]
    BY <1>4 DEF Readers
  <1>8. \A x \in Procs : x # p => pc'[x] = pc[x]
    BY <1>1 DEF Inv, TypeOK
  <1>9. QueuedRead'
    BY <1>1, <1>8 DEF Readers, QueuedRead
  <1>10. SleepersQueued'
    BY <1>1, <1>6 DEF Readers, SleepersQueued
  <1> QED
    BY <1>1, <1>2, <1>6, <1>7, <1>9, <1>10 DEF Readers

(* The reader at the end of a queue on which it was not. *)
LEMMA EnterFacts ==
    ASSUME NEW q \in Seq(Procs), Distinct(q), NEW p \in Procs, ~Queued(q, p), NEW r, r = Append(q, p)
    PROVE  r \in Seq(Procs) /\ Distinct(r) /\ \A x \in Procs : Queued(r, x) <=> (x = p \/ Queued(q, x))
  <1>1. r \in Seq(Procs)
    OBVIOUS
  <1>2. /\ \A x \in Procs : (\E i \in 1 .. Len(r) : r[i] = x)
                              <=> (x = p \/ \E i \in 1 .. Len(q) : q[i] = x)
        /\ \A i, j \in 1 .. Len(r) : r[i] = r[j] => i = j
    <2>1. /\ \A i \in 1 .. Len(q) : q[i] # p
          /\ \A i, j \in 1 .. Len(q) : q[i] = q[j] => i = j
      BY DEF Queued, Distinct
    <2> QED
      BY <2>1, AppendQueue
  <1> QED
    BY <1>1, <1>2 DEF Queued, Distinct

(* It has emptied the buffer before it goes to sleep, with nothing between. *)
LEMMA ReadSleepInv ==
    ASSUME Inv, Readers, NEW p \in Procs, dev_stdin_read_sleep(p)
    PROVE  Inv' /\ Readers'
  <1>1. /\ p = k.current /\ pc[p] = "read" /\ ~in_timer
        /\ pc' = [pc EXCEPT ![p] = "read_call"]
        /\ UNCHANGED <<parent, exiting, waitfor, timers, in_timer, nr_process>>
    BY DEF dev_stdin_read_sleep, At, Goto
  <1>2. "WT_KBD" \in WaitStates /\ "read_call" \in PCs
    BY DEF WaitStates, PCs
  <1>3. k \in SchedRecords /\ RunQueueOK(k)
    BY DEF Inv, TypeOK
  <1>4. k' = SleepCurrent(k, "WT_KBD")
    BY DEF dev_stdin_read_sleep
  <1>5. /\ k' \in SchedRecords /\ RunQueueOK(k') /\ k'.current = p
        /\ k'.state = [k.state EXCEPT ![p] = "PROC_SLEEPING"]
        /\ k'.wait_state = [k.wait_state EXCEPT ![p] = "WT_KBD"]
    BY <1>1, <1>2, <1>3, <1>4, SleepCurrentFacts
  <1>6. p # idleproc /\ p # initproc /\ k.state[p] = "PROC_RUNNABLE"
    BY <1>1 DEF Inv, ControlOK
  <1>7. \A q \in Procs :
           /\ k'.state[q] = IF q = p THEN "PROC_SLEEPING" ELSE k.state[q]
           /\ k'.wait_state[q] = IF q = p THEN "WT_KBD" ELSE k.wait_state[q]
           /\ pc'[q] = IF q = p THEN "read_call" ELSE pc[q]
    BY <1>1, <1>5 DEF Inv, TypeOK, SchedRecords
  <1>8. Inv'
    <2>1. TypeOK'
      BY <1>1, <1>2, <1>5 DEF Inv, TypeOK
    <2>2. ControlOK'
      BY <1>1, <1>5, <1>6, <1>7, InitAssumption, IdleAssumption DEF Inv, ControlOK
    <2>3. NoLostChild'
      <3>1. Zombies' = Zombies /\ \A q \in Procs : Awaited(q)' = Awaited(q)
        BY <1>1, <1>6, <1>7 DEF Zombies, Awaited, Kids
      <3> QED
        BY <1>1, <1>7, <3>1 DEF Inv, NoLostChild
    <2>4. LiveParent'
      BY <1>1, <1>6, <1>7 DEF Inv, LiveParent
    <2>5. SleepersHaveTimers' /\ DistinctOwners(timers)'
      BY <1>1, <1>7 DEF Inv, SleepersHaveTimers, DistinctOwners, HasTimer
    <2>6. Family'
      BY <1>1 DEF Inv, Family
    <2> QED
      BY <1>5, <2>1, <2>2, <2>3, <2>4, <2>5, <2>6 DEF Inv
  <1>9. BufferOK(stdin) /\ wait_queue \in Seq(Procs) /\ Distinct(wait_queue) /\ left \in [Procs -> Nat]
    BY DEF Readers
  <1>10. PICK u \in Nat : u = Unread(stdin)
    BY <1>9, UnreadFacts
  <1>11. left[p] > u /\ stdin' = stdin_rest(stdin, u) /\ left' = [left EXCEPT ![p] = left[p] - u]
         /\ wait_queue' = Append(wait_queue, p)
    BY <1>10 DEF dev_stdin_read_sleep, EnterQueue
  <1>12. left' \in [Procs -> Nat]
    <2>1. left[p] - u \in Nat
      BY <1>9, <1>11
    <2> QED
      BY <1>9, <1>11, <2>1
  <1>13. BufferOK(stdin') /\ Unread(stdin') = 0
    <2>1. BufferOK(stdin_rest(stdin, u)) /\ Unread(stdin_rest(stdin, u)) = 0
      BY <1>9, <1>10, UnreadFacts
    <2> QED
      BY <1>11, <2>1
  <1>14. ~Queued(wait_queue, p)
    BY <1>1 DEF Readers, QueuedRead
  <1>15. wait_queue' \in Seq(Procs) /\ Distinct(wait_queue')
         /\ \A x \in Procs : Queued(wait_queue', x) <=> (x = p \/ Queued(wait_queue, x))
    BY <1>9, <1>11, <1>14, EnterFacts
  <1>16. SleepersQueued'
    BY <1>7, <1>13, <1>15 DEF Readers, SleepersQueued
  <1>17. QueuedRead'
    BY <1>7, <1>15 DEF Readers, QueuedRead
  <1> QED
    BY <1>8, <1>12, <1>13, <1>15, <1>16, <1>17 DEF Readers

(* The reader calls schedule(). *)
LEMMA ReadScheduleInv ==
    ASSUME Inv, Readers, NEW p \in Procs, dev_stdin_read_schedule(p)
    PROVE  Inv' /\ Readers'
  <1>1. /\ p = k.current /\ pc[p] = "read_call" /\ ~in_timer /\ k' = schedule(k)
        /\ pc' = [pc EXCEPT ![p] = "read_woken"]
        /\ UNCHANGED <<parent, exiting, waitfor, timers, in_timer, nr_process>>
        /\ UNCHANGED <<stdin, wait_queue, left>>
    BY DEF dev_stdin_read_schedule, At, Goto, inputVars
  <1>2. /\ k' \in SchedRecords /\ RunQueueOK(k')
        /\ k'.state = k.state /\ k'.wait_state = k.wait_state
        /\ k'.current = idleproc \/ k.state[k'.current] = "PROC_RUNNABLE"
    BY <1>1, ScheduleFacts DEF Inv, TypeOK
  <1>3. \A q \in Procs : pc'[q] = IF q = p THEN "read_woken" ELSE pc[q]
    BY <1>1 DEF Inv, TypeOK
  <1>4. TypeOK'
    BY <1>1, <1>2 DEF Inv, TypeOK, PCs
  <1>5. ControlOK'
    <2>1. ASSUME NEW q \in Procs
          PROVE  /\ k'.wait_state[q] # "0" => k'.state[q] = "PROC_SLEEPING"
                 /\ k'.state[q] = "PROC_ZOMBIE" <=> pc'[q] \in {"exit_call", "dead"}
                 /\ k'.state[q] = "FREE" => pc'[q] = "user"
      BY <1>1, <1>2, <1>3 DEF Inv, ControlOK
    <2>2. k'.current \in Procs /\ k'.state[k'.current] = "PROC_RUNNABLE"
      BY <1>2 DEF Inv, ControlOK, SchedRecords
    <2>3. /\ k'.state[idleproc] = "PROC_RUNNABLE" /\ pc'[idleproc] = "user"
          /\ k'.state[initproc] \in {"PROC_SLEEPING", "PROC_RUNNABLE"}
          /\ pc'[initproc] \in {"wait", "wait_call", "wait_woken", "init_sched", "done"}
          /\ ~exiting'[initproc]
      BY <1>1, <1>2, <1>3, InitAssumption, IdleAssumption DEF Inv, ControlOK
    <2> QED
      BY <2>1, <2>2, <2>3, <1>1 DEF ControlOK
  <1>6. NoLostChild' /\ LiveParent'
    BY <1>1, <1>2 DEF Inv, NoLostChild, LiveParent, Awaited, Kids, Zombies
  <1>7. SleepersHaveTimers' /\ DistinctOwners(timers)'
    BY <1>1, <1>2, <1>3 DEF Inv, SleepersHaveTimers, DistinctOwners, HasTimer
  <1>8. Family'
    BY <1>1 DEF Inv, Family
  <1>9. Inv'
    BY <1>2, <1>4, <1>5, <1>6, <1>7, <1>8 DEF Inv
  <1>10. SleepersQueued' /\ QueuedRead'
    BY <1>1, <1>2, <1>3 DEF Readers, SleepersQueued, QueuedRead
  <1> QED
    BY <1>1, <1>9, <1>10 DEF Readers

(* wait_current_del: the reader, which is awake, leaves the queue. *)
LEMMA LeaveFacts ==
    ASSUME wait_queue \in Seq(Procs), Distinct(wait_queue), NEW p \in Procs, NEW r, r = OffQueue(p)
    PROVE  r \in Seq(Procs) /\ Distinct(r) /\ \A x \in Procs : Queued(r, x) <=> (x # p /\ Queued(wait_queue, x))
  <1>1. PICK q \in Seq(Procs) : q = wait_queue
    OBVIOUS
  <1>2. PICK n \in Nat : n = Len(q)
    OBVIOUS
  <1>3. \A i, j \in 1 .. n : q[i] = q[j] => i = j
    BY <1>1, <1>2 DEF Distinct
  <1>4. CASE ~Queued(q, p)
    <2>1. r = q
      BY <1>1, <1>4 DEF OffQueue, Contains, Queued
    <2> QED
      BY <1>1, <1>4, <2>1
  <1>5. CASE Queued(q, p)
    <2>1. PICK i \in 1 .. n : q[i] = p /\ r = RemoveAt(q, i)
      <3>1. PICK i : i = CHOOSE j \in 1 .. Len(q) : q[j] = p
        OBVIOUS
      <3>2. i \in 1 .. Len(q) /\ q[i] = p
        BY <1>5, <3>1 DEF Queued
      <3>3. Contains(q, p)
        BY <1>5 DEF Queued, Contains
      <3>4. r = RemoveAt(q, i)
        BY <1>1, <3>1, <3>3 DEF OffQueue
      <3> QED
        BY <1>2, <3>2, <3>4
    <2>2. /\ r \in Seq(Procs) /\ Len(r) = n - 1
          /\ \A j \in 1 .. n - 1 : r[j] = IF j < i THEN q[j] ELSE q[j + 1]
      BY <1>2, <2>1, RemoveAtFacts
    <2>3. Distinct(r)
      <3>1. ASSUME NEW x \in 1 .. Len(r), NEW y \in 1 .. Len(r), r[x] = r[y] PROVE x = y
        <4>1. PICK u \in 1 .. n : r[x] = q[u] /\ u = IF x < i THEN x ELSE x + 1
          BY <2>2
        <4>2. PICK v \in 1 .. n : r[y] = q[v] /\ v = IF y < i THEN y ELSE y + 1
          BY <2>2
        <4>3. u = v
          BY <4>1, <4>2, <3>1, <1>3
        <4> QED
          BY <4>1, <4>2, <4>3, <2>2
      <3> QED
        BY <3>1 DEF Distinct
    <2>4. ASSUME NEW x \in Procs, Queued(r, x) PROVE x # p /\ Queued(q, x)
      <3>1. PICK j \in 1 .. n - 1 : r[j] = x
        BY <2>2, <2>4 DEF Queued
      <3>2. PICK u \in 1 .. n : x = q[u] /\ u # i
        BY <2>2, <3>1, SMTT(30)
      <3> QED
        BY <1>2, <1>3, <2>1, <3>2 DEF Queued
    <2>5. ASSUME NEW x \in Procs, x # p, Queued(q, x) PROVE Queued(r, x)
      <3>1. PICK u \in 1 .. n : q[u] = x
        BY <1>2, <2>5 DEF Queued
      <3>2. u # i
        BY <2>1, <2>5, <3>1
      <3>3. CASE u < i
        <4>1. u \in 1 .. n - 1 /\ r[u] = x
          BY <2>2, <3>1, <3>3
        <4> QED
          BY <2>2, <4>1 DEF Queued
      <3>4. CASE ~(u < i)
        <4>1. PICK j \in 1 .. n - 1 : j = u - 1
          BY <3>2, <3>4
        <4>2. r[j] = x
          BY <2>2, <3>1, <3>2, <3>4, <4>1
        <4> QED
          BY <2>2, <4>2 DEF Queued
      <3> QED
        BY <3>3, <3>4
    <2> QED
      BY <1>1, <2>2, <2>3, <2>4, <2>5
  <1> QED
    BY <1>4, <1>5

LEMMA ReadWokenInv ==
    ASSUME Inv, Readers, NEW p \in Procs, dev_stdin_read_woken(p)
    PROVE  Inv' /\ Readers'
  <1>1. /\ p = k.current /\ pc[p] = "read_woken" /\ ~in_timer
        /\ wait_queue' = OffQueue(p)
        /\ UNCHANGED <<k, parent, exiting, waitfor, timers, in_timer, nr_process>>
        /\ stdin' = stdin
    BY DEF dev_stdin_read_woken, At
  <1>2. PICK c \in {"read", "trapret"} : pc' = [pc EXCEPT ![p] = c]
    BY DEF dev_stdin_read_woken, Goto
  <1>3. Inv'
    BY <1>1, <1>2, ReaderIsUser, ReadMove
  <1>4. left' \in [Procs -> Nat]
    BY DEF dev_stdin_read_woken, Readers
  <1>5. wait_queue \in Seq(Procs) /\ Distinct(wait_queue)
    BY DEF Readers
  <1>6. wait_queue' \in Seq(Procs) /\ Distinct(wait_queue')
        /\ \A x \in Procs : Queued(wait_queue', x) <=> (x # p /\ Queued(wait_queue, x))
    BY <1>1, <1>5, LeaveFacts
  <1>7. k.wait_state[p] # "WT_KBD"
    <2>1. k.state[p] = "PROC_RUNNABLE"
      BY <1>1 DEF Inv, ControlOK
    <2> QED
      BY <2>1 DEF Inv, ControlOK
  <1>8. SleepersQueued'
    BY <1>1, <1>6, <1>7 DEF Readers, SleepersQueued
  <1>9. \A x \in Procs : x # p => pc'[x] = pc[x]
    BY <1>2 DEF Inv, TypeOK
  <1>10. QueuedRead'
    BY <1>6, <1>9 DEF Readers, QueuedRead
  <1>11. BufferOK(stdin')
    BY <1>1 DEF Readers
  <1> QED
    BY <1>3, <1>4, <1>6, <1>8, <1>10, <1>11 DEF Readers

---------------------------------------------------------------------------
LEMMA SInitInv == SInit => Inv /\ Readers
  <1> SUFFICES ASSUME SInit PROVE Inv /\ Readers
    OBVIOUS
  <1>1. Inv
    BY InitInv DEF SInit
  <1>2. BufferOK(stdin)
    <2>1. stdin = [buf |-> [i \in 0 .. STDIN_BUFSIZE - 1 |-> NUL], rpos |-> 0, wpos |-> 0]
      BY DEF SInit, stdin_device_init
    <2>2. PICK b : b = [i \in 0 .. STDIN_BUFSIZE - 1 |-> NUL]
      OBVIOUS
    <2>3. stdin = [buf |-> b, rpos |-> 0, wpos |-> 0]
      BY <2>1, <2>2
    <2> QED
      BY <2>3, InputAssumption DEF BufferOK
  <1>3. wait_queue = << >> /\ left \in [Procs -> Nat]
    BY DEF SInit
  <1>4. wait_queue \in Seq(Procs) /\ Distinct(wait_queue) /\ \A x : ~Queued(wait_queue, x)
    BY <1>3 DEF Distinct, Queued
  <1>5. \A x \in Procs : k.wait_state[x] = "0"
    BY DEF SInit, Init
  <1> QED
    BY <1>1, <1>2, <1>3, <1>4, <1>5 DEF Readers, SleepersQueued, QueuedRead

LEMMA SNextInv ==
    ASSUME Inv, Readers, ~KillInit, [SNext]_allVars
    PROVE  Inv' /\ Readers'
  <1>1. CASE ReadStep
    BY <1>1, ReadInv, ReadSleepInv, ReadScheduleInv, ReadWokenInv DEF ReadStep
  <1>2. CASE KernelStep /\ UNCHANGED inputVars
    <2>1. Inv'
      BY <1>2, NextInv DEF Next
    <2> QED
      BY <1>2, <2>1, KernelAloof, AloofFrame
  <1>3. CASE /\ ProcessStep \/ interrupt_handler \/ run_timer_list_wake \/ Halted
             /\ UNCHANGED inputVars
    <2>1. Inv'
      BY <1>3, NextInv DEF Next, TimerStep
    <2> QED
      BY <1>3, <2>1, ProcessAloof, AloofFrame
  <1>4. ASSUME NEW keys, interrupt_input(keys) PROVE Inv' /\ Readers'
    BY <1>4, InputInv
  <1>5. ASSUME NEW p \in Procs, NEW len \in 1 .. MaxRead, sys_read(p, len) PROVE Inv' /\ Readers'
    BY <1>5, SysReadInv
  <1>6. CASE UNCHANGED allVars
    <2>1. UNCHANGED vars /\ UNCHANGED inputVars
      BY <1>6 DEF allVars
    <2>2. Inv'
      BY <2>1, NextInv
    <2>3. Aloof
      BY <2>1 DEF vars, Aloof
    <2> QED
      BY <2>1, <2>2, <2>3, AloofFrame
  <1> QED
    BY <1>1, <1>2, <1>3, <1>4, <1>5, <1>6 DEF SNext, SKernelStep, STimerStep

(* No wakeup is lost between the keyboard and the readers: for any number of
   processes, buffer sizes and lengths of reads, a process sleeps in
   dev_stdin_read only while the buffer is empty and on the queue that
   dev_stdin_write wakes, and the queue never names a process that has left
   the function. *)
THEOREM ReadersWakeCorrect ==
    ASSUME ~KillInit PROVE SSpec => []ReadersWake
  <1>1. SInit => Inv /\ Readers
    BY SInitInv
  <1>2. Inv /\ Readers /\ [SNext]_allVars => Inv' /\ Readers'
    BY SNextInv
  <1>3. Readers => ReadersWake
    <2> SUFFICES ASSUME Readers PROVE ReadersWake
      OBVIOUS
    <2>1. \A x : Contains(wait_queue, x) <=> Queued(wait_queue, x)
      BY DEF Contains, Queued
    <2>2. DOMAIN wait_queue = 1 .. Len(wait_queue)
      BY DEF Readers
    <2>3. IsInjective(wait_queue)
      BY <2>2 DEF Readers, Distinct, IsInjective
    <2> QED
      BY <2>1, <2>3 DEF Readers, SleepersQueued, QueuedRead, ReadersWake
  <1> QED
    BY <1>1, <1>2, <1>3, PTL DEF SSpec

(* Composing the processes with the keyboard takes nothing away: what holds of
   run queue, places, parents and timers still holds when processes sleep and
   are woken in dev_stdin_read. *)
THEOREM ProcessesWithStdin ==
    ASSUME ~KillInit
    PROVE  SSpec => [](RunQueue /\ ControlOK /\ NoLostChild /\ LiveParent /\ SleepersHaveTimers)
  <1>1. SInit => Inv /\ Readers
    BY SInitInv
  <1>2. Inv /\ Readers /\ [SNext]_allVars => Inv' /\ Readers'
    BY SNextInv
  <1>3. Inv => RunQueue /\ ControlOK /\ NoLostChild /\ LiveParent /\ SleepersHaveTimers
    BY DEF Inv
  <1> QED
    BY <1>1, <1>2, <1>3, PTL DEF SSpec

============================================================================
