------------------------------- MODULE Timers -------------------------------
(***************************************************************************)
(* The timer list of kern/schedule/sched.c.  It is a delta list: expires   *)
(* counts the ticks from the expiry of the timer in front of it, so that a *)
(* clock tick only decrements the head.  A timer is [proc, expires]; every *)
(* process has at most one, the local variable of do_sleep.                *)
(***************************************************************************)
EXTENDS Integers, Sequences

(* The ticks that remain before the i-th timer expires. *)
Remaining(t, i) ==
    LET sum[j \in 0 .. Len(t)] ==
            IF j = 0 THEN 0 ELSE sum[j - 1] + t[j].expires
    IN  sum[i]

(* t is a list of timers of processes of the set P. *)
IsTimerList(t, P) ==
    /\ Len(t) \in Nat /\ DOMAIN t = 1 .. Len(t)
    /\ \A i \in 1 .. Len(t) : t[i].proc \in P

HasTimer(t, p) == \E i \in 1 .. Len(t) : t[i].proc = p

(* The loop of add_timer walks past every timer that expires no later than
   the new one, so that equal timers keep the order of their calls ... *)
InsertPos(t, e) ==
    CHOOSE i \in 1 .. Len(t) + 1 :
        /\ \A j \in 1 .. i - 1 : ~(e < Remaining(t, j))
        /\ i <= Len(t) => e < Remaining(t, i)

(* ... and takes the distances it passes from the new timer, and what is
   left from the timer behind it. *)
add_timer(t, p, e) ==
    LET pos  == InsertPos(t, e)
        left == e - Remaining(t, pos - 1)
    IN  [i \in 1 .. Len(t) + 1 |->
            IF i < pos THEN t[i]
            ELSE IF i = pos THEN [proc |-> p, expires |-> left]
            ELSE IF i = pos + 1 THEN [t[pos] EXCEPT !.expires = @ - left]
            ELSE t[i - 1]]

(* A timer that is still linked gives its distance to the one behind it. *)
del_timer(t, p) ==
    IF ~HasTimer(t, p) THEN t
    ELSE LET pos == CHOOSE i \in 1 .. Len(t) : t[i].proc = p
         IN  [i \in 1 .. Len(t) - 1 |->
                IF i < pos THEN t[i]
                ELSE IF i = pos THEN [t[pos + 1] EXCEPT !.expires = @ + t[pos].expires]
                ELSE t[i + 1]]

(* The first statement of run_timer_list. *)
TickHead(t) == IF t = << >> THEN t ELSE [t EXCEPT ![1].expires = @ - 1]

(* The condition of its loop: the head has expired. *)
HeadExpired(t) == t # << >> /\ t[1].expires = 0

============================================================================
