------------------------------ MODULE Console ------------------------------
(***************************************************************************)
(* The input path on its own: the clock interrupt feeds the two buffers of *)
(* module Input and somebody reads.  Who reads and who sleeps is the       *)
(* subject of module Stdin; here it is what the readers get.               *)
(***************************************************************************)
EXTENDS Input

CONSTANTS MaxBurst,     \* keys that arrive in one tick, at most CONSBUFSIZE
          MaxRead       \* the length of a read

VARIABLES cons, stdin,
          last          \* what the last step handed to a reader

vars == <<cons, stdin, last>>

Init == cons = cons_init /\ stdin = stdin_device_init /\ last = << >>

(* The input part of the clock interrupt: dev_stdin_write(cons_getc()), where
   cons_getc polls the serial port first. *)
clock_input(keys) ==
    LET polled == cons_intr(cons, keys)
        c      == cons_char(polled)
    IN  /\ cons' = cons_rest(polled)
        /\ stdin' = IF c = NUL THEN stdin ELSE stdin_put(stdin, c)
        /\ last' = << >>

(* A reader takes what is there of the n characters it asked for; it waits
   for the rest in module Stdin. *)
dev_stdin_take(n) ==
    /\ n <= Unread(stdin)
    /\ last' = stdin_chars(stdin, n)
    /\ stdin' = stdin_rest(stdin, n)
    /\ UNCHANGED cons

Next ==
    \/ \E keys \in SeqOf(Keys, MaxBurst) : clock_input(keys)
    \/ \E n \in 1 .. MaxRead : dev_stdin_take(n)

Spec == Init /\ [][Next]_vars

---------------------------------------------------------------------------
ConsUnread ==
    [i \in 1 .. (cons.wpos - cons.rpos) % CONSBUFSIZE |->
        cons.buf[(cons.rpos + i - 1) % CONSBUFSIZE]]

Queues == INSTANCE CharQueue WITH ConsCap <- CONSBUFSIZE, StdinCap <- STDIN_BUFSIZE,
                                  Char <- Chars, typed <- ConsUnread,
                                  ready <- stdin_chars(stdin, Unread(stdin)), last <- last

(* The rings of console.c and dev_stdin.c implement the two queues: a reader
   gets every character once and in order, except that filling the console
   ring empties it (cons_intr has no test for that) and that a character that
   meets a full stdin buffer replaces the oldest one (dev_stdin_write stores
   before it tests). *)
QueueSpec == Queues!Spec

============================================================================
