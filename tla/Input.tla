------------------------------- MODULE Input -------------------------------
(***************************************************************************)
(* The two buffers a typed character passes through: the ring of           *)
(* kern/driver/console.c, which the clock interrupt fills from the serial  *)
(* port, and the buffer of kern/fs/devs/dev_stdin.c, to which it moves one *)
(* character per tick and from which processes read.                       *)
(*                                                                         *)
(*   cons    [buf, rpos, wpos]: cons.buf, cons.rpos, cons.wpos             *)
(*   stdin   [buf, rpos, wpos]: stdin_buffer, p_rpos, p_wpos               *)
(*                                                                         *)
(* p_rpos and p_wpos only grow in the code.  It uses nothing of them but   *)
(* their difference, which is at most STDIN_BUFSIZE, and their residues    *)
(* modulo STDIN_BUFSIZE; they are kept modulo 2 * STDIN_BUFSIZE here.      *)
(***************************************************************************)
EXTENDS Integers, SequencesExt

CONSTANTS
    CONSBUFSIZE,    \* 512 in the code
    STDIN_BUFSIZE,  \* 4096 in the code
    Letters,        \* what can be typed besides NUL and DEL
    NUL, DEL, BS    \* 0, 127 and '\b'

ASSUME InputAssumption ==
    /\ CONSBUFSIZE \in Nat \ {0} /\ STDIN_BUFSIZE \in Nat \ {0}
    /\ Cardinality({NUL, DEL, BS}) = 3 /\ Letters \cap {NUL, DEL, BS} = {}

Keys  == Letters \cup {NUL, DEL}
Chars == Letters \cup {BS}

cons_init == [buf |-> [i \in 0 .. CONSBUFSIZE - 1 |-> NUL], rpos |-> 0, wpos |-> 0]

stdin_device_init ==
    [buf |-> [i \in 0 .. STDIN_BUFSIZE - 1 |-> NUL], rpos |-> 0, wpos |-> 0]

---------------------------------------------------------------------------
(* The console ring.                                                       *)

serial_proc_data(c) == IF c = DEL THEN BS ELSE c

Wrap(n) == IF n = CONSBUFSIZE THEN 0 ELSE n

(* One round of the loop of cons_intr: there is no test whether the ring is
   full, so wpos can catch up with rpos, which means empty. *)
cons_put(cons, c) ==
    IF c = NUL THEN cons
    ELSE [cons EXCEPT !.buf[cons.wpos] = c, !.wpos = Wrap(cons.wpos + 1)]

(* The whole loop: keys is what sbi_console_getchar has for this tick. *)
cons_intr(cons, keys) ==
    FoldLeft(LAMBDA r, key : cons_put(r, serial_proc_data(key)), cons, keys)

ConsEmpty(cons) == cons.rpos = cons.wpos

(* cons_getc, behind its poll: the character, and the ring without it. *)
cons_char(cons) == IF ConsEmpty(cons) THEN NUL ELSE cons.buf[cons.rpos]
cons_rest(cons) == IF ConsEmpty(cons) THEN cons ELSE [cons EXCEPT !.rpos = Wrap(@ + 1)]

---------------------------------------------------------------------------
(* The buffer of the stdin device.                                         *)

Unread(stdin) == (stdin.wpos - stdin.rpos) % (2 * STDIN_BUFSIZE)
Advance(pos, n) == (pos + n) % (2 * STDIN_BUFSIZE)

(* Mutants: the test for space is off by one; the character is stored only
   if there is space for it. *)
stdin_put_one_more(stdin, c) ==
    [stdin EXCEPT !.buf[stdin.wpos % STDIN_BUFSIZE] = c,
                  !.wpos = IF Unread(stdin) <= STDIN_BUFSIZE THEN Advance(@, 1) ELSE @]
stdin_put_drops(stdin, c) ==
    IF Unread(stdin) = STDIN_BUFSIZE THEN stdin
    ELSE [stdin EXCEPT !.buf[stdin.wpos % STDIN_BUFSIZE] = c, !.wpos = Advance(@, 1)]

(* The assignments of dev_stdin_write.  The character is stored first and
   p_wpos moves only if there was space: in a full buffer the character
   replaces the one at p_rpos, the oldest that nobody has read. *)
stdin_put(stdin, c) ==
    [stdin EXCEPT !.buf[stdin.wpos % STDIN_BUFSIZE] = c,
                  !.wpos = IF Unread(stdin) < STDIN_BUFSIZE THEN Advance(@, 1) ELSE @]

(* n rounds of the loop of dev_stdin_read that find a character: the
   characters, and the buffer without them. *)
stdin_chars(stdin, n) ==
    [i \in 1 .. n |-> stdin.buf[(stdin.rpos + i - 1) % STDIN_BUFSIZE]]
stdin_rest(stdin, n) == [stdin EXCEPT !.rpos = Advance(@, n)]

============================================================================
