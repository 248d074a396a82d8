----------------------------- MODULE CharQueue -----------------------------
(***************************************************************************)
(* What the console ring and the stdin buffer promise together, without    *)
(* rings: two queues of characters.  It says exactly what is lost when     *)
(* they overflow.  A console queue that would reach ConsCap characters     *)
(* loses all of them; a character that finds StdinCap characters in the    *)
(* stdin queue takes the place of the oldest one.  Otherwise every         *)
(* character is read once, in the order of typing.                         *)
(***************************************************************************)
EXTENDS Integers, SequencesExt

CONSTANTS ConsCap, StdinCap, Char

VARIABLES typed,    \* in the console, not yet in the stdin buffer
          ready,    \* in the stdin buffer, not yet read
          last      \* what the last step handed to a reader

Init == typed = << >> /\ ready = << >> /\ last = << >>

Type(q, c) == IF Len(q) + 1 = ConsCap THEN << >> ELSE Append(q, c)

Deliver(q, c) == IF Len(q) < StdinCap THEN Append(q, c) ELSE [q EXCEPT ![1] = c]

(* A tick: characters cs are typed, one character moves on. *)
Tick(cs) ==
    LET q == FoldLeft(Type, typed, cs)
    IN  /\ typed' = IF q = << >> THEN q ELSE Tail(q)
        /\ ready' = IF q = << >> THEN ready ELSE Deliver(ready, Head(q))
        /\ last' = << >>

Read(n) ==
    /\ last' = SubSeq(ready, 1, n)
    /\ ready' = SubSeq(ready, n + 1, Len(ready))
    /\ UNCHANGED typed

Next ==
    \/ \E cs \in SeqOf(Char, ConsCap) : Tick(cs)
    \/ \E n \in 0 .. Len(ready) : Read(n)

Spec == Init /\ [][Next]_<<typed, ready, last>>

============================================================================
