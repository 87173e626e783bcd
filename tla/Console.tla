------------------------------ MODULE Console ------------------------------
(***************************************************************************)
(* Console input (console.c): one ring with a read, a write and an edit    *)
(* index, filled by the keyboard and serial interrupts and emptied by      *)
(* consoleread.  The indices are uint and wrap at Wrap (2^32 in the code). *)
(* All of it runs under cons.lock, which consoleread gives up only to      *)
(* sleep.                                                                  *)
(***************************************************************************)
EXTENDS Integers, Sequences, FiniteSets

CONSTANTS INPUT_BUF,   \* size of the ring
          Wrap,        \* the indices wrap here: a multiple of INPUT_BUF
          Letters,     \* characters without a meaning of their own
          Readers,     \* processes that read the console
          ReadSize     \* the count they ask for

VARIABLES buf, r, w, e,   \* input
          rd              \* rd[p]: where a reader is, what is left of its count, killed

consoleVars == <<buf, r, w, e, rd>>

Ring     == 0 .. INPUT_BUF - 1
Idle     == [pc |-> "user", n |-> 0, killed |-> FALSE]
Minus(x, y) == (x - y) % Wrap
Between(from, to) == [k \in 1 .. Minus(to, from) |-> buf[((from + k - 1) % Wrap) % INPUT_BUF]]

ConsoleInit == /\ buf = [i \in Ring |-> "nul"] /\ r = 0 /\ w = 0 /\ e = 0
               /\ rd = [p \in Readers |-> Idle]

(***************************************************************************)
(* consoleintr, one character of its loop at a time                        *)
(***************************************************************************)
wakeup == [p \in Readers |-> IF rd[p].pc = "sleep" THEN [rd[p] EXCEPT !.pc = "run"] ELSE rd[p]]

M_Commits_NotFull(c, new) == c \in {"nl", "^D"}
Commits(c, new) == c \in {"nl", "^D"} \/ new = (r + INPUT_BUF) % Wrap
M_Fits_Unsigned(new) == new < r + INPUT_BUF
Fits(new) == Minus(new, r) < INPUT_BUF

consoleintr(c) ==
    LET new == (e + 1) % Wrap IN
    /\ Fits(e)
    /\ buf' = [buf EXCEPT ![e % INPUT_BUF] = c]
    /\ e' = new
    /\ IF Commits(c, new) THEN w' = new /\ rd' = wakeup ELSE UNCHANGED <<w, rd>>
    /\ UNCHANGED r

\* ^H and DEL.
Backspace == e # w /\ e' = Minus(e, 1) /\ UNCHANGED <<buf, r, w, rd>>
\* ^U: back to the start of the line.
LineKill == LET back == {k \in 0 .. Minus(e, w) :
                           /\ \A j \in 1 .. k : buf[Minus(e, j) % INPUT_BUF] # "nl"
                           /\ k = Minus(e, w) \/ buf[Minus(e, k + 1) % INPUT_BUF] = "nl"}
            IN /\ e # w
               /\ e' = Minus(e, CHOOSE k \in back : \A j \in back : k <= j)
               /\ UNCHANGED <<buf, r, w, rd>>

(***************************************************************************)
(* consoleread                                                             *)
(***************************************************************************)
Read(p) == /\ rd[p].pc = "user" /\ ~rd[p].killed
           /\ rd' = [rd EXCEPT ![p] = [@ EXCEPT !.pc = "run", !.n = ReadSize]]
           /\ UNCHANGED <<buf, r, w, e>>

\* How many characters the loop takes before it stops at a line end, at an
\* end of file or at the count; 0 if it does not.
Stop(q, n) == LET at == {i \in DOMAIN q : q[i] \in {"nl", "^D"} \/ i = n}
              IN IF at = {} THEN 0 ELSE CHOOSE i \in at : \A j \in at : i <= j
\* An end of file is left for the next call if this one has characters to return.
M_Consumed_EatsEof(q, n) == Stop(q, n)
Consumed(q, n) == LET i == Stop(q, n)
                  IN IF q[i] = "^D" /\ n - (i - 1) < ReadSize THEN i - 1 ELSE i

consoleread(p) ==
    LET q == Between(r, w)
        n == rd[p].n
        t == IF Stop(q, n) = 0 THEN Len(q) ELSE Consumed(q, n)
    IN
    /\ rd[p].pc = "run"
    /\ r' = (r + t) % Wrap
    /\ rd' = [rd EXCEPT ![p] = IF Stop(q, n) # 0 THEN [@ EXCEPT !.pc = "user", !.n = 0]
                               ELSE IF @.killed THEN [@ EXCEPT !.pc = "user", !.n = 0]
                               ELSE [@ EXCEPT !.pc = "sleep", !.n = n - t]]
    /\ UNCHANGED <<buf, w, e>>

\* The process exits at its return and another takes its place at the terminal.
kill(p) == /\ ~rd[p].killed
           /\ rd' = [rd EXCEPT ![p].killed = TRUE, ![p].pc = IF @ = "sleep" THEN "run" ELSE @]
           /\ UNCHANGED <<buf, r, w, e>>
Replaced(p) == /\ rd[p].pc = "user" /\ rd[p].killed
               /\ rd' = [rd EXCEPT ![p] = Idle] /\ UNCHANGED <<buf, r, w, e>>

ConsoleNext == \/ \E c \in Letters \cup {"nl", "^D"} : consoleintr(c)
               \/ Backspace \/ LineKill
               \/ \E p \in Readers : Read(p) \/ consoleread(p) \/ kill(p) \/ Replaced(p)
ConsoleSpec == ConsoleInit /\ [][ConsoleNext]_consoleVars
----------------------------------------------------------------------------
\* The three indices stay in order and within one ring of each other, across
\* the wrap and when consoleread steps r back over an end of file.
IndicesOrdered == /\ {r, w, e} \subseteq 0 .. Wrap - 1
                  /\ Minus(w, r) <= Minus(e, r) /\ Minus(e, r) <= INPUT_BUF

\* A reader sleeps only while no line is waiting, also if another reader took
\* part of one, and never while the ring is full: then no key could end it.
SleepsOnlyIfEmpty == \A p \in Readers : rd[p].pc = "sleep" => r = w /\ Minus(e, r) < INPUT_BUF

\* No state of the ring stops input or leaves a reader asleep over a line.
InputGoesOn == IndicesOrdered /\ SleepsOnlyIfEmpty

Terminal == INSTANCE LineEditor WITH Capacity <- INPUT_BUF, line <- Between(w, e), queue <- Between(r, w)
\* The ring implements a line editor: a handed-over line cannot be edited, it
\* is read in order, and end of file is never returned with characters.
ConsoleIsLineEditor == Terminal!Spec
============================================================================
