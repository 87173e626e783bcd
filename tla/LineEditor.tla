----------------------------- MODULE LineEditor -----------------------------
(***************************************************************************)
(* What a terminal promises: keys edit the line being typed, a line is     *)
(* handed over as a whole when it ends, and readers take what was handed   *)
(* over in order, at most a line at a time; end of file is read alone.     *)
(***************************************************************************)
EXTENDS Integers, Sequences

CONSTANTS Capacity,   \* characters typed or handed over and not yet read
          Letters     \* characters without a meaning of their own

VARIABLES line,       \* being edited
          queue       \* handed over, not yet read

Room == Len(line) + Len(queue) < Capacity
Init == line = <<>> /\ queue = <<>>

\* A letter joins the line; the one that fills the terminal hands it over.
Letter(c) ==
    /\ Room
    /\ IF Len(line) + Len(queue) + 1 = Capacity
       THEN queue' = queue \o Append(line, c) /\ line' = <<>>
       ELSE line' = Append(line, c) /\ UNCHANGED queue
LineEnd(c) == Room /\ queue' = queue \o Append(line, c) /\ line' = <<>>
Erase    == line # <<>> /\ line' = SubSeq(line, 1, Len(line) - 1) /\ UNCHANGED queue
KillLine == line' = <<>> /\ UNCHANGED queue

Taken(k) == SubSeq(queue, 1, k)
Read(k) == /\ k <= Len(queue)
           /\ \/ Taken(k) = <<"^D">>
              \/ \A i \in 1 .. k : queue[i] # "^D" /\ (queue[i] = "nl" => i = k)
           /\ queue' = SubSeq(queue, k + 1, Len(queue)) /\ UNCHANGED line

Next == \/ \E c \in Letters : Letter(c)
        \/ LineEnd("nl") \/ LineEnd("^D") \/ Erase \/ KillLine
        \/ \E k \in 1 .. Len(queue) : Read(k)
Spec == Init /\ [][Next]_<<line, queue>>
=============================================================================
