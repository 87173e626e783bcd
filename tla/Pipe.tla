-------------------------------- MODULE Pipe --------------------------------
(***************************************************************************)
(* One pipe (pipe.c) as a record and its operations as operators: a ring   *)
(* of PIPESIZE bytes with two counters that only grow and wrap at WRAP     *)
(* (2^32 in the code).  The operations run under the pipe's spin lock from *)
(* their start, or from a wakeup, to their return or their next sleep;     *)
(* that stretch is one operator.  Its result says whether the caller       *)
(* returns or sleeps, and whether the other side is woken.                 *)
(***************************************************************************)
EXTENDS Integers, Sequences, TLC

CONSTANTS PIPESIZE, WRAP

ASSUME PipeAssumption == /\ PIPESIZE \in Nat \ {0} /\ WRAP \in Nat
                         /\ WRAP > PIPESIZE /\ WRAP % PIPESIZE = 0

NoPipe    == [data |-> [i \in 0 .. PIPESIZE - 1 |-> 0], nread |-> 0, nwrite |-> 0,
              readopen |-> FALSE, writeopen |-> FALSE]
pipealloc == [NoPipe EXCEPT !.readopen = TRUE, !.writeopen = TRUE]
InUse(q)  == q.readopen \/ q.writeopen

\* Bytes that can be read before nread == nwrite, and written before
\* nwrite == nread + PIPESIZE, in the arithmetic of uint.
Filled(q) == (q.nwrite - q.nread) % WRAP
M_Room_Signed(q) == IF q.nread + PIPESIZE > q.nwrite THEN q.nread + PIPESIZE - q.nwrite ELSE 0
Room(q)   == (q.nread + PIPESIZE - q.nwrite) % WRAP
Queue(q)  == [k \in 1 .. Filled(q) |-> q.data[((q.nread + k - 1) % WRAP) % PIPESIZE]]

Min2(x, y) == IF x < y THEN x ELSE y
Stored(q, bytes) ==
    LET n == Len(bytes)
        at(i) == CHOOSE k \in 1 .. n : ((q.nwrite + k - 1) % WRAP) % PIPESIZE = i
        new == {((q.nwrite + k - 1) % WRAP) % PIPESIZE : k \in 1 .. n}
    IN [q EXCEPT !.data = [i \in 0 .. PIPESIZE - 1 |-> IF i \in new THEN bytes[at(i)] ELSE @[i]],
                 !.nwrite = (@ + n) % WRAP]

\* pipewrite with i of the bytes already written.
M_pipewrite_NoWakeup(q, bytes, i, killed) ==
    LET k == Min2(Len(bytes) - i, Room(q))
        r == [q |-> Stored(q, SubSeq(bytes, i + 1, i + k)), i |-> i + k]
    IN IF i + k = Len(bytes) THEN r @@ [sleeps |-> FALSE, ret |-> Len(bytes), wakes |-> TRUE]
       ELSE IF ~q.readopen \/ killed THEN r @@ [sleeps |-> FALSE, ret |-> -1, wakes |-> FALSE]
       ELSE r @@ [sleeps |-> TRUE, ret |-> 0, wakes |-> FALSE]
pipewrite(q, bytes, i, killed) ==
    LET k == Min2(Len(bytes) - i, Room(q))
        r == [q |-> Stored(q, SubSeq(bytes, i + 1, i + k)), i |-> i + k]
    IN IF i + k = Len(bytes) THEN r @@ [sleeps |-> FALSE, ret |-> Len(bytes), wakes |-> TRUE]
       ELSE IF ~q.readopen \/ killed THEN r @@ [sleeps |-> FALSE, ret |-> -1, wakes |-> FALSE]
       ELSE r @@ [sleeps |-> TRUE, ret |-> 0, wakes |-> TRUE]

M_piperead_EndsEarly(q, n, killed) ==
    LET k == Min2(n, Filled(q)) IN
    IF Filled(q) = 0
    THEN [q |-> q, bytes |-> <<>>, sleeps |-> FALSE, ret |-> 0, wakes |-> FALSE]
    ELSE [q |-> [q EXCEPT !.nread = (@ + k) % WRAP], bytes |-> SubSeq(Queue(q), 1, k),
          sleeps |-> FALSE, ret |-> k, wakes |-> TRUE]
piperead(q, n, killed) ==
    LET k == Min2(n, Filled(q)) IN
    IF Filled(q) = 0 /\ q.writeopen
    THEN [q |-> q, bytes |-> <<>>, sleeps |-> ~killed, ret |-> -1, wakes |-> FALSE]
    ELSE [q |-> [q EXCEPT !.nread = (@ + k) % WRAP], bytes |-> SubSeq(Queue(q), 1, k),
          sleeps |-> FALSE, ret |-> k, wakes |-> TRUE]

\* The other side is woken.  The ring is freed with its second end.
pipeclose(q, writable) == IF writable THEN [q EXCEPT !.writeopen = FALSE]
                                      ELSE [q EXCEPT !.readopen = FALSE]
=============================================================================
