------------------------------ MODULE AtomicDisk ------------------------------
(***************************************************************************)
(* What begin_op, log_write and end_op promise the file system: operations *)
(* change the blocks at once for each other, and at some moments when none *)
(* is in progress everything done so far becomes durable; a crash takes    *)
(* the disk back to the last such moment, so it never shows a part of an   *)
(* operation.                                                              *)
(***************************************************************************)
CONSTANTS Procs, Blocks, Values

VARIABLES
    volatile,       \* the blocks as the running system sees them
    stable,         \* the blocks a crash leaves
    active          \* processes inside an operation

vars == <<volatile, stable, active>>

Init ==
    /\ volatile \in [Blocks -> Values]
    /\ stable = volatile
    /\ active = {}

Begin(p) ==
    /\ p \notin active
    /\ active' = active \cup {p}
    /\ UNCHANGED <<volatile, stable>>

Write(p, b, v) ==
    /\ p \in active
    /\ volatile' = [volatile EXCEPT ![b] = v]
    /\ UNCHANGED <<stable, active>>

End(p) ==
    /\ p \in active
    /\ active' = active \ {p}
    /\ UNCHANGED <<volatile, stable>>

Commit ==
    /\ active = {}
    /\ stable' = volatile
    /\ UNCHANGED <<volatile, active>>

Crash ==
    /\ volatile' = stable
    /\ active' = {}
    /\ UNCHANGED stable

Next ==
    \/ \E p \in Procs : Begin(p) \/ End(p)
    \/ \E p \in Procs, b \in Blocks, v \in Values : Write(p, b, v)
    \/ Commit \/ Crash

Spec == Init /\ [][Next]_vars
=============================================================================
