------------------------------- MODULE Lottery -------------------------------
(***************************************************************************)
(* The lottery of the xv6 scheduler of Offline 3: the bounded random       *)
(* number of rand.c, and the ticket arithmetic with which scheduler() in   *)
(* proc.c turns it into a process.  Everything here is a pure operator;    *)
(* LotteryTable says what it promises, and ProcTable uses it for the       *)
(* scheduling step.                                                        *)
(*                                                                         *)
(* int and long have the same width on this target (gcc -m32), WordBits    *)
(* bits, two's complement; unsigned arithmetic is modulo 2^WordBits.       *)
(***************************************************************************)
EXTENDS Integers, FiniteSets, FiniteSetsExt

CONSTANTS
    NPROC,      \* slots of ptable.proc (64 in param.h)
    WordBits    \* width of int and long (32 in the build)

ASSUME NPROCAssumption == NPROC \in Nat \ {0}
ASSUME WordBitsAssumption == WordBits \in Nat /\ WordBits >= 2
\* The sign bit is half of the word: arithmetic the provers do not know.
ASSUME SignBitAssumption == 2^(WordBits - 1) \in Nat \ {0, 1} /\ 2^WordBits = 2 * 2^(WordBits - 1)

Procs == 1..NPROC       \* &ptable.proc[0], &ptable.proc[1], ... in table order

RAND_MAX == 2^(WordBits - 1) - 1

\* Mutant: the sum saturates.
M_Wrapped_Saturates(x) == IF x > RAND_MAX THEN RAND_MAX ELSE x

\* What the add instruction leaves in a signed register.
Wrapped(x) ==
    LET m == x % 2^WordBits
    IN  IF m > RAND_MAX THEN m - 2^WordBits ELSE m

-----------------------------------------------------------------------------
(* random_at_most(max): genrand() yields any value of 0..RAND_MAX, the     *)
(* loop rejects the ones that would make the last bin too small, and the   *)
(* quotient is the result.                                                 *)

NumBins(max) == (max + 1) % 2^WordBits
NumRand == (RAND_MAX + 1) % 2^WordBits
BinSize(max) == NumRand \div NumBins(max)
Defect(max) == NumRand % NumBins(max)

\* max = -1 makes num_bins zero: the division faults.
DivideFaults(max) == NumBins(max) = 0

\* The raw values that end the do-while loop.  For a negative max, num_bins
\* exceeds num_rand, the defect is num_rand and no value ends it.
Accepted(max) ==
    IF DivideFaults(max) THEN {}
    ELSE {x \in 0..RAND_MAX : ~(NumRand - Defect(max) <= x)}

Bin(max, x) == x \div BinSize(max)

random_at_most(max) == {Bin(max, x) : x \in Accepted(max)}

-----------------------------------------------------------------------------
(* The two passes of scheduler() over the table.                           *)

RunnableUpTo(state, p) == {q \in 1..p : state[q] = "RUNNABLE"}

\* The tickets of the runnable slots up to p, as a number.
HeldUpTo(state, ticket, p) == SumFunctionOnSet(ticket, RunnableUpTo(state, p))

\* cur_total once the loop has passed slot p.
CurTotal(state, ticket, p) == Wrapped(HeldUpTo(state, ticket, p))

\* Mutant: every slot counts.
M_getRunnableProcTickets_All(state, ticket) == Wrapped(SumFunctionOnSet(ticket, Procs))

getRunnableProcTickets(state, ticket) == CurTotal(state, ticket, NPROC)

\* Mutant: the comparison admits equality.
M_IsWinner_Equal(state, ticket, p, win_ticket) ==
    /\ state[p] = "RUNNABLE"
    /\ CurTotal(state, ticket, p) >= win_ticket
    /\ \A q \in RunnableUpTo(state, p - 1) :
           CurTotal(state, ticket, q) < win_ticket

\* The loop stops at the first runnable slot whose running total exceeds the
\* winning ticket.
IsWinner(state, ticket, p, win_ticket) ==
    /\ state[p] = "RUNNABLE"
    /\ CurTotal(state, ticket, p) > win_ticket
    /\ \A q \in RunnableUpTo(state, p - 1) :
           CurTotal(state, ticket, q) <= win_ticket
=============================================================================
