---------------------------- MODULE LotteryTable ----------------------------
(***************************************************************************)
(* What the draw makes of a table: the state and the tickets of each slot. *)
(* The table is fixed for the round because scheduler() holds ptable.lock  *)
(* from the first pass to the switch.  ProcTable changes it by system      *)
(* calls and interrupts; MCUnits has every table of a given size.          *)
(***************************************************************************)
EXTENDS Lottery

VARIABLES
    state,      \* proc->state of each slot
    ticket      \* proc->ticket of each slot

Total == getRunnableProcTickets(state, ticket)

WinnersOf(w) == {p \in Procs : IsWinner(state, ticket, p, w)}

-----------------------------------------------------------------------------
\* The sum of the runnable tickets is an int.
TotalFits == HeldUpTo(state, ticket, NPROC) <= RAND_MAX

(* random_at_most: the comment above it "Assumes 0 <= max <= RAND_MAX".    *)
(* scheduler() passes the int sum of the runnable tickets, which wraps.    *)
(* Some raw value ends the loop exactly if the sum, wrapped, is not        *)
(* negative; otherwise the scheduler spins, or divides by zero, with       *)
(* ptable.lock held.                                                       *)
DrawEndsUnlessNegative ==
    Accepted(Total) # {} <=> HeldUpTo(state, ticket, NPROC) % 2^WordBits <= RAND_MAX

(* scheduler(): a process is switched to with a probability exactly        *)
(* proportional to its tickets.  Of the raw generator values that          *)
(* random_at_most accepts, the same number (the bin size) makes a runnable *)
(* slot win for each ticket it holds, and none makes another slot win.     *)
(* (A sum that wraps past the negative numbers gives other shares.)        *)
ProportionalShare ==
    LET RawFor(p) == {x \in Accepted(Total) : p \in WinnersOf(Bin(Total, x))}
    IN  TotalFits => \A p \in Procs :
            Cardinality(RawFor(p)) =
                IF state[p] = "RUNNABLE" THEN ticket[p] * BinSize(Total) ELSE 0

(* scheduler(): the pass over the table finds one process for every ticket *)
(* that can be drawn.  The draw is inclusive of the total, so the total    *)
(* itself, a ticket nobody holds, leaves the CPU without a process.        *)
TicketHasHolder ==
    TotalFits => \A w \in random_at_most(Total) :
                   IF w = Total THEN WinnersOf(w) = {} ELSE \E p \in Procs : WinnersOf(w) = {p}

(* scheduler() and random_at_most together: the lottery ends, its shares   *)
(* are those of the tickets, and it chooses at most one process.           *)
DrawIsFair == DrawEndsUnlessNegative /\ ProportionalShare /\ TicketHasHolder
=============================================================================
