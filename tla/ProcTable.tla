------------------------------ MODULE ProcTable ------------------------------
(***************************************************************************)
(* The process table of the lottery-scheduling xv6 (Offline 3): proc.c,    *)
(* the trap path of trap.c that enters and leaves it, and the system calls *)
(* of sysproc.c that reach it.                                             *)
(*                                                                         *)
(* A step is what one CPU does between two points where another CPU, or an *)
(* interrupt, can come in between: usually one critical section of         *)
(* ptable.lock.  The lock itself is a variable only because a process that *)
(* was asleep in wait() is switched to with ptable.lock held and scans the *)
(* table before it releases it; every other section is acquired and        *)
(* released inside its step, whose guard is that nobody holds the lock.    *)
(* tickslock is held over several steps by sys_sleep and by the timer.     *)
(*                                                                         *)
(* pc[p] is where process p is in its user or kernel code; it is kept when *)
(* p is switched out, so that a switch back resumes p there.               *)
(***************************************************************************)
EXTENDS LotteryTable

CONSTANTS
    NCPU,           \* CPUs 0 .. NCPU-1; CPU 0 counts the ticks
    TickMod,        \* modulus of the uint ticks and of proc->tick (2^32)
    DefaultTicket,  \* the literal 10 of allocproc and sys_settickets
    TicketArgs,     \* arguments programs pass to settickets
    SleepArgs,      \* arguments programs pass to sleep
    KillArgs,       \* arguments programs pass to kill
    MaxPid          \* bound on nextpid

ASSUME NCPUAssumption == NCPU \in Nat \ {0}
ASSUME TickModAssumption == TickMod \in Nat \ {0}
ASSUME DefaultTicketAssumption == DefaultTicket \in Nat \ {0}
ASSUME TicketArgsAssumption == TicketArgs \subseteq Int
ASSUME SleepArgsAssumption == SleepArgs \subseteq Nat
\* kill(1) makes init exit, which panics the kernel: no program does that.
ASSUME KillArgsAssumption == KillArgs \subseteq Nat \ {1}
ASSUME MaxPidAssumption == MaxPid \in Nat \ {0}

CPUs == 0..(NCPU - 1)
None == -1                  \* no CPU
initproc == 1               \* userinit takes the first slot
NoProc == 0                 \* the null struct proc *
TicksChan == NPROC + 1      \* &ticks as a sleep channel; others are procs

VARIABLES
    pid, parent, chan, killed, tick,    \* struct proc, with state and ticket
    nextpid, ticks,
    pc,         \* control point of each process
    np,         \* fork's local: the slot being built
    ticks0, n,  \* sys_sleep's locals
    cpuproc,    \* cpu->proc
    tick_start, \* scheduler's local on each CPU
    intr,       \* where each CPU's timer interrupt handler is
    lock,       \* the CPU that holds ptable.lock over a step, or None
    tickslock   \* the CPU that holds tickslock, or None

procVars == <<state, pid, parent, chan, killed, ticket, tick>>
localVars == <<pc, np, ticks0, n>>
cpuVars == <<cpuproc, tick_start, intr, lock, tickslock>>
vars == <<procVars, nextpid, ticks, localVars, cpuVars>>

States == {"UNUSED", "EMBRYO", "SLEEPING", "RUNNABLE", "RUNNING", "ZOMBIE"}
PCs == {"user", "fork", "fork_build", "fork_run", "wait", "sleep",
        "sleep_sched", "sleep_again", "kill", "settickets", "ret", "exit"}

TypeOK ==
    /\ state \in [Procs -> States]
    /\ pid \in [Procs -> Nat]
    /\ parent \in [Procs -> Procs \cup {NoProc}]
    /\ chan \in [Procs -> Procs \cup {NoProc, TicksChan}]
    /\ killed \in [Procs -> BOOLEAN]
    /\ ticket \in [Procs -> Nat \ {0}]
    /\ tick \in [Procs -> Nat]
    /\ nextpid \in Nat \ {0}
    /\ ticks \in Nat
    /\ pc \in [Procs -> PCs]
    /\ np \in [Procs -> Procs \cup {NoProc}]
    /\ ticks0 \in [Procs -> Nat]
    /\ n \in [Procs -> Nat]
    /\ cpuproc \in [CPUs -> Procs \cup {NoProc}]
    /\ tick_start \in [CPUs -> Nat]
    /\ intr \in [CPUs -> {"none", "wakeup", "yield"}]
    /\ lock \in CPUs \cup {None}
    /\ tickslock \in CPUs \cup {None}

Live(p) == state[p] \in {"SLEEPING", "RUNNABLE", "RUNNING"}

-----------------------------------------------------------------------------
(* The table when main() enters the scheduler: userinit has made init.     *)

Init ==
    /\ state = [p \in Procs |-> IF p = initproc THEN "RUNNABLE" ELSE "UNUSED"]
    /\ pid = [p \in Procs |-> IF p = initproc THEN 1 ELSE 0]
    /\ parent = [p \in Procs |-> NoProc]
    /\ chan = [p \in Procs |-> NoProc]
    /\ killed = [p \in Procs |-> FALSE]
    /\ ticket = [p \in Procs |-> DefaultTicket]
    /\ tick = [p \in Procs |-> 0]
    /\ nextpid = 2
    /\ ticks = 0
    /\ pc = [p \in Procs |-> "user"]
    /\ np = [p \in Procs |-> NoProc]
    /\ ticks0 = [p \in Procs |-> 0]
    /\ n = [p \in Procs |-> 0]
    /\ cpuproc = [c \in CPUs |-> NoProc]
    /\ tick_start = [c \in CPUs |-> 0]
    /\ intr = [c \in CPUs |-> "none"]
    /\ lock = None
    /\ tickslock = None

-----------------------------------------------------------------------------
(* The switch.                                                             *)

\* scheduler() on a CPU without a process: draw a ticket and switch to its
\* holder.  A process that slept clears p->chan on the way back (sleep), and
\* the one that slept in wait() keeps ptable.lock; all others release it.  A
\* draw without a winner changes nothing and is left out.
scheduler(c, p) ==
    /\ cpuproc[c] = NoProc
    /\ intr[c] = "none"
    /\ lock = None
    /\ \E w \in random_at_most(getRunnableProcTickets(state, ticket)) :
           IsWinner(state, ticket, p, w)
    /\ cpuproc' = [cpuproc EXCEPT ![c] = p]
    /\ state' = [state EXCEPT ![p] = "RUNNING"]
    /\ tick_start' = [tick_start EXCEPT ![c] = ticks]
    /\ chan' = [chan EXCEPT ![p] = NoProc]
    /\ lock' = IF chan[p] # NoProc /\ pc[p] = "wait" THEN c ELSE None
    /\ UNCHANGED <<pid, parent, killed, ticket, tick, nextpid, ticks,
                   localVars, intr, tickslock>>

\* Mutant: the whole clock is charged.
M_Charged_FromBoot(c) == (tick[cpuproc[c]] + ticks) % TickMod

\* scheduler(): p->tick += (tick_end - tick_start)
Charged(c) == (tick[cpuproc[c]] + (ticks - tick_start[c])) % TickMod

\* sched() and the rest of scheduler()'s round: the process's ticks are
\* charged, the CPU has no process and ptable.lock is released.
sched(c) ==
    /\ tick' = [tick EXCEPT ![cpuproc[c]] = Charged(c)]
    /\ cpuproc' = [cpuproc EXCEPT ![c] = NoProc]
    /\ lock' = None

\* Mutant: every sleeper is woken, whatever it sleeps on.
M_wakeup1_AnyChan(s, ch) ==
    [q \in Procs |-> IF s[q] = "SLEEPING" THEN "RUNNABLE" ELSE s[q]]

\* What wakeup1(ch) makes of the states s.
wakeup1(s, ch) ==
    [q \in Procs |-> IF s[q] = "SLEEPING" /\ chan[q] = ch THEN "RUNNABLE" ELSE s[q]]

-----------------------------------------------------------------------------
(* Interrupts.  They are off while the CPU holds a lock.                   *)

InterruptsOn(c) == lock # c /\ tickslock # c /\ intr[c] = "none"

\* trap(), T_IRQ0 + IRQ_TIMER on CPU 0, up to wakeup(&ticks).
TimerTick(c) ==
    /\ c = 0
    /\ InterruptsOn(c)
    /\ tickslock = None
    /\ tickslock' = c
    /\ ticks' = (ticks + 1) % TickMod
    /\ intr' = [intr EXCEPT ![c] = "wakeup"]
    /\ UNCHANGED <<procVars, nextpid, localVars, cpuproc, tick_start, lock>>

\* wakeup(&ticks) and the release of tickslock.  If the interrupt came from
\* the scheduler itself there is no process to yield.
TimerWakeup(c) ==
    /\ intr[c] = "wakeup"
    /\ lock = None
    /\ state' = wakeup1(state, TicksChan)
    /\ tickslock' = None
    /\ intr' = [intr EXCEPT ![c] = IF cpuproc[c] = NoProc THEN "none" ELSE "yield"]
    /\ UNCHANGED <<pid, parent, chan, killed, ticket, tick, nextpid, ticks,
                   localVars, cpuproc, tick_start, lock>>

\* The timer on another CPU does not count.
TimerOther(c) ==
    /\ c # 0
    /\ InterruptsOn(c)
    /\ cpuproc[c] # NoProc
    /\ intr' = [intr EXCEPT ![c] = "yield"]
    /\ UNCHANGED <<procVars, nextpid, ticks, localVars, cpuproc, tick_start,
                   lock, tickslock>>

\* The end of trap() on a timer interrupt: a killed process in user space
\* exits, any other one yields.
TrapExit(c) ==
    LET p == cpuproc[c] IN
    /\ intr[c] = "yield"
    /\ killed[p] /\ pc[p] = "user"
    /\ intr' = [intr EXCEPT ![c] = "none"]
    /\ pc' = [pc EXCEPT ![p] = "exit"]
    /\ UNCHANGED <<procVars, nextpid, ticks, np, ticks0, n, cpuproc,
                   tick_start, lock, tickslock>>

yield(c) ==
    LET p == cpuproc[c] IN
    /\ intr[c] = "yield"
    /\ ~(killed[p] /\ pc[p] = "user")
    /\ lock = None
    /\ intr' = [intr EXCEPT ![c] = "none"]
    /\ state' = [state EXCEPT ![p] = "RUNNABLE"]
    /\ sched(c)
    /\ UNCHANGED <<pid, parent, chan, killed, ticket, nextpid, ticks,
                   localVars, tick_start, tickslock>>

-----------------------------------------------------------------------------
(* The process's own steps.                                                *)

At(c, label) ==
    /\ cpuproc[c] # NoProc
    /\ intr[c] = "none"
    /\ pc[cpuproc[c]] = label

Goto(c, label) == pc' = [pc EXCEPT ![cpuproc[c]] = label]

\* The system calls a program makes: init only forks and waits (init.c), the
\* others do what they like.  Forks in progress count against the pid bound.
Calls(p) == IF p = initproc THEN {"fork", "wait"}
            ELSE {"fork", "wait", "sleep", "kill", "settickets", "exit"}

ForksUnderWay == {q \in Procs : Live(q) /\ pc[q] = "fork"}

\* trap(), T_SYSCALL, up to syscall().
Syscall(c) ==
    LET p == cpuproc[c] IN
    /\ At(c, "user")
    /\ ~killed[p]
    /\ \E call \in Calls(p) :
        /\ call = "fork" => nextpid + Cardinality(ForksUnderWay) <= MaxPid
        /\ Goto(c, call)
    /\ UNCHANGED <<procVars, nextpid, ticks, np, ticks0, n, cpuVars>>

\* A killed process exits at its next trap from user space, and the check
\* after yield() sends it there as well.
SyscallKilled(c) ==
    /\ At(c, "user")
    /\ killed[cpuproc[c]]
    /\ Goto(c, "exit")
    /\ UNCHANGED <<procVars, nextpid, ticks, np, ticks0, n, cpuVars>>

\* trap(), default case: the program misbehaved.
Fault(c) ==
    LET p == cpuproc[c] IN
    /\ At(c, "user")
    /\ p # initproc
    /\ killed' = [killed EXCEPT ![p] = TRUE]
    /\ Goto(c, "exit")
    /\ UNCHANGED <<state, pid, parent, chan, ticket, tick, nextpid, ticks,
                   np, ticks0, n, cpuVars>>

\* trap(), T_SYSCALL, after syscall().
SyscallReturn(c) ==
    /\ At(c, "ret")
    /\ Goto(c, IF killed[cpuproc[c]] THEN "exit" ELSE "user")
    /\ UNCHANGED <<procVars, nextpid, ticks, np, ticks0, n, cpuVars>>

\* allocproc's candidates.
FreeSlots == {q \in Procs : state[q] = "UNUSED"}

\* fork() calls allocproc(), whose locked part takes the first unused slot.
\* It leaves p->killed and p->parent as the slot's last use left them.
allocproc(c) ==
    LET p == cpuproc[c] IN
    /\ At(c, "fork")
    /\ lock = None
    /\ \/ /\ FreeSlots = {}
          /\ Goto(c, "ret")
          /\ UNCHANGED <<state, pid, ticket, tick, nextpid, np>>
       \/ \E q \in FreeSlots :
          /\ \A r \in FreeSlots : q <= r
          /\ state' = [state EXCEPT ![q] = "EMBRYO"]
          /\ pid' = [pid EXCEPT ![q] = nextpid]
          /\ nextpid' = nextpid + 1
          /\ ticket' = [ticket EXCEPT ![q] = DefaultTicket]
          /\ tick' = [tick EXCEPT ![q] = 0]
          /\ np' = [np EXCEPT ![p] = q]
          /\ Goto(c, "fork_build")
    /\ UNCHANGED <<parent, chan, killed, ticks, ticks0, n, cpuVars>>

\* Mutant: the pid is given back with the slot.
M_ForkFails_PidBack(c) ==
    LET p == cpuproc[c] IN
    /\ At(c, "fork_build")
    /\ state' = [state EXCEPT ![np[p]] = "UNUSED"]
    /\ nextpid' = nextpid - 1
    /\ np' = [np EXCEPT ![p] = NoProc]
    /\ Goto(c, "ret")
    /\ UNCHANGED <<pid, parent, chan, killed, ticket, tick, ticks, ticks0, n, cpuVars>>

\* Mutant: the slot is not given back.
M_ForkFails_Leak(c) ==
    /\ At(c, "fork_build")
    /\ np' = [np EXCEPT ![cpuproc[c]] = NoProc]
    /\ Goto(c, "ret")
    /\ UNCHANGED <<procVars, nextpid, ticks, ticks0, n, cpuVars>>

\* kalloc() fails in allocproc, or copyuvm() in fork: the slot is given back
\* without ptable.lock and keeps its pid.
ForkFails(c) ==
    LET p == cpuproc[c] IN
    /\ At(c, "fork_build")
    /\ state' = [state EXCEPT ![np[p]] = "UNUSED"]
    /\ np' = [np EXCEPT ![p] = NoProc]
    /\ Goto(c, "ret")
    /\ UNCHANGED <<pid, parent, chan, killed, ticket, tick, nextpid, ticks,
                   ticks0, n, cpuVars>>

\* fork() between copyuvm and its second critical section.
ForkBuild(c) ==
    LET p == cpuproc[c] IN
    /\ At(c, "fork_build")
    /\ ticket' = [ticket EXCEPT ![np[p]] = ticket[p]]
    /\ parent' = [parent EXCEPT ![np[p]] = p]
    /\ Goto(c, "fork_run")
    /\ UNCHANGED <<state, pid, chan, killed, tick, nextpid, ticks, np,
                   ticks0, n, cpuVars>>

\* The child will enter user space through forkret.
ForkRun(c) ==
    LET p == cpuproc[c] IN
    /\ At(c, "fork_run")
    /\ lock = None
    /\ state' = [state EXCEPT ![np[p]] = "RUNNABLE"]
    /\ pc' = [pc EXCEPT ![p] = "ret", ![np[p]] = "user"]
    /\ np' = [np EXCEPT ![p] = NoProc]
    /\ UNCHANGED <<pid, parent, chan, killed, ticket, tick, nextpid, ticks,
                   ticks0, n, cpuVars>>

Children(p) == {q \in Procs : parent[q] = p}

\* Mutants: the parent is not woken; the children stay with the exiting process.
M_ExitStates_ParentSleeps(p) == [state EXCEPT ![p] = "ZOMBIE"]
M_ExitParents_Keep(p) == parent

\* exit(): the table after the wakeups and the change of the own state.
ExitStates(p) ==
    LET woken == wakeup1(state, parent[p])
    IN  [IF \E q \in Children(p) : state[q] = "ZOMBIE"
           THEN wakeup1(woken, initproc)
           ELSE woken EXCEPT ![p] = "ZOMBIE"]

\* exit(): "Pass abandoned children to init."
ExitParents(p) == [q \in Procs |-> IF q \in Children(p) THEN initproc ELSE parent[q]]

\* exit().  Closing files and the working directory is not modelled here.
exit(c) ==
    LET p == cpuproc[c] IN
    /\ At(c, "exit")
    /\ p # initproc
    /\ lock = None
    /\ parent' = ExitParents(p)
    /\ state' = ExitStates(p)
    /\ sched(c)
    /\ UNCHANGED <<pid, chan, killed, ticket, nextpid, ticks, localVars,
                   tick_start, intr, tickslock>>

\* wait() holds ptable.lock from its first scan on, over its sleeps too.
MayHold(c) == lock \in {None, c}

\* One scan of wait() that finds an exited child and frees its slot.
WaitReap(c) ==
    LET p == cpuproc[c]
        zombies == {q \in Children(p) : state[q] = "ZOMBIE"}
    IN
    /\ At(c, "wait")
    /\ MayHold(c)
    /\ \E q \in zombies :
        /\ \A r \in zombies : q <= r
        /\ pid' = [pid EXCEPT ![q] = 0]
        /\ parent' = [parent EXCEPT ![q] = NoProc]
        /\ killed' = [killed EXCEPT ![q] = FALSE]
        /\ state' = [state EXCEPT ![q] = "UNUSED"]
    /\ lock' = None
    /\ Goto(c, "ret")
    /\ UNCHANGED <<chan, ticket, tick, nextpid, ticks, np, ticks0, n,
                   cpuproc, tick_start, intr, tickslock>>

\* A scan without an exited child, when there is nothing to wait for.
WaitGivesUp(c) ==
    LET p == cpuproc[c] IN
    /\ At(c, "wait")
    /\ MayHold(c)
    /\ \A q \in Children(p) : state[q] # "ZOMBIE"
    /\ Children(p) = {} \/ killed[p]
    /\ lock' = None
    /\ Goto(c, "ret")
    /\ UNCHANGED <<procVars, nextpid, ticks, np, ticks0, n, cpuproc,
                   tick_start, intr, tickslock>>

\* sleep(curproc, &ptable.lock)
WaitSleep(c) ==
    LET p == cpuproc[c] IN
    /\ At(c, "wait")
    /\ MayHold(c)
    /\ \A q \in Children(p) : state[q] # "ZOMBIE"
    /\ Children(p) # {} /\ ~killed[p]
    /\ chan' = [chan EXCEPT ![p] = p]
    /\ state' = [state EXCEPT ![p] = "SLEEPING"]
    /\ sched(c)
    /\ UNCHANGED <<pid, parent, killed, ticket, nextpid, ticks, localVars,
                   tick_start, intr, tickslock>>

\* Mutant: tickslock is released before the process is asleep.
M_SleepTest_Release(c, start, d) ==
    LET p == cpuproc[c]
        done == (ticks - start) % TickMod >= d \/ killed[p]
    IN
    /\ Goto(c, IF done THEN "ret" ELSE "sleep_sched")
    /\ tickslock' = None
    /\ n' = [n EXCEPT ![p] = IF done THEN 0 ELSE d]
    /\ ticks0' = [ticks0 EXCEPT ![p] = IF done THEN 0 ELSE start]

\* The loop condition of sys_sleep(), tested with tickslock held: either the
\* call returns, or it goes on to sleep() with the lock.
SleepTest(c, start, d) ==
    LET p == cpuproc[c] IN
    \/ /\ (ticks - start) % TickMod >= d \/ killed[p]
       /\ Goto(c, "ret")
       /\ tickslock' = None
       /\ n' = [n EXCEPT ![p] = 0]
       /\ ticks0' = [ticks0 EXCEPT ![p] = 0]
    \/ /\ (ticks - start) % TickMod < d /\ ~killed[p]
       /\ Goto(c, "sleep_sched")
       /\ tickslock' = c
       /\ n' = [n EXCEPT ![p] = d]
       /\ ticks0' = [ticks0 EXCEPT ![p] = start]

\* sys_sleep(): acquire tickslock, read the clock and test.
SleepStart(c) ==
    /\ At(c, "sleep")
    /\ tickslock = None
    /\ \E d \in SleepArgs : SleepTest(c, ticks, d)
    /\ UNCHANGED <<procVars, nextpid, ticks, np, cpuproc, tick_start, intr, lock>>

\* Back from sleep(): reacquire tickslock and test again.
SleepAgain(c) ==
    LET p == cpuproc[c] IN
    /\ At(c, "sleep_again")
    /\ tickslock = None
    /\ SleepTest(c, ticks0[p], n[p])
    /\ UNCHANGED <<procVars, nextpid, ticks, np, cpuproc, tick_start, intr, lock>>

\* sleep(&ticks, &tickslock): take ptable.lock, then let go of tickslock.
SleepSched(c) ==
    LET p == cpuproc[c] IN
    /\ At(c, "sleep_sched")
    /\ lock = None
    /\ tickslock' = None
    /\ chan' = [chan EXCEPT ![p] = TicksChan]
    /\ state' = [state EXCEPT ![p] = "SLEEPING"]
    /\ Goto(c, "sleep_again")
    /\ sched(c)
    /\ UNCHANGED <<pid, parent, killed, ticket, nextpid, ticks, np, ticks0,
                   n, tick_start, intr>>

\* Mutants: whatever the state, the process is made runnable; a sleeper stays
\* asleep.
M_Roused_Any(s) == "RUNNABLE"
M_Roused_Not(s) == s

\* kill(): "Wake process from sleep if necessary."
Roused(s) == IF s = "SLEEPING" THEN "RUNNABLE" ELSE s

\* kill(k): the first slot with that pid is marked, and roused if asleep.
\* The scan does not look at the slot's state.
kill(c) ==
    /\ At(c, "kill")
    /\ lock = None
    /\ \E k \in KillArgs :
        LET hits == {q \in Procs : pid[q] = k} IN
        /\ \/ /\ hits = {}
              /\ UNCHANGED <<killed, state>>
           \/ \E q \in hits :
              /\ \A r \in hits : q <= r
              /\ killed' = [killed EXCEPT ![q] = TRUE]
              /\ state' = [state EXCEPT ![q] = Roused(@)]
    /\ Goto(c, "ret")
    /\ UNCHANGED <<pid, parent, chan, ticket, tick, nextpid, ticks, np,
                   ticks0, n, cpuVars>>

\* Mutant: zero is stored as it is.
M_TicketFor_Zero(number) == number

\* sys_settickets: zero stands for the default.
TicketFor(number) == IF number = 0 THEN DefaultTicket ELSE number

\* sys_settickets and settickets: a negative number is refused; the
\* caller is looked up by its pid.
settickets(c) ==
    LET p == cpuproc[c]
        hits == {q \in Procs : pid[q] = pid[p]}
    IN
    /\ At(c, "settickets")
    /\ \/ /\ \E number \in TicketArgs : number < 0
          /\ UNCHANGED ticket
       \/ /\ lock = None
          /\ \E number \in TicketArgs, q \in hits :
             /\ number >= 0
             /\ \A r \in hits : q <= r
             /\ ticket' = [ticket EXCEPT ![q] = TicketFor(number)]
    /\ Goto(c, "ret")
    /\ UNCHANGED <<state, pid, parent, chan, killed, tick, nextpid, ticks, np,
                   ticks0, n, cpuVars>>

Kernel(c) ==
    \/ allocproc(c) \/ ForkFails(c) \/ ForkBuild(c) \/ ForkRun(c)
    \/ WaitReap(c) \/ WaitGivesUp(c) \/ WaitSleep(c)
    \/ SleepStart(c) \/ SleepAgain(c) \/ SleepSched(c)
    \/ kill(c) \/ settickets(c) \/ exit(c) \/ SyscallReturn(c)

User(c) == Syscall(c) \/ SyscallKilled(c) \/ Fault(c)

Interrupt(c) ==
    TimerTick(c) \/ TimerWakeup(c) \/ TimerOther(c) \/ TrapExit(c) \/ yield(c)

Next ==
    \E c \in CPUs :
        \/ \E p \in Procs : scheduler(c, p)
        \/ Kernel(c) \/ User(c) \/ Interrupt(c)

Spec == Init /\ [][Next]_vars

-----------------------------------------------------------------------------
(* Fairness.  A CPU keeps taking timer interrupts and handling them; a     *)
(* process that is in the lottery again and again wins, since the draws    *)
(* are random; one that is switched to again and again gets on with its    *)
(* kernel code, since a timer quantum is long; init.c always comes back to *)
(* wait().  User code may do nothing forever.                              *)

InitWaits(c) ==
    Syscall(c) /\ cpuproc[c] = initproc /\ pc'[initproc] = "wait"

Fairness ==
    \A c \in CPUs :
        /\ WF_vars(Interrupt(c))
        /\ SF_vars(InitWaits(c))
        /\ \A p \in Procs : SF_vars(scheduler(c, p))
        /\ \A p \in Procs : SF_vars(cpuproc[c] = p /\ Kernel(c))

FairSpec == Spec /\ Fairness

-----------------------------------------------------------------------------
(* Safety.                                                                 *)

(* scheduler(), sched(): a process runs on exactly one CPU while its state *)
(* says RUNNING, and a CPU never has a process in another state.           *)
OneCpuPerProc ==
    /\ \A p \in Procs : state[p] = "RUNNING" <=> \E c \in CPUs : cpuproc[c] = p
    /\ \A c, d \in CPUs : cpuproc[c] = cpuproc[d] /\ cpuproc[c] # NoProc => c = d

(* wait() against exit() and kill(): nobody sleeps in wait() while an      *)
(* exited child is there to be reaped, after being killed, or with no      *)
(* child left that could ever wake it.                                     *)
NoLostExit ==
    \A p \in Procs :
        state[p] = "SLEEPING" /\ chan[p] = p =>
            /\ ~killed[p]
            /\ \E q \in Procs : parent[q] = p
            /\ \A q \in Procs : parent[q] = p => state[q] # "ZOMBIE"

(* exit(): "Pass abandoned children to init" leaves no process behind      *)
(* whose parent's slot is free, being built, or itself exited.             *)
ParentIsLive ==
    \A p \in Procs :
        (Live(p) \/ state[p] = "ZOMBIE") /\ p # initproc =>
            /\ parent[p] # NoProc
            /\ Live(parent[p])

(* allocproc(), fork(): the slot a fork is building belongs to that fork   *)
(* alone, although the failing fork gives it back without ptable.lock.     *)
EmbryoOwned ==
    \A q \in Procs :
        state[q] = "EMBRYO" =>
            \E p \in Procs :
                /\ Live(p)
                /\ np[p] = q
                /\ \A r \in Procs : np[r] = q => r = p

(* kill(), settickets(): a nonzero pid names at most one slot, the slots a *)
(* failed fork gave back included.                                         *)
PidsUnique ==
    \A p, q \in Procs : pid[p] = pid[q] /\ pid[p] # 0 => p = q

(* sys_sleep() against the timer: a process asleep on &ticks is still      *)
(* short of its time, unless the tick that ends it is just being           *)
(* delivered.                                                              *)
NoLostTick ==
    \A p \in Procs :
        state[p] = "SLEEPING" /\ chan[p] = TicksChan =>
            (ticks - ticks0[p]) % TickMod < n[p] \/ \E c \in CPUs : intr[c] = "wakeup"

(* What the invariants above rest on, and the code keeps unsaid.           *)

\* init never exits; a CPU about to yield has a process; ptable.lock stays held
\* over a step only by the CPU whose process is back in wait().
HoldersInv ==
    /\ Live(initproc)
    /\ \A c \in CPUs : intr[c] = "yield" => cpuproc[c] # NoProc
    /\ lock # None => cpuproc[lock] # NoProc /\ pc[cpuproc[lock]] = "wait"

Forking == {"fork_build", "fork_run"}

\* A fork in progress owns one slot, which is EMBRYO, and the child is not
\* anybody's before fork sets np->parent.
NpWhileForking == \A p \in Procs : np[p] # NoProc <=> pc[p] \in Forking
NpIsEmbryo == \A p \in Procs : np[p] # NoProc => Live(p) /\ state[np[p]] = "EMBRYO"
NpInjective == \A p, q \in Procs : np[p] = np[q] /\ np[p] # NoProc => p = q
EmbryoHasFork == \A q \in Procs : state[q] = "EMBRYO" => \E p \in Procs : np[p] = q
NpParent ==
    \A p \in Procs :
        /\ pc[p] = "fork_build" => parent[np[p]] = NoProc
        /\ pc[p] = "fork_run" => parent[np[p]] = p

ForkInv ==
    NpWhileForking /\ NpIsEmbryo /\ NpInjective /\ EmbryoHasFork /\ NpParent

\* A free slot has no parent, nor has init; nobody is its own parent; pids
\* already given out are below nextpid.
SlotInv ==
    /\ \A p \in Procs : state[p] = "UNUSED" => parent[p] = NoProc
    /\ parent[initproc] = NoProc
    /\ \A p \in Procs : parent[p] # p
    /\ \A p \in Procs : pid[p] < nextpid

\* The inductive invariant.
IInv ==
    /\ TypeOK
    /\ OneCpuPerProc
    /\ HoldersInv
    /\ ForkInv
    /\ SlotInv
    /\ PidsUnique
    /\ ParentIsLive
    /\ NoLostExit

\* The ticks that a CPU's process has run and is not yet charged for.
Uncharged == [c \in CPUs |-> IF cpuproc[c] = NoProc THEN 0 ELSE ticks - tick_start[c]]

(* scheduler() and getpinfo(): the ticks charged to the processes never    *)
(* exceed the clock times the CPUs, the running ones' uncharged part       *)
(* included.  (Stated below the wrap of ticks.)                            *)
TicksCharged == SumFunction(tick) + SumFunction(Uncharged) <= NCPU * ticks

TicksBelowWrap == ticks < TickMod - 1

(* The comment of kill(): "Kill the process with the given pid."  A live   *)
(* process that is marked killed has a pid that kill() is called with, or  *)
(* it faulted and is exiting.  The code does not keep this: kill looks at  *)
(* slots that are free or being built, a fork that fails gives its slot    *)
(* back with pid and mark, and allocproc does not clear the mark, so the   *)
(* next process in that slot, with a pid of its own, is born killed.       *)
KilledOnlyByPid ==
    \A p \in Procs : Live(p) /\ killed[p] => pid[p] \in KillArgs \/ pc[p] = "exit"

\* The steps in the life of a slot, each with who takes it.  Building is what
\* the fork of the process that runs on c does.
Born(q) ==
    /\ state[q] = "UNUSED" /\ state'[q] = "EMBRYO"
    /\ \A r \in Procs : pid[r] < pid'[q]
    /\ \E c \in CPUs : cpuproc[c] # NoProc /\ np'[cpuproc[c]] = q

BuiltBy(c, q) == cpuproc[c] # NoProc /\ np[cpuproc[c]] = q

GivenBack(q) ==
    /\ state[q] = "EMBRYO" /\ state'[q] = "UNUSED"
    /\ \E c \in CPUs : BuiltBy(c, q)

Forked(q) ==
    /\ state[q] = "EMBRYO" /\ state'[q] = "RUNNABLE"
    /\ \E c \in CPUs : BuiltBy(c, q) /\ parent[q] = cpuproc[c]

SwitchedTo(q) ==
    /\ state[q] = "RUNNABLE" /\ state'[q] = "RUNNING"
    /\ \E c \in CPUs : cpuproc[c] = NoProc /\ cpuproc'[c] = q

SwitchedFrom(q) ==
    /\ state[q] = "RUNNING" /\ state'[q] \in {"RUNNABLE", "SLEEPING", "ZOMBIE"}
    /\ \E c \in CPUs : cpuproc[c] = q /\ cpuproc'[c] = NoProc

\* A sleeper is roused by a kill, by the timer if it sleeps on the ticks, or
\* because there is an exited child of the process it sleeps on.
WokenUp(q) ==
    /\ state[q] = "SLEEPING" /\ state'[q] = "RUNNABLE"
    /\ \/ killed'[q]
       \/ chan[q] = TicksChan /\ \E c \in CPUs : intr[c] = "wakeup"
       \/ \E r \in Procs : chan[q] = parent'[r] /\ state'[r] = "ZOMBIE"

Reaped(q) ==
    /\ state[q] = "ZOMBIE" /\ state'[q] = "UNUSED"
    /\ \E c \in CPUs : cpuproc[c] = parent[q] /\ pc[cpuproc[c]] = "wait"

\* What a step may do to the state and the pid of slot q.
LifeStep(q) ==
    /\ \/ state'[q] = state[q]
       \/ Born(q) \/ GivenBack(q) \/ Forked(q)
       \/ SwitchedTo(q) \/ SwitchedFrom(q) \/ WokenUp(q)
       \/ Reaped(q)
    /\ pid'[q] = pid[q] \/ Born(q) \/ Reaped(q)

(* fork(), scheduler(), sched(), wakeup(), kill(), wait(): a slot goes     *)
(* through its life in order, and each step is taken by the one entitled   *)
(* to it: only the fork that builds a slot sets it free or running, only   *)
(* the CPU that runs a process takes it out of RUNNING, a sleeper is woken *)
(* for a reason, and an exited child is freed by its own parent's wait().  *)
(* A process keeps its pid, one larger than every pid before it, for all   *)
(* of that life.                                                           *)
LifeCycle == [][\A q \in Procs : LifeStep(q)]_vars

-----------------------------------------------------------------------------
(* Liveness, under Fairness.                                               *)

(* kill(): "Process won't exit until it returns to user space", but then   *)
(* it does: neither user code that never makes a call, nor a sleep begun   *)
(* just after kill() looked, keeps a killed process alive.                 *)
KilledExits ==
    \A p \in Procs : killed[p] /\ Live(p) ~> state[p] = "ZOMBIE"

(* exit(), init.c: an exited process that was passed to init is reaped, so *)
(* its slot does not stay taken.                                           *)
OrphansReaped ==
    \A p \in Procs :
        state[p] = "ZOMBIE" /\ parent[p] = initproc ~> state[p] = "UNUSED"
=============================================================================
