--------------------------- MODULE ProcTableProofs ---------------------------
(***************************************************************************)
(* Proofs, for every number of slots, CPUs, pids and tickets, that the     *)
(* process table keeps the inductive invariant IInv of ProcTable, and with *)
(* it type correctness, one CPU per running process, live parents, unique  *)
(* pids, and no lost exit.  One lemma per action; the theorems at the end  *)
(* combine them.                                                           *)
(***************************************************************************)
EXTENDS ProcTable, SetLemmas

(* A process that a CPU executes is in the table and RUNNING.              *)
LEMMA Current ==
    ASSUME IInv, NEW c \in CPUs, cpuproc[c] # NoProc
    PROVE  cpuproc[c] \in Procs /\ state[cpuproc[c]] = "RUNNING" /\ Live(cpuproc[c])
BY DEF IInv, TypeOK, OneCpuPerProc, Live

(* A CPU whose process is not in wait() is not the one that holds          *)
(* ptable.lock, and its process is not the holder's.                       *)
LEMMA LockHolder ==
    ASSUME IInv, NEW c \in CPUs, cpuproc[c] # NoProc, pc[cpuproc[c]] # "wait", lock # None
    PROVE  lock \in CPUs /\ cpuproc[lock] \in Procs /\ cpuproc[lock] # cpuproc[c]
BY DEF IInv, TypeOK, HoldersInv, OneCpuPerProc

(* The clock and the charges stay naturals: the remainders are.            *)
LEMMA ModNat == \A x \in Int : x % TickMod \in Nat
BY TickModAssumption

(* The initial state satisfies the invariant.                              *)
LEMMA InitInv == Init => IInv
<1> SUFFICES ASSUME Init PROVE IInv
  OBVIOUS
<1> USE NPROCAssumption DEF Init, Procs, initproc, NoProc
<1>1. TypeOK
  BY DefaultTicketAssumption DEF TypeOK, States, PCs
<1>2. OneCpuPerProc /\ HoldersInv /\ ForkInv
  BY DEF OneCpuPerProc, HoldersInv, ForkInv, NpWhileForking, NpIsEmbryo, NpInjective, EmbryoHasFork, NpParent, Forking, Live
<1>3. SlotInv /\ PidsUnique /\ ParentIsLive /\ NoLostExit
  BY DEF SlotInv, PidsUnique, ParentIsLive, NoLostExit, Live
<1> QED
  BY <1>1, <1>2, <1>3 DEF IInv

(* The timer's first part touches the clock and tickslock only.            *)
LEMMA TimerTickInv ==
    ASSUME IInv, NEW c \in CPUs, TimerTick(c)
    PROVE  IInv'
<1> USE DEF IInv, TimerTick, InterruptsOn, procVars, localVars
<1>1. cpuproc[c] # NoProc => cpuproc[c] \in Procs /\ state[cpuproc[c]] = "RUNNING"
  BY Current
<1>2. TypeOK'
  BY <1>1, ModNat DEF TypeOK
<1>3. OneCpuPerProc'
  BY DEF OneCpuPerProc
<1>4. HoldersInv'
  BY <1>1, LockHolder DEF HoldersInv, Live, TypeOK, None, CPUs
<1>5. ForkInv'
  BY <1>1 DEF ForkInv, NpWhileForking, NpIsEmbryo, NpInjective, EmbryoHasFork, NpParent, Forking, Live, TypeOK
<1>6. SlotInv' /\ PidsUnique' /\ ParentIsLive'
  BY DEF SlotInv, PidsUnique, ParentIsLive, Live
<1>7. NoLostExit'
  BY <1>1 DEF NoLostExit, Children, TypeOK, Live
<1> QED
  BY <1>2, <1>3, <1>4, <1>5, <1>6, <1>7

(* The timer elsewhere only sets out to yield.                             *)
LEMMA TimerOtherInv ==
    ASSUME IInv, NEW c \in CPUs, TimerOther(c)
    PROVE  IInv'
<1> USE DEF IInv, TimerOther, InterruptsOn, procVars, localVars
<1>1. cpuproc[c] # NoProc => cpuproc[c] \in Procs /\ state[cpuproc[c]] = "RUNNING"
  BY Current
<1>2. TypeOK'
  BY <1>1 DEF TypeOK
<1>3. OneCpuPerProc'
  BY DEF OneCpuPerProc
<1>4. HoldersInv'
  BY <1>1, LockHolder DEF HoldersInv, Live, TypeOK, None, CPUs
<1>5. ForkInv'
  BY <1>1 DEF ForkInv, NpWhileForking, NpIsEmbryo, NpInjective, EmbryoHasFork, NpParent, Forking, Live, TypeOK
<1>6. SlotInv' /\ PidsUnique' /\ ParentIsLive'
  BY DEF SlotInv, PidsUnique, ParentIsLive, Live
<1>7. NoLostExit'
  BY <1>1 DEF NoLostExit, Children, TypeOK, Live
<1> QED
  BY <1>2, <1>3, <1>4, <1>5, <1>6, <1>7

(* A killed process turns from user code to exit().                        *)
LEMMA TrapExitInv ==
    ASSUME IInv, NEW c \in CPUs, TrapExit(c)
    PROVE  IInv'
<1> USE DEF IInv, TrapExit, procVars
<1>1. cpuproc[c] # NoProc => cpuproc[c] \in Procs /\ state[cpuproc[c]] = "RUNNING"
  BY Current
<1>2. TypeOK'
  BY <1>1 DEF TypeOK, PCs, HoldersInv
<1>3. OneCpuPerProc'
  BY DEF OneCpuPerProc
<1>4. HoldersInv'
  BY <1>1, LockHolder DEF HoldersInv, Live, TypeOK, None, CPUs
<1>5. ForkInv'
  BY <1>1 DEF ForkInv, NpWhileForking, NpIsEmbryo, NpInjective, EmbryoHasFork, NpParent, Forking, Live, TypeOK
<1>6. SlotInv' /\ PidsUnique' /\ ParentIsLive'
  BY DEF SlotInv, PidsUnique, ParentIsLive, Live
<1>7. NoLostExit'
  BY <1>1 DEF NoLostExit, Children, TypeOK, Live
<1> QED
  BY <1>2, <1>3, <1>4, <1>5, <1>6, <1>7

(* Entering a system call.                                                 *)
LEMMA SyscallInv ==
    ASSUME IInv, NEW c \in CPUs, Syscall(c)
    PROVE  IInv'
<1> USE DEF IInv, Syscall, At, Goto, Calls, procVars, cpuVars
<1>1. cpuproc[c] # NoProc => cpuproc[c] \in Procs /\ state[cpuproc[c]] = "RUNNING"
  BY Current
<1>2. TypeOK'
  BY <1>1 DEF TypeOK, PCs
<1>3. OneCpuPerProc'
  BY DEF OneCpuPerProc
<1>4. HoldersInv'
  BY <1>1, LockHolder DEF HoldersInv, Live, TypeOK, None, CPUs
<1>5. ForkInv'
  BY <1>1 DEF ForkInv, NpWhileForking, NpIsEmbryo, NpInjective, EmbryoHasFork, NpParent, Forking, Live, TypeOK
<1>6. SlotInv' /\ PidsUnique' /\ ParentIsLive'
  BY DEF SlotInv, PidsUnique, ParentIsLive, Live
<1>7. NoLostExit'
  BY <1>1 DEF NoLostExit, Children, TypeOK, Live
<1> QED
  BY <1>2, <1>3, <1>4, <1>5, <1>6, <1>7

(* A killed process at its next trap.                                      *)
LEMMA SyscallKilledInv ==
    ASSUME IInv, NEW c \in CPUs, SyscallKilled(c)
    PROVE  IInv'
<1> USE DEF IInv, SyscallKilled, At, Goto, procVars, cpuVars
<1>1. cpuproc[c] # NoProc => cpuproc[c] \in Procs /\ state[cpuproc[c]] = "RUNNING"
  BY Current
<1>2. TypeOK'
  BY <1>1 DEF TypeOK, PCs
<1>3. OneCpuPerProc'
  BY DEF OneCpuPerProc
<1>4. HoldersInv'
  BY <1>1, LockHolder DEF HoldersInv, Live, TypeOK, None, CPUs
<1>5. ForkInv'
  BY <1>1 DEF ForkInv, NpWhileForking, NpIsEmbryo, NpInjective, EmbryoHasFork, NpParent, Forking, Live, TypeOK
<1>6. SlotInv' /\ PidsUnique' /\ ParentIsLive'
  BY DEF SlotInv, PidsUnique, ParentIsLive, Live
<1>7. NoLostExit'
  BY <1>1 DEF NoLostExit, Children, TypeOK, Live
<1> QED
  BY <1>2, <1>3, <1>4, <1>5, <1>6, <1>7

(* Returning from a system call.                                           *)
LEMMA SyscallReturnInv ==
    ASSUME IInv, NEW c \in CPUs, SyscallReturn(c)
    PROVE  IInv'
<1> USE DEF IInv, SyscallReturn, At, Goto, procVars, cpuVars
<1>1. cpuproc[c] # NoProc => cpuproc[c] \in Procs /\ state[cpuproc[c]] = "RUNNING"
  BY Current
<1>2. TypeOK'
  BY <1>1 DEF TypeOK, PCs
<1>3. OneCpuPerProc'
  BY DEF OneCpuPerProc
<1>4. HoldersInv'
  BY <1>1, LockHolder DEF HoldersInv, Live, TypeOK, None, CPUs
<1>5. ForkInv'
  BY <1>1 DEF ForkInv, NpWhileForking, NpIsEmbryo, NpInjective, EmbryoHasFork, NpParent, Forking, Live, TypeOK
<1>6. SlotInv' /\ PidsUnique' /\ ParentIsLive'
  BY DEF SlotInv, PidsUnique, ParentIsLive, Live
<1>7. NoLostExit'
  BY <1>1 DEF NoLostExit, Children, TypeOK, Live
<1> QED
  BY <1>2, <1>3, <1>4, <1>5, <1>6, <1>7

(* A fault marks the running process, which is not asleep.                 *)
LEMMA FaultInv ==
    ASSUME IInv, NEW c \in CPUs, Fault(c)
    PROVE  IInv'
<1> USE DEF IInv, Fault, At, Goto, cpuVars
<1>1. cpuproc[c] # NoProc => cpuproc[c] \in Procs /\ state[cpuproc[c]] = "RUNNING"
  BY Current
<1>2. TypeOK'
  BY <1>1 DEF TypeOK, PCs
<1>3. OneCpuPerProc'
  BY DEF OneCpuPerProc
<1>4. HoldersInv'
  BY <1>1, LockHolder DEF HoldersInv, Live, TypeOK, None, CPUs
<1>5. ForkInv'
  BY <1>1 DEF ForkInv, NpWhileForking, NpIsEmbryo, NpInjective, EmbryoHasFork, NpParent, Forking, Live, TypeOK
<1>6. SlotInv' /\ PidsUnique' /\ ParentIsLive'
  BY DEF SlotInv, PidsUnique, ParentIsLive, Live
<1>7. NoLostExit'
  BY <1>1 DEF NoLostExit, Children, TypeOK, Live
<1> QED
  BY <1>2, <1>3, <1>4, <1>5, <1>6, <1>7

(* sys_sleep's first test.                                                 *)
LEMMA SleepStartInv ==
    ASSUME IInv, NEW c \in CPUs, SleepStart(c)
    PROVE  IInv'
<1> USE DEF IInv, SleepStart, SleepTest, At, Goto, procVars
<1>1. cpuproc[c] # NoProc => cpuproc[c] \in Procs /\ state[cpuproc[c]] = "RUNNING"
  BY Current
<1>2. TypeOK'
  BY <1>1, SleepArgsAssumption DEF TypeOK, PCs
<1>3. OneCpuPerProc'
  BY DEF OneCpuPerProc
<1>4. HoldersInv'
  BY <1>1, LockHolder DEF HoldersInv, Live, TypeOK, None, CPUs
<1>5. ForkInv'
  BY <1>1 DEF ForkInv, NpWhileForking, NpIsEmbryo, NpInjective, EmbryoHasFork, NpParent, Forking, Live, TypeOK
<1>6. SlotInv' /\ PidsUnique' /\ ParentIsLive'
  BY DEF SlotInv, PidsUnique, ParentIsLive, Live
<1>7. NoLostExit'
  BY <1>1 DEF NoLostExit, Children, TypeOK, Live
<1> QED
  BY <1>2, <1>3, <1>4, <1>5, <1>6, <1>7

(* sys_sleep's later tests.                                                *)
LEMMA SleepAgainInv ==
    ASSUME IInv, NEW c \in CPUs, SleepAgain(c)
    PROVE  IInv'
<1> USE DEF IInv, SleepAgain, SleepTest, At, Goto, procVars
<1>1. cpuproc[c] # NoProc => cpuproc[c] \in Procs /\ state[cpuproc[c]] = "RUNNING"
  BY Current
<1>2. TypeOK'
  BY <1>1 DEF TypeOK, PCs
<1>3. OneCpuPerProc'
  BY DEF OneCpuPerProc
<1>4. HoldersInv'
  BY <1>1, LockHolder DEF HoldersInv, Live, TypeOK, None, CPUs
<1>5. ForkInv'
  BY <1>1 DEF ForkInv, NpWhileForking, NpIsEmbryo, NpInjective, EmbryoHasFork, NpParent, Forking, Live, TypeOK
<1>6. SlotInv' /\ PidsUnique' /\ ParentIsLive'
  BY DEF SlotInv, PidsUnique, ParentIsLive, Live
<1>7. NoLostExit'
  BY <1>1 DEF NoLostExit, Children, TypeOK, Live
<1> QED
  BY <1>2, <1>3, <1>4, <1>5, <1>6, <1>7

(* wait() without anything to wait for.                                    *)
LEMMA WaitGivesUpInv ==
    ASSUME IInv, NEW c \in CPUs, WaitGivesUp(c)
    PROVE  IInv'
<1> USE DEF IInv, WaitGivesUp, At, Goto, procVars
<1>1. cpuproc[c] # NoProc => cpuproc[c] \in Procs /\ state[cpuproc[c]] = "RUNNING"
  BY Current
<1>2. TypeOK'
  BY <1>1 DEF TypeOK, PCs
<1>3. OneCpuPerProc'
  BY DEF OneCpuPerProc
<1>4. HoldersInv'
  BY <1>1, LockHolder DEF HoldersInv, Live, TypeOK, None, CPUs
<1>5. ForkInv'
  BY <1>1 DEF ForkInv, NpWhileForking, NpIsEmbryo, NpInjective, EmbryoHasFork, NpParent, Forking, Live, TypeOK
<1>6. SlotInv' /\ PidsUnique' /\ ParentIsLive'
  BY DEF SlotInv, PidsUnique, ParentIsLive, Live
<1>7. NoLostExit'
  BY <1>1 DEF NoLostExit, Children, TypeOK, Live
<1> QED
  BY <1>2, <1>3, <1>4, <1>5, <1>6, <1>7

(* settickets() keeps tickets positive.                                    *)
LEMMA SetTicketsInv ==
    ASSUME IInv, NEW c \in CPUs, settickets(c)
    PROVE  IInv'
<1> USE DEF IInv, settickets, At, Goto, TicketFor, cpuVars
<1>1. cpuproc[c] # NoProc => cpuproc[c] \in Procs /\ state[cpuproc[c]] = "RUNNING"
  BY Current
<1>2. TypeOK'
  BY <1>1, TicketArgsAssumption, DefaultTicketAssumption DEF TypeOK, PCs
<1>3. OneCpuPerProc'
  BY DEF OneCpuPerProc
<1>4. HoldersInv'
  BY <1>1, LockHolder DEF HoldersInv, Live, TypeOK, None, CPUs
<1>5. ForkInv'
  BY <1>1 DEF ForkInv, NpWhileForking, NpIsEmbryo, NpInjective, EmbryoHasFork, NpParent, Forking, Live, TypeOK
<1>6. SlotInv' /\ PidsUnique' /\ ParentIsLive'
  BY DEF SlotInv, PidsUnique, ParentIsLive, Live
<1>7. NoLostExit'
  BY <1>1 DEF NoLostExit, Children, TypeOK, Live
<1> QED
  BY <1>2, <1>3, <1>4, <1>5, <1>6, <1>7

(* The switch puts a runnable process on a free CPU.                       *)
LEMMA SchedulerInv ==
    ASSUME IInv, NEW c \in CPUs, NEW p \in Procs, scheduler(c, p)
    PROVE  IInv'
<1> USE DEF IInv, scheduler, localVars
<1>1. state[p] = "RUNNABLE"
  BY DEF IsWinner
<1>2. TypeOK'
  BY <1>1 DEF TypeOK, States, NoProc
<1>3. OneCpuPerProc'
  <2>1. \A d \in CPUs : cpuproc'[d] = IF d = c THEN p ELSE cpuproc[d]
    BY DEF TypeOK
  <2>2. \A q \in Procs : state'[q] = IF q = p THEN "RUNNING" ELSE state[q]
    BY DEF TypeOK
  <2>3. \A d \in CPUs : cpuproc[d] # p
    BY <1>1 DEF OneCpuPerProc
  <2> QED
    BY <2>1, <2>2, <2>3 DEF OneCpuPerProc, NoProc, Procs
<1>4. HoldersInv'
  BY <1>1 DEF HoldersInv, Live, TypeOK, NoProc, Procs, None
<1>5. ForkInv'
  BY <1>1 DEF ForkInv, NpWhileForking, NpIsEmbryo, NpInjective, EmbryoHasFork, NpParent, Forking, Live, TypeOK
<1>6. SlotInv' /\ PidsUnique' /\ ParentIsLive'
  BY <1>1 DEF SlotInv, PidsUnique, ParentIsLive, Live, TypeOK
<1>7. NoLostExit'
  BY <1>1 DEF NoLostExit, Children, TypeOK
<1> QED
  BY <1>1, <1>2, <1>3, <1>4, <1>5, <1>6, <1>7

(* The timer's wakeup only turns sleepers runnable.                        *)
LEMMA TimerWakeupInv ==
    ASSUME IInv, NEW c \in CPUs, TimerWakeup(c)
    PROVE  IInv'
<1> USE DEF IInv, TimerWakeup, wakeup1, localVars
<1>1. \A q \in Procs : state'[q] # state[q] => state[q] = "SLEEPING" /\ state'[q] = "RUNNABLE"
  BY DEF TypeOK
<1>2. TypeOK'
  BY DEF TypeOK, States
<1>3. OneCpuPerProc'
  BY <1>1 DEF OneCpuPerProc
<1>4. HoldersInv'
  BY <1>1, NPROCAssumption DEF HoldersInv, Live, TypeOK, initproc, Procs
<1>5. ForkInv'
  BY <1>1 DEF ForkInv, NpWhileForking, NpIsEmbryo, NpInjective, EmbryoHasFork, NpParent, Forking, Live, TypeOK
<1>6. SlotInv' /\ PidsUnique'
  BY <1>1 DEF SlotInv, PidsUnique
<1>7. ParentIsLive'
  BY <1>1 DEF ParentIsLive, Live, TypeOK
<1>8. NoLostExit'
  BY <1>1 DEF NoLostExit, Children
<1> QED
  BY <1>1, <1>2, <1>3, <1>4, <1>5, <1>6, <1>7, <1>8

(* Yielding takes the process off its CPU.                                 *)
LEMMA YieldInv ==
    ASSUME IInv, NEW c \in CPUs, yield(c)
    PROVE  IInv'
<1> USE DEF IInv, yield, sched, Charged, localVars
<1>1. cpuproc[c] \in Procs /\ state[cpuproc[c]] = "RUNNING"
  BY Current DEF HoldersInv
<1>2. TypeOK'
  BY <1>1, ModNat, TickModAssumption DEF TypeOK, States, PCs, NoProc, None
<1>3. OneCpuPerProc'
  BY <1>1 DEF OneCpuPerProc, TypeOK, NoProc, Procs
<1>4. HoldersInv'
  BY <1>1 DEF HoldersInv, Live, TypeOK, OneCpuPerProc, None, CPUs
<1>5. ForkInv'
  BY <1>1 DEF ForkInv, NpWhileForking, NpIsEmbryo, NpInjective, EmbryoHasFork, NpParent, Forking, Live, TypeOK
<1>6. SlotInv' /\ PidsUnique' /\ ParentIsLive'
  BY <1>1 DEF SlotInv, PidsUnique, ParentIsLive, Live, TypeOK
<1>7. NoLostExit'
  BY <1>1, NPROCAssumption DEF NoLostExit, Children, TypeOK
<1> QED
  BY <1>1, <1>2, <1>3, <1>4, <1>5, <1>6, <1>7

(* wait() sleeps only with a live child, unkilled, and no exited child.    *)
LEMMA WaitSleepInv ==
    ASSUME IInv, NEW c \in CPUs, WaitSleep(c)
    PROVE  IInv'
<1> USE DEF IInv, WaitSleep, sched, Charged, At, localVars
<1>1. cpuproc[c] \in Procs /\ state[cpuproc[c]] = "RUNNING"
  BY Current
<1>2. TypeOK'
  BY <1>1, ModNat, TickModAssumption DEF TypeOK, States, PCs, NoProc, None
<1>3. OneCpuPerProc'
  BY <1>1 DEF OneCpuPerProc, TypeOK, NoProc, Procs
<1>4. HoldersInv'
  BY <1>1 DEF HoldersInv, Live, TypeOK, OneCpuPerProc, None, CPUs
<1>5. ForkInv'
  BY <1>1 DEF ForkInv, NpWhileForking, NpIsEmbryo, NpInjective, EmbryoHasFork, NpParent, Forking, Live, TypeOK
<1>6. SlotInv' /\ PidsUnique' /\ ParentIsLive'
  BY <1>1 DEF SlotInv, PidsUnique, ParentIsLive, Live, TypeOK
<1>7. NoLostExit'
  BY <1>1, NPROCAssumption DEF NoLostExit, Children, TypeOK
<1> QED
  BY <1>1, <1>2, <1>3, <1>4, <1>5, <1>6, <1>7

(* sys_sleep sleeps on the clock, not on the process.                      *)
LEMMA SleepSchedInv ==
    ASSUME IInv, NEW c \in CPUs, SleepSched(c)
    PROVE  IInv'
<1> DEFINE p == cpuproc[c]
<1> USE DEF IInv
<1>1. p \in Procs /\ state[p] = "RUNNING" /\ pc[p] = "sleep_sched"
  BY Current DEF SleepSched, At
<1>2. /\ state'[p] = "SLEEPING" /\ chan'[p] = TicksChan /\ pc'[p] = "sleep_again"
      /\ cpuproc'[c] = NoProc /\ lock' = None
      /\ \A q \in Procs \ {p} : state'[q] = state[q] /\ chan'[q] = chan[q] /\ pc'[q] = pc[q]
      /\ \A d \in CPUs \ {c} : cpuproc'[d] = cpuproc[d]
  BY <1>1 DEF SleepSched, sched, Goto, TypeOK
<1>3. UNCHANGED <<pid, nextpid, parent, killed, np, intr>> /\ intr[c] = "none"
  BY DEF SleepSched, At
<1>4. TypeOK'
  BY <1>1, ModNat DEF SleepSched, sched, Charged, Goto, TypeOK, States, PCs, None
<1>5. OneCpuPerProc'
  <2>1. \A d \in CPUs : cpuproc[d] = p => d = c
    BY <1>1 DEF OneCpuPerProc, NoProc, Procs
  <2> QED
    BY <1>1, <1>2, <2>1 DEF OneCpuPerProc, NoProc, Procs
<1>6. HoldersInv'
  <2>1. Live(initproc)'
    BY <1>1, <1>2, NPROCAssumption DEF HoldersInv, Live, initproc, Procs
  <2> QED
    BY <1>2, <1>3, <2>1 DEF HoldersInv
<1>7. ForkInv'
  BY <1>1, <1>2, <1>3 DEF ForkInv, NpWhileForking, NpIsEmbryo, NpInjective,
     EmbryoHasFork, NpParent, Forking, Live, TypeOK
<1>8. SlotInv' /\ PidsUnique' /\ ParentIsLive'
  BY <1>1, <1>2, <1>3 DEF SlotInv, PidsUnique, ParentIsLive, Live, TypeOK
<1>9. TicksChan \notin Procs
  BY NPROCAssumption DEF TicksChan, Procs
<1>10. NoLostExit'
  BY <1>1, <1>2, <1>3, <1>9 DEF NoLostExit
<1> QED
  BY <1>4, <1>5, <1>6, <1>7, <1>8, <1>10

(* allocproc() takes a free slot, which no fork and no parent owns.        *)
LEMMA AllocprocInv ==
    ASSUME IInv, NEW c \in CPUs, allocproc(c)
    PROVE  IInv'
<1> DEFINE p == cpuproc[c]
<1> USE DEF IInv
<1>1. p \in Procs /\ state[p] = "RUNNING" /\ pc[p] = "fork" /\ lock = None
  BY Current DEF allocproc, At
<1>2. \A r \in Procs \ {p} : pc'[r] = pc[r] /\ np'[r] = np[r]
  BY <1>1 DEF allocproc, Goto, TypeOK
<1>3. TypeOK'
  BY <1>1, DefaultTicketAssumption DEF TypeOK, States, PCs, allocproc, FreeSlots, Goto, cpuVars
<1>4. UNCHANGED <<parent, chan, killed, cpuproc, intr, lock>>
  BY DEF allocproc, cpuVars
<1>5. CASE pc'[p] = "ret" /\ UNCHANGED <<state, pid, nextpid, np>>
  <2>1. OneCpuPerProc' /\ HoldersInv'
    BY <1>1, <1>4, <1>5 DEF OneCpuPerProc, HoldersInv, Live
  <2>2. ForkInv'
    BY <1>1, <1>2, <1>4, <1>5 DEF ForkInv, NpWhileForking, NpIsEmbryo, NpInjective,
       EmbryoHasFork, NpParent, Forking, Live
  <2>3. SlotInv' /\ PidsUnique' /\ ParentIsLive' /\ NoLostExit'
    BY <1>4, <1>5 DEF SlotInv, PidsUnique, ParentIsLive, NoLostExit, Live
  <2> QED
    BY <1>3, <2>1, <2>2, <2>3
<1>6. CASE \E q \in Procs :
            /\ state[q] = "UNUSED"
            /\ state'[q] = "EMBRYO" /\ pid'[q] = nextpid /\ nextpid' = nextpid + 1
            /\ np'[p] = q /\ pc'[p] = "fork_build"
            /\ \A r \in Procs \ {q} : state'[r] = state[r] /\ pid'[r] = pid[r]
  <2>1. PICK q \in Procs :
            /\ state[q] = "UNUSED"
            /\ state'[q] = "EMBRYO" /\ pid'[q] = nextpid /\ nextpid' = nextpid + 1
            /\ np'[p] = q /\ pc'[p] = "fork_build"
            /\ \A r \in Procs \ {q} : state'[r] = state[r] /\ pid'[r] = pid[r]
    BY <1>6
  <2>2. p # q /\ np[p] = NoProc /\ parent[q] = NoProc /\ \A r \in Procs : np[r] # q
    BY <1>1, <2>1 DEF ForkInv, NpWhileForking, NpIsEmbryo, Forking, SlotInv, NoProc, Procs
  <2>3. OneCpuPerProc'
    BY <1>1, <1>4, <2>1 DEF OneCpuPerProc
  <2>4. HoldersInv'
    BY <1>1, <1>4, <2>1, NPROCAssumption DEF HoldersInv, Live, initproc, Procs
  <2>5. NpWhileForking' /\ NpInjective'
    BY <1>1, <1>2, <2>1, <2>2 DEF ForkInv, NpWhileForking, NpInjective, Forking, NoProc, Procs
  <2>6. NpIsEmbryo'
    BY <1>1, <1>2, <2>1, <2>2 DEF ForkInv, NpIsEmbryo, Live, TypeOK
  <2>7. EmbryoHasFork'
    BY <1>1, <1>2, <2>1, <2>2 DEF ForkInv, EmbryoHasFork, NoProc, Procs
  <2>8. NpParent'
    BY <1>1, <1>2, <1>4, <2>1, <2>2 DEF ForkInv, NpParent
  <2>9. SlotInv' /\ PidsUnique'
    BY <1>4, <2>1 DEF SlotInv, PidsUnique, TypeOK
  <2>10. ParentIsLive' /\ NoLostExit'
    BY <1>4, <2>1, <2>2 DEF ParentIsLive, NoLostExit, Live, TypeOK
  <2> QED
    BY <1>3, <2>3, <2>4, <2>5, <2>6, <2>7, <2>8, <2>9, <2>10 DEF ForkInv
<1> QED
  BY <1>1, <1>5, <1>6 DEF allocproc, FreeSlots, Goto, TypeOK

(* A failing fork gives back the slot it owns.                             *)
LEMMA ForkFailsInv ==
    ASSUME IInv, NEW c \in CPUs, ForkFails(c)
    PROVE  IInv'
<1> DEFINE p == cpuproc[c]
           q == np[p]
<1> USE DEF IInv
<1>1. p \in Procs /\ state[p] = "RUNNING" /\ pc[p] = "fork_build"
  BY Current DEF ForkFails, At
<1>2. q \in Procs /\ state[q] = "EMBRYO" /\ parent[q] = NoProc
  BY <1>1 DEF ForkInv, NpWhileForking, NpIsEmbryo, NpParent, Forking, TypeOK
<1>3. /\ state'[q] = "UNUSED" /\ pc'[p] = "ret" /\ np'[p] = NoProc
      /\ \A r \in Procs \ {q} : state'[r] = state[r]
      /\ \A r \in Procs \ {p} : pc'[r] = pc[r] /\ np'[r] = np[r]
  BY <1>1, <1>2 DEF ForkFails, Goto, TypeOK
<1>4. UNCHANGED <<pid, nextpid, parent, chan, killed, cpuproc, intr, lock>>
  BY DEF ForkFails, cpuVars
<1>5. TypeOK'
  BY <1>1, <1>2 DEF ForkFails, Goto, cpuVars, TypeOK, States, PCs
<1>6. OneCpuPerProc'
  BY <1>2, <1>3, <1>4 DEF OneCpuPerProc
<1>7. HoldersInv'
  <2>1. Live(initproc)'
    BY <1>2, <1>3, NPROCAssumption DEF HoldersInv, Live, initproc, Procs
  <2>2. lock # None => cpuproc[lock] # NoProc /\ pc'[cpuproc[lock]] = "wait"
    BY <1>1, <1>3, LockHolder DEF HoldersInv, NoProc, Procs
  <2> QED
    BY <1>4, <2>1, <2>2 DEF HoldersInv
<1>8. NpWhileForking' /\ NpInjective'
  BY <1>1, <1>3 DEF ForkInv, NpWhileForking, NpInjective, Forking
<1>9. NpIsEmbryo' /\ EmbryoHasFork'
  <2>1. \A r \in Procs \ {p} : np[r] # q
    BY <1>1, <1>2 DEF ForkInv, NpInjective, NoProc, Procs
  <2>2. NpIsEmbryo'
    BY <1>1, <1>2, <1>3, <2>1 DEF ForkInv, NpIsEmbryo, Live, TypeOK
  <2>3. EmbryoHasFork'
    BY <1>1, <1>2, <1>3, <2>1 DEF ForkInv, EmbryoHasFork
  <2> QED
    BY <2>2, <2>3
<1>10. NpParent'
  BY <1>1, <1>3, <1>4 DEF ForkInv, NpParent
<1>11. SlotInv' /\ PidsUnique'
  BY <1>2, <1>3, <1>4 DEF SlotInv, PidsUnique
<1>12. ParentIsLive' /\ NoLostExit'
  BY <1>2, <1>3, <1>4 DEF ParentIsLive, NoLostExit, Live, TypeOK
<1> QED
  BY <1>5, <1>6, <1>7, <1>8, <1>9, <1>10, <1>11, <1>12 DEF ForkInv

(* Building the child gives the caller one more child, not yet exited.     *)
LEMMA ForkBuildInv ==
    ASSUME IInv, NEW c \in CPUs, ForkBuild(c)
    PROVE  IInv'
<1> DEFINE p == cpuproc[c]
           q == np[p]
<1> USE DEF IInv
<1>1. p \in Procs /\ state[p] = "RUNNING" /\ pc[p] = "fork_build"
  BY Current DEF ForkBuild, At
<1>2. q \in Procs /\ state[q] = "EMBRYO" /\ parent[q] = NoProc
  BY <1>1 DEF ForkInv, NpWhileForking, NpIsEmbryo, NpParent, Forking, TypeOK
<1>3. /\ parent'[q] = p /\ pc'[p] = "fork_run"
      /\ \A r \in Procs \ {q} : parent'[r] = parent[r]
      /\ \A r \in Procs \ {p} : pc'[r] = pc[r]
  BY <1>1, <1>2 DEF ForkBuild, Goto, TypeOK
<1>4. UNCHANGED <<state, pid, nextpid, np, chan, killed, cpuproc, intr, lock>>
  BY DEF ForkBuild, cpuVars
<1>5. TypeOK'
  BY <1>1, <1>2 DEF ForkBuild, Goto, cpuVars, TypeOK, States, PCs
<1>6. OneCpuPerProc' /\ HoldersInv'
  <2>1. lock # None => cpuproc[lock] # NoProc /\ pc'[cpuproc[lock]] = "wait"
    BY <1>1, <1>3, LockHolder DEF HoldersInv, NoProc, Procs
  <2> QED
    BY <1>4, <2>1 DEF OneCpuPerProc, HoldersInv, Live
<1>7. NpWhileForking' /\ NpIsEmbryo' /\ NpInjective' /\ EmbryoHasFork'
  BY <1>1, <1>3, <1>4 DEF ForkInv, NpWhileForking, NpIsEmbryo, NpInjective,
     EmbryoHasFork, Forking, Live
<1>8. NpParent'
  BY <1>1, <1>2, <1>3, <1>4 DEF ForkInv, NpParent, NpWhileForking, NpIsEmbryo,
     NpInjective, Forking, TypeOK
<1>9. SlotInv' /\ PidsUnique' /\ ParentIsLive'
  <2>1. q # p /\ q # initproc
    BY <1>1, <1>2 DEF HoldersInv, Live
  <2>2. SlotInv'
    BY <1>2, <1>3, <1>4, <2>1, NPROCAssumption DEF SlotInv, initproc, Procs
  <2> QED
    BY <1>2, <1>3, <1>4, <2>2 DEF PidsUnique, ParentIsLive, Live
<1>10. NoLostExit'
  BY <1>1, <1>2, <1>3, <1>4 DEF NoLostExit, NoProc, Procs
<1> QED
  BY <1>5, <1>6, <1>7, <1>8, <1>9, <1>10 DEF ForkInv

(* The child becomes runnable under a running parent.                      *)
LEMMA ForkRunInv ==
    ASSUME IInv, NEW c \in CPUs, ForkRun(c)
    PROVE  IInv'
<1> DEFINE p == cpuproc[c]
           q == np[p]
<1> USE DEF IInv
<1>1. p \in Procs /\ state[p] = "RUNNING" /\ pc[p] = "fork_run" /\ lock = None
  BY Current DEF ForkRun, At
<1>2. q \in Procs /\ state[q] = "EMBRYO" /\ parent[q] = p /\ np[q] = NoProc
  BY <1>1 DEF ForkInv, NpWhileForking, NpIsEmbryo, NpParent, Forking, Live, TypeOK
<1>3. /\ state'[q] = "RUNNABLE" /\ pc'[p] = "ret" /\ pc'[q] = "user" /\ np'[p] = NoProc
      /\ \A r \in Procs \ {q} : state'[r] = state[r]
      /\ \A r \in Procs \ {p, q} : pc'[r] = pc[r]
      /\ \A r \in Procs \ {p} : np'[r] = np[r]
  BY <1>1, <1>2 DEF ForkRun, TypeOK
<1>4. UNCHANGED <<pid, nextpid, parent, chan, killed, cpuproc, intr, lock>>
  BY DEF ForkRun, cpuVars
<1>5. TypeOK'
  BY <1>1, <1>2 DEF ForkRun, cpuVars, TypeOK, States, PCs
<1>6. OneCpuPerProc'
  BY <1>2, <1>3, <1>4 DEF OneCpuPerProc
<1>7. HoldersInv'
  BY <1>1, <1>2, <1>3, <1>4, NPROCAssumption DEF HoldersInv, Live, initproc, Procs
<1>8. NpWhileForking' /\ NpInjective'
  BY <1>1, <1>2, <1>3 DEF ForkInv, NpWhileForking, NpInjective, Forking
<1>9. NpIsEmbryo' /\ EmbryoHasFork'
  <2>1. \A r \in Procs \ {p} : np[r] # q
    BY <1>1, <1>2 DEF ForkInv, NpInjective, NoProc, Procs
  <2>2. NpIsEmbryo'
    BY <1>1, <1>2, <1>3, <2>1 DEF ForkInv, NpIsEmbryo, Live, TypeOK
  <2>3. EmbryoHasFork'
    BY <1>1, <1>2, <1>3, <2>1 DEF ForkInv, EmbryoHasFork
  <2> QED
    BY <2>2, <2>3
<1>10. NpParent'
  BY <1>1, <1>2, <1>3, <1>4 DEF ForkInv, NpParent
<1>11. SlotInv' /\ PidsUnique'
  BY <1>2, <1>3, <1>4 DEF SlotInv, PidsUnique
<1>12. ParentIsLive'
  <2>1. state'[p] = "RUNNING" /\ p # NoProc
    BY <1>1, <1>2, <1>3 DEF NoProc, Procs
  <2>2. ASSUME NEW r \in Procs, r # q, r # initproc,
               state'[r] \in {"SLEEPING", "RUNNABLE", "RUNNING", "ZOMBIE"}
        PROVE  /\ parent[r] # NoProc
               /\ state'[parent[r]] \in {"SLEEPING", "RUNNABLE", "RUNNING"}
    BY <1>2, <1>3, <2>2 DEF ParentIsLive, Live, TypeOK
  <2> QED
    BY <1>2, <1>4, <2>1, <2>2 DEF ParentIsLive, Live
<1>13. NoLostExit'
  BY <1>2, <1>3, <1>4 DEF NoLostExit
<1> QED
  BY <1>5, <1>6, <1>7, <1>8, <1>9, <1>10, <1>11, <1>12, <1>13 DEF ForkInv

(* Reaping frees a slot that is nobody's parent.                           *)
LEMMA WaitReapInv ==
    ASSUME IInv, NEW c \in CPUs, WaitReap(c)
    PROVE  IInv'
<1> USE DEF IInv, WaitReap, At, Goto, Children
<1>1. cpuproc[c] \in Procs /\ state[cpuproc[c]] = "RUNNING"
  BY Current
<1>2. TypeOK'
  BY <1>1 DEF TypeOK, States, PCs, NoProc
<1>3. OneCpuPerProc'
  BY <1>1 DEF OneCpuPerProc, TypeOK
<1>4. HoldersInv'
  BY <1>1 DEF HoldersInv, Live, TypeOK, OneCpuPerProc, None, CPUs
<1>5. ForkInv'
  <2>1. NpWhileForking'
    BY <1>1 DEF ForkInv, NpWhileForking, Forking, TypeOK, NoProc, Procs
  <2>2. NpIsEmbryo'
    BY <1>1 DEF ForkInv, NpIsEmbryo, NpWhileForking, Forking, Live, TypeOK, NoProc, Procs
  <2>3. NpInjective'
    BY <1>1 DEF ForkInv, NpInjective, NpIsEmbryo, TypeOK, NoProc, Procs
  <2>4. EmbryoHasFork'
    BY <1>1 DEF ForkInv, EmbryoHasFork, TypeOK, NoProc, Procs
  <2>5. NpParent'
    BY <1>1 DEF ForkInv, NpParent, NpIsEmbryo, NpInjective, NpWhileForking, Forking, TypeOK, NoProc, Procs
  <2> QED
    BY <2>1, <2>2, <2>3, <2>4, <2>5 DEF ForkInv
<1>6. SlotInv' /\ PidsUnique'
  BY <1>1 DEF SlotInv, PidsUnique, TypeOK, NoProc, Procs, initproc
<1>7. ParentIsLive'
  BY <1>1 DEF ParentIsLive, Live, TypeOK, NoProc, Procs
<1>8. NoLostExit'
  BY <1>1 DEF NoLostExit, TypeOK, NoProc, Procs
<1> QED
  BY <1>1, <1>2, <1>3, <1>4, <1>5, <1>6, <1>7, <1>8

(* kill() rouses the process it marks, and changes no other.               *)
LEMMA KillInv ==
    ASSUME IInv, NEW c \in CPUs, kill(c)
    PROVE  IInv'
<1> USE DEF IInv, kill, Roused, At, Goto, cpuVars
<1>1. cpuproc[c] \in Procs /\ state[cpuproc[c]] = "RUNNING"
  BY Current
<1>2. \A q \in Procs : state'[q] # state[q] => state[q] = "SLEEPING" /\ state'[q] = "RUNNABLE"
  BY DEF TypeOK
<1>3. \A q \in Procs : killed'[q] # killed[q] => state'[q] # "SLEEPING"
  BY DEF TypeOK
<1>4. TypeOK'
  BY <1>1 DEF TypeOK, States, PCs
<1>5. OneCpuPerProc'
  BY <1>2 DEF OneCpuPerProc
<1>6. HoldersInv'
  <2>1. Live(initproc)'
    BY <1>2, NPROCAssumption DEF HoldersInv, Live, initproc, Procs
  <2> QED
    BY <2>1 DEF HoldersInv
<1>7. ForkInv'
  BY <1>1, <1>2 DEF ForkInv, NpWhileForking, NpIsEmbryo, NpInjective, EmbryoHasFork, NpParent, Forking, Live, TypeOK
<1>8. SlotInv' /\ PidsUnique'
  BY <1>2 DEF SlotInv, PidsUnique
<1>9. ParentIsLive'
  BY <1>2 DEF ParentIsLive, Live, TypeOK
<1>10. NoLostExit'
  BY <1>2, <1>3 DEF NoLostExit, Children
<1> QED
  BY <1>1, <1>2, <1>3, <1>4, <1>5, <1>6, <1>7, <1>8, <1>9, <1>10

(* exit() wakes whoever would otherwise sleep over the exited child.       *)
LEMMA ExitInv ==
    ASSUME IInv, NEW c \in CPUs, exit(c)
    PROVE  IInv'
<1> DEFINE p == cpuproc[c]
<1> USE DEF IInv
<1>1. /\ p \in Procs /\ state[p] = "RUNNING" /\ pc[p] = "exit" /\ p # initproc
      /\ lock = None /\ np[p] = NoProc /\ Live(initproc) /\ initproc \in Procs
  BY Current, NPROCAssumption DEF exit, At, ForkInv, NpWhileForking, Forking,
     HoldersInv, initproc, Procs
\* The states after the step: p is a zombie, sleepers may be woken, and those
\* that p's exit concerns are.
<1>2. /\ state' \in [Procs -> States] /\ state'[p] = "ZOMBIE"
      /\ \A q \in Procs \ {p} :
            state'[q] # state[q] => state[q] = "SLEEPING" /\ state'[q] = "RUNNABLE"
  BY <1>1 DEF exit, ExitStates, wakeup1, TypeOK, States
<1>3. \A q \in Procs \ {p} : state'[q] = "SLEEPING" => chan[q] # parent[p]
  BY <1>1 DEF exit, ExitStates, wakeup1, TypeOK
<1>4. ASSUME NEW r \in Procs, parent[r] = p, state[r] = "ZOMBIE"
      PROVE  \A q \in Procs \ {p} : state'[q] = "SLEEPING" => chan[q] # initproc
  BY <1>1, <1>4 DEF exit, ExitStates, wakeup1, Children, TypeOK
<1>5. \A q \in Procs : parent'[q] = IF parent[q] = p THEN initproc ELSE parent[q]
  BY DEF exit, ExitParents, Children
<1>6. /\ UNCHANGED <<pid, nextpid, chan, killed, pc, np, intr>>
      /\ lock' = None /\ intr[c] = "none" /\ cpuproc'[c] = NoProc
      /\ \A d \in CPUs \ {c} : cpuproc'[d] = cpuproc[d]
  BY DEF exit, sched, localVars, At, TypeOK
<1>7. TypeOK'
  <2>1. tick' \in [Procs -> Nat]
    BY <1>1, ModNat DEF exit, sched, Charged, TypeOK
  <2>2. parent' \in [Procs -> Procs \cup {NoProc}]
    BY <1>1 DEF exit, ExitParents, TypeOK
  <2> QED
    BY <1>2, <2>1, <2>2 DEF exit, sched, localVars, TypeOK, None
<1>8. OneCpuPerProc'
  <2>1. \A d \in CPUs : cpuproc[d] = p => d = c
    BY <1>1 DEF OneCpuPerProc, NoProc, Procs
  <2>2. \A q \in Procs : state'[q] = "RUNNING" <=> state[q] = "RUNNING" /\ q # p
    BY <1>1, <1>2
  <2> QED
    BY <1>1, <1>6, <2>1, <2>2 DEF OneCpuPerProc, NoProc, Procs
<1>9. HoldersInv'
  BY <1>1, <1>2, <1>6 DEF HoldersInv, Live
<1>10. ForkInv'
  <2>1. \A q \in Procs : state[q] = "EMBRYO" <=> state'[q] = "EMBRYO"
    BY <1>1, <1>2
  <2>2. \A q \in Procs \ {p} : Live(q) => Live(q)'
    BY <1>1, <1>2 DEF Live
  <2>3. NpWhileForking' /\ NpInjective' /\ EmbryoHasFork'
    BY <1>6, <2>1 DEF ForkInv, NpWhileForking, NpInjective, EmbryoHasFork
  <2>4. NpIsEmbryo'
    BY <1>1, <1>6, <2>1, <2>2 DEF ForkInv, NpIsEmbryo, TypeOK
  <2>5. \A q \in Procs : pc[q] \in Forking => np[q] \in Procs /\ q # p
    BY <1>1 DEF ForkInv, NpWhileForking, TypeOK
  <2>6. NpParent'
    BY <1>1, <1>5, <1>6, <2>5 DEF ForkInv, NpParent, Forking, NoProc, Procs
  <2> QED
    BY <2>3, <2>4, <2>6 DEF ForkInv
<1>11. SlotInv' /\ PidsUnique'
  BY <1>1, <1>2, <1>5, <1>6 DEF SlotInv, PidsUnique, NoProc, Procs
<1>12. ParentIsLive'
  <2>1. \A q \in Procs \ {p} : Live(q) <=> Live(q)'
    BY <1>1, <1>2 DEF Live
  <2>2. \A q \in Procs : state'[q] = "ZOMBIE" <=> state[q] = "ZOMBIE" \/ q = p
    BY <1>1, <1>2
  <2> QED
    BY <1>1, <1>5, <2>1, <2>2 DEF ParentIsLive, Live, TypeOK, initproc, NoProc
<1>13. NoLostExit'
  <2> SUFFICES ASSUME NEW r \in Procs, state'[r] = "SLEEPING", chan'[r] = r
               PROVE  /\ ~killed'[r]
                      /\ \E q \in Procs : parent'[q] = r
                      /\ \A q \in Procs : parent'[q] = r => state'[q] # "ZOMBIE"
    BY DEF NoLostExit
  <2>1. r # p /\ state[r] = "SLEEPING" /\ chan[r] = r
    BY <1>2, <1>6
  <2>2. ~killed'[r] /\ \E q \in Procs : parent'[q] = r
    BY <1>1, <1>5, <1>6, <2>1 DEF NoLostExit
  <2>3. ASSUME NEW q \in Procs, parent'[q] = r
        PROVE  state'[q] # "ZOMBIE"
    <3>1. CASE q = p
      BY <1>1, <1>3, <1>5, <2>1, <2>3, <3>1 DEF SlotInv
    <3>2. CASE q # p /\ parent[q] = p
      BY <1>2, <1>4, <1>5, <2>1, <2>3, <3>2
    <3>3. CASE q # p /\ parent[q] # p
      BY <1>2, <1>5, <2>1, <2>3, <3>3 DEF NoLostExit
    <3> QED
      BY <3>1, <3>2, <3>3
  <2> QED
    BY <2>2, <2>3
<1> QED
  BY <1>7, <1>8, <1>9, <1>10, <1>11, <1>12, <1>13

(* Every step keeps the invariant.                                         *)
LEMMA NextInv == IInv /\ [Next]_vars => IInv'
<1> SUFFICES ASSUME IInv, [Next]_vars PROVE IInv'
  OBVIOUS
<1>1. CASE UNCHANGED vars
  BY <1>1 DEF vars, procVars, localVars, cpuVars, IInv, TypeOK, OneCpuPerProc,
     HoldersInv, ForkInv, NpWhileForking, NpIsEmbryo, NpInjective, EmbryoHasFork,
     NpParent, SlotInv, PidsUnique, ParentIsLive, NoLostExit, Live
<1>2. ASSUME NEW c \in CPUs, NEW p \in Procs, scheduler(c, p) PROVE IInv'
  BY <1>2, SchedulerInv
<1>3. ASSUME NEW c \in CPUs, Kernel(c) PROVE IInv'
  BY <1>3, AllocprocInv, ForkFailsInv, ForkBuildInv, ForkRunInv, WaitReapInv,
     WaitGivesUpInv, WaitSleepInv, SleepStartInv, SleepAgainInv, SleepSchedInv,
     KillInv, SetTicketsInv, ExitInv, SyscallReturnInv DEF Kernel
<1>4. ASSUME NEW c \in CPUs, User(c) PROVE IInv'
  BY <1>4, SyscallInv, SyscallKilledInv, FaultInv DEF User
<1>5. ASSUME NEW c \in CPUs, Interrupt(c) PROVE IInv'
  BY <1>5, TimerTickInv, TimerWakeupInv, TimerOtherInv, TrapExitInv, YieldInv DEF Interrupt
<1> QED
  BY <1>1, <1>2, <1>3, <1>4, <1>5 DEF Next

-----------------------------------------------------------------------------
(* IInv holds in every reachable state of the process table, for any       *)
(* number of slots, CPUs, pids and ticket values: the strengthening of the *)
(* properties below that scheduler(), fork(), exit(), wait(), sleep() and  *)
(* kill() preserve step by step.                                           *)
THEOREM Invariance == Spec => []IInv
<1>1. Init => IInv
  BY InitInv
<1>2. IInv /\ [Next]_vars => IInv'
  BY NextInv
<1> QED
  BY <1>1, <1>2, PTL DEF Spec

(* Type correctness; among others, no call of settickets() leaves a        *)
(* process without tickets, so that it could never be drawn.               *)
THEOREM TypeCorrect == Spec => []TypeOK
<1>1. IInv => TypeOK
  BY DEF IInv
<1> QED
  BY <1>1, Invariance, PTL

(* scheduler() and sched(): a process is RUNNING on exactly one CPU.       *)
THEOREM OneCpu == Spec => []OneCpuPerProc
<1>1. IInv => OneCpuPerProc
  BY DEF IInv
<1> QED
  BY <1>1, Invariance, PTL

(* wait() and exit(): no exit is slept through.                            *)
THEOREM NoExitLost == Spec => []NoLostExit
<1>1. IInv => NoLostExit
  BY DEF IInv
<1> QED
  BY <1>1, Invariance, PTL

(* exit(): every process, exited ones included, has a live parent.         *)
THEOREM ParentsLive == Spec => []ParentIsLive
<1>1. IInv => ParentIsLive
  BY DEF IInv
<1> QED
  BY <1>1, Invariance, PTL

(* allocproc(): pids are never shared.                                     *)
THEOREM PidsAreUnique == Spec => []PidsUnique
<1>1. IInv => PidsUnique
  BY DEF IInv
<1> QED
  BY <1>1, Invariance, PTL

(* fork(): a slot being built belongs to exactly one fork.                 *)
THEOREM EmbryosOwned == Spec => []EmbryoOwned
<1>1. IInv => EmbryoOwned
  BY DEF IInv, ForkInv, EmbryoHasFork, NpIsEmbryo, NpInjective, EmbryoOwned, TypeOK, NoProc, Procs
<1> QED
  BY <1>1, Invariance, PTL

-----------------------------------------------------------------------------
(* The life of a slot.                                                     *)

(* Whatever process runs next and wherever the others are, a step takes no *)
(* slot out of order, and only the one entitled to a step takes it.        *)
LEMMA NextLife == IInv /\ [Next]_vars => [\A q \in Procs : LifeStep(q)]_vars
<1> SUFFICES ASSUME IInv, Next, NEW q \in Procs PROVE LifeStep(q)
  OBVIOUS
<1> USE DEF IInv
<1>1. ASSUME state' = state, pid' = pid PROVE LifeStep(q)
  BY <1>1 DEF LifeStep
<1>2. ASSUME NEW c \in CPUs, NEW p \in Procs, scheduler(c, p) PROVE LifeStep(q)
  BY <1>2 DEF scheduler, IsWinner, TypeOK, LifeStep, SwitchedTo
<1>3. ASSUME NEW c \in CPUs, allocproc(c) PROVE LifeStep(q)
  <2>1. ASSUME UNCHANGED <<state, pid, ticket, tick, nextpid, np>> PROVE LifeStep(q)
    BY <2>1, <1>1
  <2>2. ASSUME NEW r \in FreeSlots,
               state' = [state EXCEPT ![r] = "EMBRYO"], pid' = [pid EXCEPT ![r] = nextpid],
               np' = [np EXCEPT ![cpuproc[c]] = r]
        PROVE  LifeStep(q)
    <3>1. cpuproc[c] \in Procs /\ cpuproc[c] # NoProc
      BY <1>3, Current DEF allocproc, At
    <3>2. CASE q = r
      <4>1. Born(q)
        BY <2>2, <3>1, <3>2 DEF Born, FreeSlots, SlotInv, TypeOK
      <4> QED
        BY <4>1 DEF LifeStep
    <3>3. CASE q # r
      BY <2>2, <3>3 DEF FreeSlots, TypeOK, LifeStep
    <3> QED
      BY <3>2, <3>3
  <2> QED
    BY <1>3, <2>1, <2>2 DEF allocproc
<1>4. ASSUME NEW c \in CPUs, ForkFails(c) PROVE LifeStep(q)
  <2>1. cpuproc[c] # NoProc /\ np[cpuproc[c]] \in Procs /\ state[np[cpuproc[c]]] = "EMBRYO"
    BY <1>4, Current DEF ForkFails, At, ForkInv, NpWhileForking, NpIsEmbryo, Forking, TypeOK
  <2> QED
    BY <1>4, <2>1 DEF ForkFails, TypeOK, LifeStep, GivenBack, BuiltBy
<1>5. ASSUME NEW c \in CPUs, ForkRun(c) PROVE LifeStep(q)
  <2>1. /\ cpuproc[c] # NoProc /\ np[cpuproc[c]] \in Procs
        /\ state[np[cpuproc[c]]] = "EMBRYO" /\ parent[np[cpuproc[c]]] = cpuproc[c]
    BY <1>5, Current DEF ForkRun, At, ForkInv, NpWhileForking, NpIsEmbryo, NpParent, Forking, TypeOK
  <2> QED
    BY <1>5, <2>1 DEF ForkRun, TypeOK, LifeStep, Forked, BuiltBy
<1>6. ASSUME NEW c \in CPUs, WaitReap(c) PROVE LifeStep(q)
  <2>1. PICK r \in Children(cpuproc[c]) :
           /\ state[r] = "ZOMBIE" /\ state' = [state EXCEPT ![r] = "UNUSED"]
           /\ pid' = [pid EXCEPT ![r] = 0]
    BY <1>6 DEF WaitReap
  <2>2. r \in Procs /\ parent[r] = cpuproc[c] /\ pc[cpuproc[c]] = "wait"
    BY <1>6, <2>1 DEF Children, WaitReap, At
  <2> QED
    BY <2>1, <2>2 DEF TypeOK, LifeStep, Reaped
<1>7. ASSUME NEW c \in CPUs, WaitSleep(c) \/ SleepSched(c) PROVE LifeStep(q)
  BY <1>7, Current DEF WaitSleep, SleepSched, sched, At, TypeOK, LifeStep, SwitchedFrom
<1>8. ASSUME NEW c \in CPUs, yield(c) PROVE LifeStep(q)
  BY <1>8, Current DEF yield, sched, HoldersInv, TypeOK, LifeStep, SwitchedFrom
<1>9. ASSUME NEW c \in CPUs, TimerWakeup(c) PROVE LifeStep(q)
  BY <1>9 DEF TimerWakeup, wakeup1, TypeOK, LifeStep, WokenUp
<1>10. ASSUME NEW c \in CPUs, kill(c) PROVE LifeStep(q)
  BY <1>10 DEF kill, Roused, TypeOK, LifeStep, WokenUp
<1>11. ASSUME NEW c \in CPUs, exit(c) PROVE LifeStep(q)
  <2> DEFINE p == cpuproc[c]
  <2>1. /\ p \in Procs /\ p # NoProc /\ p # initproc /\ pid' = pid
        /\ state' = ExitStates(p) /\ parent' = ExitParents(p)
        /\ cpuproc' = [cpuproc EXCEPT ![c] = NoProc]
        /\ state[p] = "RUNNING"
    BY <1>11, Current DEF exit, sched, At
  <2>2. state'[p] = "ZOMBIE" /\ parent'[p] = parent[p]
    BY <2>1 DEF ExitStates, ExitParents, Children, wakeup1, SlotInv
  <2>3. CASE q = p
    BY <2>1, <2>2, <2>3 DEF LifeStep, SwitchedFrom, TypeOK
  <2>4. CASE q # p
    <3>1. CASE state'[q] = state[q]
      BY <2>1, <3>1 DEF LifeStep
    <3>2. CASE state'[q] # state[q]
      <4>1. state[q] = "SLEEPING" /\ state'[q] = "RUNNABLE"
        BY <2>1, <2>4, <3>2 DEF ExitStates, wakeup1
      <4>2. \/ chan[q] = parent[p]
            \/ /\ chan[q] = initproc
               /\ \E r \in Children(p) : state[r] = "ZOMBIE"
        BY <2>1, <2>4, <3>2 DEF ExitStates, wakeup1
      <4>3. \E r \in Procs : chan[q] = parent'[r] /\ state'[r] = "ZOMBIE"
        <5>1. CASE chan[q] = parent[p]
          BY <2>1, <2>2, <5>1
        <5>2. ASSUME chan[q] = initproc, NEW r \in Children(p), state[r] = "ZOMBIE"
              PROVE  chan[q] = parent'[r] /\ state'[r] = "ZOMBIE" /\ r \in Procs
          BY <2>1, <5>2 DEF ExitStates, ExitParents, Children, wakeup1
        <5> QED
          BY <4>2, <5>1, <5>2
      <4> QED
        BY <2>1, <4>1, <4>3 DEF LifeStep, WokenUp
    <3> QED
      BY <3>1, <3>2
  <2> QED
    BY <2>3, <2>4
<1>12. ASSUME NEW c \in CPUs, ForkBuild(c) \/ WaitGivesUp(c) \/ SleepStart(c) \/ SleepAgain(c) \/ settickets(c) \/ SyscallReturn(c)
      PROVE  state' = state /\ pid' = pid
  BY <1>12 DEF ForkBuild, WaitGivesUp, SleepStart, SleepAgain, settickets, SyscallReturn, procVars
<1>13. ASSUME NEW c \in CPUs, User(c) PROVE state' = state /\ pid' = pid
  BY <1>13 DEF User, Syscall, SyscallKilled, Fault, procVars
<1>14. ASSUME NEW c \in CPUs, TimerTick(c) \/ TimerOther(c) \/ TrapExit(c) PROVE state' = state /\ pid' = pid
  BY <1>14 DEF TimerTick, TimerOther, TrapExit, procVars
<1> QED
  BY <1>1, <1>2, <1>3, <1>4, <1>5, <1>6, <1>7, <1>8, <1>9, <1>10, <1>11, <1>12, <1>13, <1>14 DEF Next, Kernel, Interrupt

(* fork(), scheduler(), sched(), wakeup(), kill(), wait(): on any number   *)
(* of CPUs a slot goes through its life in order, each step is taken by    *)
(* the process or CPU entitled to it and a wakeup has its reason, and a    *)
(* pid is fresh when given and kept until the parent has waited.           *)
THEOREM LivesInOrder == Spec => LifeCycle
BY NextLife, Invariance, PTL DEF Spec, LifeCycle

-----------------------------------------------------------------------------
(* sys_sleep() against the timer.  NoLostTick needs to know what tickslock *)
(* is held for: the timer holds it until its wakeup is delivered, and      *)
(* sys_sleep from its test until the process is asleep, so that the clock  *)
(* stands still in between.                                                *)

TimerHolds == \A c \in CPUs : intr[c] = "wakeup" => tickslock = c

SleeperHolds ==
    \A p \in Procs :
        pc[p] = "sleep_sched" =>
            \E c \in CPUs :
                /\ cpuproc[c] = p /\ tickslock = c /\ intr[c] = "none"
                /\ (ticks - ticks0[p]) % TickMod < n[p]

SleepInv == TimerHolds /\ SleeperHolds /\ NoLostTick

(* What leaves clock and tickslock alone, and neither takes a sleeper's    *)
(* CPU from it nor puts anybody to sleep on &ticks, keeps SleepInv.        *)
LEMMA SleepFrame ==
    ASSUME IInv, SleepInv, UNCHANGED <<ticks, tickslock, ticks0, n>>,
           \A d \in CPUs : intr'[d] = "wakeup" <=> intr[d] = "wakeup",
           \A q \in Procs : pc'[q] = "sleep_sched" => pc[q] = "sleep_sched",
           \A q \in Procs : \A d \in CPUs :
               pc[q] = "sleep_sched" /\ cpuproc[d] = q /\ tickslock = d /\ intr[d] = "none" =>
                   cpuproc'[d] = q /\ intr'[d] = "none",
           \A q \in Procs : state'[q] = "SLEEPING" /\ chan'[q] = TicksChan =>
                                state[q] = "SLEEPING" /\ chan[q] = TicksChan
    PROVE  SleepInv'
<1>1. TimerHolds'
  BY DEF SleepInv, TimerHolds
<1>2. SleeperHolds'
  <2> SUFFICES ASSUME NEW p \in Procs, pc'[p] = "sleep_sched"
               PROVE  \E c \in CPUs : /\ cpuproc'[c] = p /\ tickslock' = c /\ intr'[c] = "none"
                                      /\ (ticks' - ticks0'[p]) % TickMod < n'[p]
    BY DEF SleeperHolds
  <2>1. PICK c \in CPUs : /\ cpuproc[c] = p /\ tickslock = c /\ intr[c] = "none"
                          /\ (ticks - ticks0[p]) % TickMod < n[p]
    BY DEF SleepInv, SleeperHolds
  <2> QED
    BY <2>1
<1>3. NoLostTick'
  BY DEF SleepInv, NoLostTick
<1> QED
  BY <1>1, <1>2, <1>3 DEF SleepInv

(* Nobody is asleep, nor about to be, when main() enters the scheduler.    *)
LEMMA SleepInit == Init => SleepInv
BY DEF Init, SleepInv, TimerHolds, SleeperHolds, NoLostTick

(* The test of sys_sleep, at the first time and after every wakeup: if the *)
(* process goes on to sleep, it does so with tickslock held.               *)
LEMMA SleepTestInv ==
    ASSUME IInv, SleepInv, NEW c \in CPUs, SleepStart(c) \/ SleepAgain(c)
    PROVE  SleepInv'
<1> DEFINE p == cpuproc[c]
<1>1. p \in Procs /\ state[p] = "RUNNING" /\ tickslock = None /\ intr[c] = "none"
  BY Current DEF SleepStart, SleepAgain, At
<1>2. PICK start, d : SleepTest(c, start, d)
  BY DEF SleepStart, SleepAgain
<1>3. UNCHANGED <<state, chan, ticks, cpuproc, intr>>
  BY DEF SleepStart, SleepAgain, procVars
<1>4. \A q \in Procs : pc[q] # "sleep_sched"
  BY <1>1 DEF SleepInv, SleeperHolds, None, CPUs
<1>5. \A q \in Procs \ {p} : pc'[q] = pc[q] /\ n'[q] = n[q] /\ ticks0'[q] = ticks0[q]
  BY <1>1, <1>2 DEF SleepTest, Goto, IInv, TypeOK
<1>6. TimerHolds'
  BY <1>1, <1>3 DEF SleepInv, TimerHolds, None, CPUs
<1>7. ASSUME pc'[p] = "sleep_sched" PROVE tickslock' = c /\ (ticks' - ticks0'[p]) % TickMod < n'[p]
  BY <1>1, <1>2, <1>3, <1>7 DEF SleepTest, Goto, IInv, TypeOK
<1>8. SleeperHolds'
  BY <1>1, <1>3, <1>4, <1>5, <1>7 DEF SleeperHolds
<1>9. NoLostTick'
  BY <1>1, <1>3, <1>5 DEF SleepInv, NoLostTick
<1> QED
  BY <1>6, <1>8, <1>9 DEF SleepInv

(* sleep(): the process is asleep before anybody can count a tick.         *)
LEMMA SleepSchedKeeps ==
    ASSUME IInv, SleepInv, NEW c \in CPUs, SleepSched(c)
    PROVE  SleepInv'
<1> DEFINE p == cpuproc[c]
<1>1. p \in Procs /\ pc[p] = "sleep_sched" /\ intr[c] = "none"
  BY Current DEF SleepSched, At
<1>2. PICK d \in CPUs : /\ cpuproc[d] = p /\ tickslock = d /\ intr[d] = "none"
                        /\ (ticks - ticks0[p]) % TickMod < n[p]
  BY <1>1 DEF SleepInv, SleeperHolds
<1>3. \A q \in Procs : pc[q] = "sleep_sched" => q = p
  BY <1>2 DEF SleepInv, SleeperHolds
<1>4. /\ UNCHANGED <<ticks, ticks0, n, intr>>
      /\ \A q \in Procs \ {p} : pc'[q] = pc[q] /\ state'[q] = state[q] /\ chan'[q] = chan[q]
      /\ pc'[p] = "sleep_again"
  BY <1>1 DEF SleepSched, Goto, IInv, TypeOK
<1>5. \A d2 \in CPUs : intr[d2] # "wakeup"
  BY <1>2 DEF SleepInv, TimerHolds
<1>6. TimerHolds' /\ SleeperHolds'
  BY <1>3, <1>4, <1>5 DEF TimerHolds, SleeperHolds
<1>7. NoLostTick'
  BY <1>2, <1>4 DEF SleepInv, NoLostTick
<1> QED
  BY <1>6, <1>7 DEF SleepInv

(* trap(): the tick is counted with tickslock held, and every sleeper is   *)
(* woken before it is released.                                            *)
LEMMA TimerKeeps ==
    ASSUME IInv, SleepInv, NEW c \in CPUs, TimerTick(c) \/ TimerWakeup(c)
    PROVE  SleepInv'
<1>1. CASE TimerTick(c)
  <2>1. \A q \in Procs : pc[q] # "sleep_sched"
    BY <1>1 DEF TimerTick, SleepInv, SleeperHolds, None, CPUs
  <2>2. intr'[c] = "wakeup" /\ tickslock' = c /\ pc' = pc /\ \A d \in CPUs \ {c} : intr'[d] = intr[d]
    BY <1>1 DEF TimerTick, localVars, IInv, TypeOK
  <2>3. \A d \in CPUs : intr[d] # "wakeup"
    BY <1>1 DEF TimerTick, SleepInv, TimerHolds, None, CPUs
  <2> QED
    BY <2>1, <2>2, <2>3 DEF SleepInv, TimerHolds, SleeperHolds, NoLostTick
<1>2. CASE TimerWakeup(c)
  <2>1. /\ intr[c] = "wakeup" /\ tickslock = c /\ intr'[c] # "wakeup" /\ pc' = pc
        /\ \A d \in CPUs \ {c} : intr'[d] = intr[d]
    BY <1>2 DEF TimerWakeup, localVars, IInv, TypeOK, SleepInv, TimerHolds
  <2>2. \A q \in Procs : pc[q] # "sleep_sched"
    BY <2>1 DEF SleepInv, SleeperHolds
  <2>3. \A d \in CPUs : intr'[d] # "wakeup"
    BY <2>1 DEF SleepInv, TimerHolds
  <2>4. \A q \in Procs : ~(state'[q] = "SLEEPING" /\ chan'[q] = TicksChan)
    BY <1>2 DEF TimerWakeup, wakeup1
  <2> QED
    BY <2>1, <2>2, <2>3, <2>4 DEF SleepInv, TimerHolds, SleeperHolds, NoLostTick
<1> QED
  BY <1>1, <1>2

(* Every step keeps SleepInv.                                              *)
LEMMA NextSleep == IInv /\ SleepInv /\ [Next]_vars => SleepInv'
<1> SUFFICES ASSUME IInv, SleepInv, [Next]_vars PROVE SleepInv'
  OBVIOUS
<1>1. CASE UNCHANGED vars
  BY <1>1, SleepFrame DEF vars, procVars, localVars, cpuVars
<1>2. ASSUME NEW c \in CPUs, NEW p \in Procs, scheduler(c, p) PROVE SleepInv'
  <2>1. state[p] = "RUNNABLE" /\ TicksChan # NoProc
    BY <1>2, NPROCAssumption DEF scheduler, IsWinner, TicksChan, NoProc
  <2>2. UNCHANGED <<ticks, tickslock, ticks0, n, intr, pc>>
    BY <1>2 DEF scheduler, localVars
  <2>3. \A q \in Procs : \A d \in CPUs : cpuproc[d] = q => cpuproc'[d] = q
    BY <1>2 DEF scheduler, IInv, TypeOK, NoProc, Procs
  <2>4. \A q \in Procs : state'[q] = "SLEEPING" /\ chan'[q] = TicksChan => state[q] = "SLEEPING" /\ chan[q] = TicksChan
    BY <1>2, <2>1 DEF scheduler, IInv, TypeOK
  <2> QED
    BY <2>2, <2>3, <2>4, SleepFrame
<1>3. ASSUME NEW c \in CPUs, allocproc(c) PROVE SleepInv'
  <2>1. cpuproc[c] \in Procs
    BY <1>3, Current DEF allocproc, At
  <2>2. /\ UNCHANGED <<ticks, tickslock, ticks0, n, intr, cpuproc, chan>>
        /\ \A q \in Procs : pc'[q] = "sleep_sched" => pc[q] = "sleep_sched"
        /\ \A q \in Procs : state'[q] = "SLEEPING" => state[q] = "SLEEPING"
    BY <1>3, <2>1 DEF allocproc, Goto, cpuVars, IInv, TypeOK
  <2> QED
    BY <2>2, SleepFrame
<1>4. ASSUME NEW c \in CPUs, ForkFails(c) \/ ForkBuild(c) \/ ForkRun(c) PROVE SleepInv'
  <2>1. cpuproc[c] \in Procs
    BY <1>4, Current DEF ForkFails, ForkBuild, ForkRun, At
  <2>2. /\ UNCHANGED <<ticks, tickslock, ticks0, n, intr, cpuproc, chan>>
        /\ \A q \in Procs : pc'[q] = "sleep_sched" => pc[q] = "sleep_sched"
        /\ \A q \in Procs : state'[q] = "SLEEPING" => state[q] = "SLEEPING"
    BY <1>4, <2>1 DEF ForkFails, ForkBuild, ForkRun, Goto, cpuVars, IInv, TypeOK
  <2> QED
    BY <2>2, SleepFrame
<1>5. ASSUME NEW c \in CPUs, WaitReap(c) \/ WaitGivesUp(c) PROVE SleepInv'
  <2>1. cpuproc[c] \in Procs
    BY <1>5, Current DEF WaitReap, WaitGivesUp, At
  <2>2. /\ UNCHANGED <<ticks, tickslock, ticks0, n, intr, cpuproc, chan>>
        /\ \A q \in Procs : pc'[q] = "sleep_sched" => pc[q] = "sleep_sched"
        /\ \A q \in Procs : state'[q] = "SLEEPING" => state[q] = "SLEEPING"
    BY <1>5, <2>1 DEF WaitReap, WaitGivesUp, Goto, procVars, IInv, TypeOK
  <2> QED
    BY <2>2, SleepFrame
<1>6. ASSUME NEW c \in CPUs, WaitSleep(c) PROVE SleepInv'
  <2>1. cpuproc[c] \in Procs /\ pc[cpuproc[c]] = "wait" /\ cpuproc[c] # TicksChan
    BY <1>6, Current, NPROCAssumption DEF WaitSleep, At, TicksChan, Procs
  <2>2. /\ UNCHANGED <<ticks, tickslock, ticks0, n, intr, pc>>
        /\ \A d \in CPUs : cpuproc'[d] # cpuproc[d] => d = c
        /\ \A q \in Procs : state'[q] = "SLEEPING" /\ chan'[q] = TicksChan => state[q] = "SLEEPING" /\ chan[q] = TicksChan
    BY <1>6, <2>1 DEF WaitSleep, sched, localVars, IInv, TypeOK
  <2> QED
    BY <2>1, <2>2, SleepFrame
<1>7. ASSUME NEW c \in CPUs, exit(c) PROVE SleepInv'
  <2>1. cpuproc[c] \in Procs /\ pc[cpuproc[c]] = "exit"
    BY <1>7, Current DEF exit, At
  <2>2. /\ UNCHANGED <<ticks, tickslock, ticks0, n, intr, pc, chan>>
        /\ \A d \in CPUs : cpuproc'[d] # cpuproc[d] => d = c
    BY <1>7 DEF exit, sched, localVars, IInv, TypeOK
  <2>3. \A q \in Procs : state'[q] = "SLEEPING" => state[q] = "SLEEPING"
    BY <1>7, <2>1 DEF exit, ExitStates, wakeup1
  <2> QED
    BY <2>1, <2>2, <2>3, SleepFrame
<1>8. ASSUME NEW c \in CPUs, kill(c) PROVE SleepInv'
  <2>1. cpuproc[c] \in Procs
    BY <1>8, Current DEF kill, At
  <2>2. /\ UNCHANGED <<ticks, tickslock, ticks0, n, intr, cpuproc, chan>>
        /\ \A q \in Procs : pc'[q] = "sleep_sched" => pc[q] = "sleep_sched"
        /\ \A q \in Procs : state'[q] = "SLEEPING" => state[q] = "SLEEPING"
    BY <1>8, <2>1 DEF kill, Roused, Goto, cpuVars, IInv, TypeOK
  <2> QED
    BY <2>2, SleepFrame
<1>9. ASSUME NEW c \in CPUs, settickets(c) \/ SyscallReturn(c) \/ User(c) PROVE SleepInv'
  <2>1. cpuproc[c] \in Procs
    BY <1>9, Current DEF settickets, SyscallReturn, User, Syscall, SyscallKilled, Fault, At
  <2>2. /\ UNCHANGED <<ticks, tickslock, ticks0, n, intr, cpuproc, chan, state>>
        /\ \A q \in Procs : pc'[q] = "sleep_sched" => pc[q] = "sleep_sched"
    BY <1>9, <2>1 DEF settickets, SyscallReturn, User, Syscall, SyscallKilled, Fault, Calls, Goto, procVars, cpuVars, IInv, TypeOK
  <2> QED
    BY <2>2, SleepFrame
<1>10. ASSUME NEW c \in CPUs, TimerOther(c) \/ TrapExit(c) PROVE SleepInv'
  <2>1. /\ UNCHANGED <<ticks, tickslock, ticks0, n, cpuproc, chan, state>>
        /\ \A q \in Procs : pc'[q] = "sleep_sched" => pc[q] = "sleep_sched"
        /\ intr[c] # "wakeup" /\ intr'[c] # "wakeup" /\ \A d \in CPUs \ {c} : intr'[d] = intr[d]
        /\ tickslock = c => intr'[c] = "none"
    BY <1>10 DEF TimerOther, InterruptsOn, TrapExit, procVars, localVars, IInv, TypeOK
  <2> QED
    BY <2>1, SleepFrame
<1>11. ASSUME NEW c \in CPUs, yield(c) PROVE SleepInv'
  <2>1. /\ UNCHANGED <<ticks, tickslock, ticks0, n, pc, chan>>
        /\ intr[c] = "yield" /\ intr'[c] = "none" /\ \A d \in CPUs \ {c} : intr'[d] = intr[d] /\ cpuproc'[d] = cpuproc[d]
        /\ \A q \in Procs : state'[q] = "SLEEPING" => state[q] = "SLEEPING"
    BY <1>11 DEF yield, sched, localVars, IInv, TypeOK
  <2> QED
    BY <2>1, SleepFrame
<1>12. ASSUME NEW c \in CPUs, Kernel(c) PROVE SleepInv'
  BY <1>12, <1>3, <1>4, <1>5, <1>6, <1>7, <1>8, <1>9, SleepTestInv, SleepSchedKeeps DEF Kernel
<1>13. ASSUME NEW c \in CPUs, Interrupt(c) PROVE SleepInv'
  BY <1>13, <1>10, <1>11, TimerKeeps DEF Interrupt
<1> QED
  BY <1>1, <1>2, <1>9, <1>12, <1>13 DEF Next

(* sys_sleep() and the timer: nobody sleeps past the tick it waits for,    *)
(* whatever the width of the clock and wherever it wraps.                  *)
THEOREM NoTickLost == Spec => []NoLostTick
<1>1. SleepInv => NoLostTick
  BY DEF SleepInv
<1> QED
  BY <1>1, SleepInit, NextSleep, Invariance, PTL DEF Spec

-----------------------------------------------------------------------------
(* The ticks charged.  No CPU's process was switched to later than now.    *)
StartInv == \A c \in CPUs : tick_start[c] <= ticks

ChargeInv == StartInv /\ TicksCharged

(* The two sums, over sets that are finite and of terms that are integers. *)
LEMMA ChargeTypes ==
    ASSUME IInv, StartInv
    PROVE  /\ IsFiniteSet(Procs) /\ IsFiniteSet(CPUs)
           /\ Cardinality(CPUs) = NCPU
           /\ \A p \in Procs : tick[p] \in Int
           /\ \A c \in CPUs : Uncharged[c] \in Nat
           /\ SumFunction(tick) = SumFunctionOnSet(tick, Procs)
           /\ SumFunction(Uncharged) = SumFunctionOnSet(Uncharged, CPUs)
           /\ SumFunction(tick) \in Int /\ SumFunction(Uncharged) \in Int
<1>1. IsFiniteSet(Procs) /\ IsFiniteSet(CPUs) /\ Cardinality(CPUs) = NCPU
  BY NPROCAssumption, NCPUAssumption, FS_Interval DEF Procs, CPUs
<1>2. (\A p \in Procs : tick[p] \in Int) /\ DOMAIN tick = Procs
  BY DEF IInv, TypeOK
<1>3. (\A c \in CPUs : Uncharged[c] \in Nat) /\ DOMAIN Uncharged = CPUs
  BY DEF IInv, TypeOK, StartInv, Uncharged
<1>4. /\ SumFunction(tick) = SumFunctionOnSet(tick, Procs)
      /\ SumFunction(Uncharged) = SumFunctionOnSet(Uncharged, CPUs)
  BY <1>2, <1>3 DEF SumFunction
<1>5. \A c \in CPUs : Uncharged[c] \in Int
  BY <1>3
<1>6. SumFunctionOnSet(tick, Procs) \in Int
  BY <1>1, <1>2, SumType
<1>7. SumFunctionOnSet(Uncharged, CPUs) \in Int
  BY <1>1, <1>5, SumType
<1> QED
  BY <1>1, <1>2, <1>3, <1>4, <1>6, <1>7

(* A switch to a process starts its count at nothing.                      *)
LEMMA ChargeScheduler ==
    ASSUME IInv, IInv', ChargeInv, NEW c \in CPUs, NEW p \in Procs, scheduler(c, p)
    PROVE  ChargeInv'
<1>1. ticks' = ticks /\ tick' = tick /\ cpuproc[c] = NoProc
      /\ tick_start' = [tick_start EXCEPT ![c] = ticks]
      /\ cpuproc' = [cpuproc EXCEPT ![c] = p]
  BY DEF scheduler
<1>2. StartInv'
  BY <1>1 DEF ChargeInv, StartInv, IInv, TypeOK
<1>3. \A d \in CPUs : Uncharged'[d] = Uncharged[d]
  BY <1>1 DEF Uncharged, IInv, TypeOK
<1>4. SumFunction(Uncharged)' = SumFunction(Uncharged)
  <2>1. SumFunctionOnSet(Uncharged', CPUs) = SumFunctionOnSet(Uncharged, CPUs)
    BY <1>3, ChargeTypes, SumSame DEF ChargeInv
  <2>2. DOMAIN Uncharged = CPUs /\ DOMAIN Uncharged' = CPUs
    BY DEF Uncharged
  <2> QED
    BY <2>1, <2>2 DEF SumFunction
<1> QED
  BY <1>1, <1>2, <1>4 DEF ChargeInv, TicksCharged

(* A switch back moves what the process has run to its count; the width of *)
(* the count can only lose some of it.                                     *)
LEMMA ChargeSched ==
    ASSUME IInv, IInv', ChargeInv, NEW c \in CPUs, cpuproc[c] \in Procs, sched(c),
           UNCHANGED <<ticks, tick_start>>
    PROVE  ChargeInv'
<1> DEFINE p == cpuproc[c]
           owed == ticks - tick_start[c]
<1>1. StartInv /\ StartInv'
  BY DEF ChargeInv, StartInv
<1>2. p \in Procs /\ p # NoProc /\ owed \in Nat /\ tick[p] \in Nat
  <2>1. p # NoProc
    BY DEF Procs, NoProc
  <2>2. tick \in [Procs -> Nat] /\ ticks \in Nat /\ tick_start[c] \in Nat
    BY DEF IInv, TypeOK
  <2>3. tick_start[c] <= ticks
    BY <1>1 DEF StartInv
  <2> QED
    BY <2>1, <2>2, <2>3
<1>3. tick'[p] \in Int /\ tick'[p] <= tick[p] + owed /\ \A q \in Procs \ {p} : tick'[q] = tick[q]
  <2>1. tick'[p] = (tick[p] + owed) % TickMod /\ \A q \in Procs \ {p} : tick'[q] = tick[q]
    BY DEF sched, Charged, IInv, TypeOK
  <2>2. \A x \in Nat : x % TickMod <= x /\ x % TickMod \in Nat
    BY TickModAssumption
  <2>3. tick[p] + owed \in Nat
    BY <1>2
  <2> HIDE DEF p, owed
  <2> QED
    BY <2>1, <2>2, <2>3
<1>4. Uncharged[c] = owed /\ Uncharged'[c] = 0 /\ \A d \in CPUs \ {c} : Uncharged'[d] = Uncharged[d]
  BY <1>2 DEF sched, Uncharged, IInv, TypeOK
<1>5. SumFunctionOnSet(tick', Procs) = SumFunctionOnSet(tick, Procs) - tick[p] + tick'[p]
  <2>1. IsFiniteSet(Procs) /\ \A q \in Procs : tick[q] \in Int /\ tick'[q] \in Int
    BY <1>1, ChargeTypes DEF IInv, TypeOK
  <2> HIDE DEF p
  <2> QED
    BY <1>2, <1>3, <2>1, SumChange
<1>6. SumFunctionOnSet(Uncharged', CPUs) = SumFunctionOnSet(Uncharged, CPUs) - owed
  <2>1. IsFiniteSet(CPUs) /\ \A d \in CPUs : Uncharged[d] \in Int
    BY <1>1, ChargeTypes
  <2>2. \A d \in CPUs : Uncharged'[d] \in Int
    BY <1>4, <2>1
  <2>3. SumFunctionOnSet(Uncharged', CPUs) = SumFunctionOnSet(Uncharged, CPUs) - Uncharged[c] + Uncharged'[c]
    BY <1>4, <2>1, <2>2, SumChange
  <2>4. SumFunctionOnSet(Uncharged, CPUs) \in Int
    BY <2>1, SumType
  <2> HIDE DEF owed
  <2> QED
    BY <1>2, <1>4, <2>3, <2>4
<1>7. /\ SumFunction(tick) = SumFunctionOnSet(tick, Procs)
      /\ SumFunction(Uncharged) = SumFunctionOnSet(Uncharged, CPUs)
      /\ SumFunctionOnSet(tick, Procs) \in Int /\ SumFunctionOnSet(Uncharged, CPUs) \in Int
  BY <1>1, ChargeTypes
<1>8. /\ SumFunction(tick)' = SumFunctionOnSet(tick', Procs)
      /\ SumFunction(Uncharged)' = SumFunctionOnSet(Uncharged', CPUs)
  <2>1. DOMAIN tick' = Procs /\ DOMAIN Uncharged' = CPUs
    BY DEF IInv, TypeOK, Uncharged
  <2> QED
    BY <2>1 DEF SumFunction
<1>9. NCPU * ticks \in Int /\ NCPU * ticks' = NCPU * ticks
  BY NCPUAssumption DEF IInv, TypeOK
<1>10. SumFunction(tick) + SumFunction(Uncharged) <= NCPU * ticks
  BY DEF ChargeInv, TicksCharged
<1>11. SumFunction(tick)' + SumFunction(Uncharged)' <= NCPU * ticks
  <2> HIDE DEF p, owed
  <2> QED
    BY <1>2, <1>3, <1>5, <1>6, <1>7, <1>8, <1>9, <1>10
<1> QED
  BY <1>1, <1>9, <1>11 DEF ChargeInv, TicksCharged

(* A new process starts with no ticks.                                     *)
LEMMA ChargeAlloc ==
    ASSUME IInv, IInv', ChargeInv, NEW q \in Procs, tick' = [tick EXCEPT ![q] = 0],
           UNCHANGED <<ticks, tick_start, cpuproc>>
    PROVE  ChargeInv'
<1>1. StartInv /\ StartInv'
  BY DEF ChargeInv, StartInv
<1>2. tick[q] \in Nat /\ tick'[q] = 0 /\ \A r \in Procs \ {q} : tick'[r] = tick[r]
  BY DEF IInv, TypeOK
<1>3. SumFunctionOnSet(tick', Procs) = SumFunctionOnSet(tick, Procs) - tick[q] + tick'[q]
  <2>1. IsFiniteSet(Procs) /\ \A r \in Procs : tick[r] \in Int /\ tick'[r] \in Int
    BY <1>1, ChargeTypes DEF IInv, TypeOK
  <2>2. \A g : (\A r \in Procs : g[r] \in Int) /\ (\A r \in Procs \ {q} : g[r] = tick[r])
                 => SumFunctionOnSet(g, Procs) = SumFunctionOnSet(tick, Procs) - tick[q] + g[q]
    BY <2>1, SumChange
  <2> QED
    BY <1>2, <2>1, <2>2
<1>4. Uncharged' = Uncharged
  BY DEF Uncharged
<1>5. /\ SumFunction(tick) = SumFunctionOnSet(tick, Procs)
      /\ SumFunctionOnSet(tick, Procs) \in Int /\ SumFunction(Uncharged) \in Int
  BY <1>1, ChargeTypes
<1>6. SumFunction(tick)' = SumFunctionOnSet(tick', Procs) /\ SumFunction(Uncharged)' = SumFunction(Uncharged)
  <2>1. DOMAIN tick' = Procs
    BY DEF IInv, TypeOK
  <2> QED
    BY <1>4, <2>1 DEF SumFunction
<1>7. NCPU * ticks \in Int /\ NCPU * ticks' = NCPU * ticks
  BY NCPUAssumption DEF IInv, TypeOK
<1>8. SumFunction(tick) + SumFunction(Uncharged) <= NCPU * ticks
  BY DEF ChargeInv, TicksCharged
<1>9. SumFunction(tick)' + SumFunction(Uncharged)' <= NCPU * ticks
  BY <1>2, <1>3, <1>5, <1>6, <1>7, <1>8
<1> QED
  BY <1>1, <1>7, <1>9 DEF ChargeInv, TicksCharged

(* A tick that does not wrap the clock: each CPU owes at most one more.    *)
LEMMA ChargeTick ==
    ASSUME IInv, IInv', ChargeInv, ticks' = ticks + 1, UNCHANGED <<tick, tick_start, cpuproc>>
    PROVE  ChargeInv'
<1>1. StartInv /\ StartInv'
  BY DEF ChargeInv, StartInv, IInv, TypeOK
<1>2. IsFiniteSet(CPUs) /\ Cardinality(CPUs) = NCPU /\ \A c \in CPUs : Uncharged[c] \in Int
  BY <1>1, ChargeTypes
<1>3. \A c \in CPUs : Uncharged'[c] \in Int /\ Uncharged'[c] <= Uncharged[c] + 1
  BY <1>1 DEF Uncharged, StartInv, IInv, TypeOK
<1>4. SumFunctionOnSet(Uncharged', CPUs) <= SumFunctionOnSet(Uncharged, CPUs) + NCPU
  BY <1>2, <1>3, SumGrows
<1>5. SumFunctionOnSet(Uncharged', CPUs) \in Int
  BY <1>2, <1>3, SumType
<1>6. /\ SumFunction(tick) \in Int
      /\ SumFunction(Uncharged) = SumFunctionOnSet(Uncharged, CPUs)
      /\ SumFunctionOnSet(Uncharged, CPUs) \in Int
  BY <1>1, ChargeTypes
<1>7. SumFunction(tick)' = SumFunction(tick) /\ SumFunction(Uncharged)' = SumFunctionOnSet(Uncharged', CPUs)
  <2>1. DOMAIN Uncharged' = CPUs
    BY DEF Uncharged
  <2> QED
    BY <2>1 DEF SumFunction
<1>8. NCPU \in Int /\ NCPU * ticks \in Int /\ NCPU * (ticks + 1) = NCPU * ticks + NCPU
  BY NCPUAssumption DEF IInv, TypeOK
<1>9. SumFunction(tick) + SumFunction(Uncharged) <= NCPU * ticks
  BY DEF ChargeInv, TicksCharged
<1>10. SumFunction(tick)' + SumFunction(Uncharged)' <= NCPU * (ticks + 1)
  BY <1>4, <1>5, <1>6, <1>7, <1>8, <1>9
<1> QED
  BY <1>1, <1>10 DEF ChargeInv, TicksCharged

(* Nothing is charged at the start.                                        *)
LEMMA ChargeInit == Init => ChargeInv
<1> SUFFICES ASSUME Init PROVE ChargeInv
  OBVIOUS
<1>1. StartInv
  BY DEF Init, StartInv
<1>2. (\A p \in Procs : tick[p] = 0) /\ \A c \in CPUs : Uncharged[c] = 0
  BY DEF Init, Uncharged
<1>3. SumFunctionOnSet(tick, Procs) = 0 /\ SumFunctionOnSet(Uncharged, CPUs) = 0
  BY <1>1, <1>2, InitInv, ChargeTypes, SumZero
<1>4. SumFunction(tick) = 0 /\ SumFunction(Uncharged) = 0
  BY <1>1, <1>3, InitInv, ChargeTypes
<1>5. NCPU * ticks = 0
  BY NCPUAssumption DEF Init
<1> QED
  BY <1>1, <1>4, <1>5 DEF ChargeInv, TicksCharged

(* Every step below the wrap of the clock keeps the account.               *)
LEMMA NextCharge ==
    ASSUME IInv, IInv', ChargeInv, TicksBelowWrap, [Next]_vars
    PROVE  ChargeInv'
<1>1. ASSUME UNCHANGED <<tick, ticks, cpuproc, tick_start>> PROVE ChargeInv'
  <2>1. Uncharged' = Uncharged
    BY <1>1 DEF Uncharged
  <2>2. SumFunction(tick)' = SumFunction(tick) /\ SumFunction(Uncharged)' = SumFunction(Uncharged)
    BY <1>1, <2>1 DEF SumFunction
  <2> QED
    BY <1>1, <2>2 DEF ChargeInv, StartInv, TicksCharged
<1>2. ASSUME NEW c \in CPUs, NEW p \in Procs, scheduler(c, p) PROVE ChargeInv'
  BY <1>2, ChargeScheduler
<1>3. ASSUME NEW c \in CPUs, allocproc(c) PROVE ChargeInv'
  <2>1. UNCHANGED <<ticks, tick_start, cpuproc>>
    BY <1>3 DEF allocproc, cpuVars
  <2>2. CASE UNCHANGED tick
    BY <1>1, <2>1, <2>2
  <2>3. CASE \E q \in Procs : tick' = [tick EXCEPT ![q] = 0]
    BY <2>1, <2>3, ChargeAlloc
  <2> QED
    BY <1>3, <2>2, <2>3 DEF allocproc, FreeSlots
<1>4. ASSUME NEW c \in CPUs, yield(c) \/ WaitSleep(c) \/ SleepSched(c) \/ exit(c) PROVE ChargeInv'
  <2>1. cpuproc[c] \in Procs
    <3>1. CASE yield(c)
      BY <3>1 DEF yield, IInv, HoldersInv, TypeOK, OneCpuPerProc, Procs, NoProc
    <3>2. CASE ~yield(c)
      BY <1>4, <3>2, Current DEF WaitSleep, SleepSched, exit, At
    <3> QED
      BY <3>1, <3>2
  <2>2. sched(c) /\ UNCHANGED <<ticks, tick_start>>
    BY <1>4 DEF yield, WaitSleep, SleepSched, exit
  <2> QED
    BY <2>1, <2>2, ChargeSched
<1>5. ASSUME NEW c \in CPUs, TimerTick(c) PROVE ChargeInv'
  <2>1. ticks' = (ticks + 1) % TickMod /\ UNCHANGED <<tick, tick_start, cpuproc>>
    BY <1>5 DEF TimerTick, procVars
  <2>2. \A x \in Nat : x < TickMod => x % TickMod = x
    BY TickModAssumption
  <2>3. ticks + 1 \in Nat /\ ticks + 1 < TickMod
    BY TickModAssumption DEF TicksBelowWrap, IInv, TypeOK
  <2>4. ticks' = ticks + 1
    BY <2>1, <2>2, <2>3
  <2> QED
    BY <2>1, <2>4, ChargeTick
<1>6. ASSUME NEW c \in CPUs, TimerWakeup(c) \/ TimerOther(c) \/ TrapExit(c) PROVE ChargeInv'
  BY <1>6, <1>1 DEF TimerWakeup, TimerOther, TrapExit, procVars
<1>7. ASSUME NEW c \in CPUs, ForkFails(c) \/ ForkBuild(c) \/ ForkRun(c) \/ WaitReap(c) \/ WaitGivesUp(c) PROVE ChargeInv'
  BY <1>7, <1>1 DEF ForkFails, ForkBuild, ForkRun, WaitReap, WaitGivesUp, procVars, cpuVars
<1>8. ASSUME NEW c \in CPUs, SleepStart(c) \/ SleepAgain(c) \/ kill(c) \/ settickets(c) \/ SyscallReturn(c) PROVE ChargeInv'
  BY <1>8, <1>1 DEF SleepStart, SleepAgain, kill, settickets, SyscallReturn, procVars, cpuVars
<1>9. ASSUME NEW c \in CPUs, User(c) PROVE ChargeInv'
  BY <1>9, <1>1 DEF User, Syscall, SyscallKilled, Fault, procVars, cpuVars
<1>10. ASSUME NEW c \in CPUs, Kernel(c) PROVE ChargeInv'
  BY <1>10, <1>3, <1>4, <1>7, <1>8 DEF Kernel
<1>11. ASSUME NEW c \in CPUs, Interrupt(c) PROVE ChargeInv'
  BY <1>11, <1>4, <1>5, <1>6 DEF Interrupt
<1>12. CASE UNCHANGED vars
  BY <1>12, <1>1 DEF vars, procVars, cpuVars
<1> QED
  BY <1>2, <1>9, <1>10, <1>11, <1>12 DEF Next

(* scheduler() and getpinfo(): as long as the clock has not wrapped, the   *)
(* ticks charged to all processes, with those the running ones will be     *)
(* charged for, are at most what the CPUs had to give.                     *)
THEOREM TicksAccounted == Spec /\ []TicksBelowWrap => []TicksCharged
<1>1. IInv /\ IInv' /\ ChargeInv /\ TicksBelowWrap /\ [Next]_vars => ChargeInv'
  BY NextCharge
<1>2. ChargeInv => TicksCharged
  BY DEF ChargeInv
<1> QED
  BY <1>1, <1>2, ChargeInit, Invariance, PTL DEF Spec
-----------------------------------------------------------------------------
(* The lottery.  HalfWord is the number of raw values.                     *)
HalfWord == 2^(WordBits - 1)

(* Words and the largest int in terms of HalfWord.                         *)
LEMMA Widths ==
    HalfWord \in Nat /\ HalfWord > 1 /\ RAND_MAX = HalfWord - 1 /\ 2^WordBits = 2 * HalfWord
BY SignBitAssumption DEF HalfWord, RAND_MAX

(* An int is left alone, a sum beyond is taken modulo the word and can be  *)
(* negative.                                                               *)
LEMMA WrappedIs ==
    ASSUME NEW x \in Nat
    PROVE  /\ x <= RAND_MAX => Wrapped(x) = x
           /\ x % 2^WordBits <= RAND_MAX => Wrapped(x) \in 0..RAND_MAX
           /\ ~(x % 2^WordBits <= RAND_MAX) => Wrapped(x) \in -HalfWord..-1
<1> DEFINE m == x % 2^WordBits
<1>1. m \in Nat /\ m < 2 * HalfWord
  BY Widths
<1>2. x <= RAND_MAX => m = x
  BY Widths
<1>3. Wrapped(x) = IF m > RAND_MAX THEN m - 2 * HalfWord ELSE m
  BY Widths DEF Wrapped
<1> HIDE DEF m
<1>4. RAND_MAX = HalfWord - 1 /\ HalfWord \in Nat
  BY Widths
<1>5. (x <= RAND_MAX => Wrapped(x) = x) /\ (m <= RAND_MAX => Wrapped(x) \in 0..RAND_MAX)
      /\ (~(m <= RAND_MAX) => Wrapped(x) \in -HalfWord..-1)
  BY <1>1, <1>2, <1>3, <1>4
<1> QED
  BY <1>5 DEF m

(* Division with a remainder.                                              *)
LEMMA Division ==
    ASSUME NEW a \in Nat, NEW b \in Nat \ {0}
    PROVE  /\ a \div b \in Nat /\ a % b \in Nat /\ a % b < b
           /\ a = b * (a \div b) + (a % b)
OBVIOUS

(* The quotient lies between two numbers as the dividend between their     *)
(* multiples.                                                              *)
LEMMA QuotientBetween ==
    ASSUME NEW x \in Nat, NEW b \in Nat \ {0}, NEW k \in Nat
    PROVE  k <= x \div b <=> k * b <= x
<1> DEFINE q == x \div b
           r == x % b
<1>1. q \in Nat /\ r \in Nat /\ r < b /\ x = b * q + r
  BY Division
<1> HIDE DEF q, r
<1>2. ASSUME k <= q PROVE k * b <= x
  <2>1. k * b <= q * b
    BY <1>1, <1>2
  <2>2. q * b = b * q /\ q * b \in Nat /\ k * b \in Nat
    BY <1>1
  <2> QED
    BY <1>1, <2>1, <2>2
<1>3. ASSUME ~(k <= q) PROVE ~(k * b <= x)
  <2>1. q + 1 <= k
    BY <1>1, <1>3
  <2>2. (q + 1) * b <= k * b
    BY <1>1, <2>1
  <2>3. (q + 1) * b = b * q + b /\ b * q \in Nat /\ k * b \in Nat
    BY <1>1
  <2> QED
    BY <1>1, <2>2, <2>3
<1> QED
  BY <1>2, <1>3 DEF q

(* random_at_most in its range: the accepted values make max + 1 bins of   *)
(* the same size.                                                          *)
LEMMA AcceptedInRange ==
    ASSUME NEW max \in 0..RAND_MAX
    PROVE  /\ BinSize(max) \in Nat \ {0}
           /\ Accepted(max) = 0..((max + 1) * BinSize(max) - 1)
           /\ (max + 1) * BinSize(max) \in Nat /\ (max + 1) * BinSize(max) > 0
           /\ (max + 1) * BinSize(max) <= HalfWord
<1>1. max \in Nat /\ max + 1 \in Nat \ {0} /\ max + 1 <= HalfWord /\ HalfWord \in Nat
  BY Widths
<1>2. NumBins(max) = max + 1 /\ NumRand = HalfWord
  <2>1. \A y \in Nat : y < 2^WordBits => y % 2^WordBits = y
    BY Widths
  <2>2. max + 1 < 2^WordBits /\ RAND_MAX + 1 = HalfWord /\ HalfWord < 2^WordBits
    BY <1>1, Widths
  <2> QED
    BY <1>1, <2>1, <2>2 DEF NumBins, NumRand
<1> DEFINE b == HalfWord \div (max + 1)
           d == HalfWord % (max + 1)
<1>3. b \in Nat /\ d \in Nat /\ d < max + 1 /\ HalfWord = (max + 1) * b + d
  BY <1>1, Division
<1>4. BinSize(max) = b /\ Defect(max) = d /\ ~DivideFaults(max)
  BY <1>1, <1>2 DEF BinSize, Defect, DivideFaults
<1>5. (max + 1) * b \in Nat
  BY <1>1, <1>3
<1> HIDE DEF b, d
<1>6. (max + 1) * b > 0
  BY <1>1, <1>3, <1>5
<1>7. b # 0
  <2>1. (max + 1) * 0 = 0
    BY <1>1
  <2> QED
    BY <1>6, <2>1
<1>8. Accepted(max) = {x \in 0..RAND_MAX : ~(HalfWord - d <= x)}
  BY <1>2, <1>4 DEF Accepted
<1>9. HalfWord - d = (max + 1) * b /\ RAND_MAX = HalfWord - 1 /\ (max + 1) * b <= HalfWord
  BY <1>1, <1>3, <1>5, Widths
<1> DEFINE size == (max + 1) * b
<1>10. {x \in 0..RAND_MAX : ~(size <= x)} = 0..(size - 1)
  <2>1. size \in Nat /\ size <= HalfWord /\ RAND_MAX = HalfWord - 1 /\ HalfWord \in Nat
    BY <1>1, <1>5, <1>9
  <2> HIDE DEF size
  <2> QED
    BY <2>1
<1> QED
  BY <1>3, <1>4, <1>5, <1>6, <1>7, <1>8, <1>9, <1>10

(* random_at_most of a negative number: no value ends the loop.            *)
LEMMA AcceptedNegative ==
    ASSUME NEW max \in -HalfWord..-1
    PROVE  Accepted(max) = {}
<1>1. CASE max = -1
  <2>1. NumBins(max) = 0
    BY <1>1, Widths DEF NumBins
  <2> QED
    BY <2>1 DEF Accepted, DivideFaults
<1>2. CASE max # -1
  <2>1. max \in Int /\ max + 1 < 0 /\ max >= -HalfWord /\ HalfWord \in Nat
    BY <1>2, Widths
  <2>2. NumRand = HalfWord
    <3>1. \A y \in Nat : y < 2^WordBits => y % 2^WordBits = y
      BY Widths
    <3> QED
      BY <2>1, <3>1, Widths DEF NumRand
  <2>3. NumBins(max) = max + 1 + 2 * HalfWord
    <3> DEFINE z == max + 1
               w == 2 * HalfWord
    <3>1. z \in Int /\ z < 0 /\ z >= -w /\ w \in Nat /\ w > 0
      BY <2>1, Widths
    <3>2. z % w = z + w
      <4> HIDE DEF z, w
      <4> QED
        BY <3>1
    <3> QED
      BY <3>2, Widths DEF NumBins
  <2>4. NumBins(max) \in Nat /\ NumBins(max) > HalfWord
    BY <2>1, <2>3
  <2>5. Defect(max) = HalfWord
    <3>1. \A c \in Nat : c > HalfWord => HalfWord % c = HalfWord
      BY <2>1
    <3> QED
      BY <2>2, <2>4, <3>1 DEF Defect
  <2>6. \A x \in 0..RAND_MAX : NumRand - Defect(max) <= x
    BY <2>1, <2>2, <2>5, Widths
  <2> QED
    BY <2>6 DEF Accepted
<1> QED
  BY <1>1, <1>2

\* The type of the table that the lottery reads.
Table(st, tk) == \A p \in Procs : tk[p] \in Nat

(* The running totals as the search sees them: they start at nothing, each *)
(* runnable slot adds its tickets, and none goes down.                     *)
LEMMA Prefix ==
    ASSUME NEW st, NEW tk, Table(st, tk), NEW p \in 0..NPROC
    PROVE  /\ HeldUpTo(st, tk, p) \in Nat
           /\ p = 0 => HeldUpTo(st, tk, p) = 0
           /\ p > 0 /\ st[p] = "RUNNABLE" => HeldUpTo(st, tk, p) = tk[p] + HeldUpTo(st, tk, p - 1)
           /\ \A q \in 0..p : HeldUpTo(st, tk, q) <= HeldUpTo(st, tk, p)
<1>1. \A q \in 0..NPROC : /\ RunnableUpTo(st, q) \subseteq Procs /\ IsFiniteSet(RunnableUpTo(st, q))
                          /\ \A x \in RunnableUpTo(st, q) : tk[x] \in Nat /\ tk[x] \in Int
  <2>1. IsFiniteSet(Procs)
    BY NPROCAssumption, FS_Interval DEF Procs
  <2>2. \A q \in 0..NPROC : RunnableUpTo(st, q) \subseteq Procs
    BY NPROCAssumption DEF RunnableUpTo, Procs
  <2> QED
    BY <2>1, <2>2, FS_Subset DEF Table
<1>2. \A q \in 0..p : HeldUpTo(st, tk, q) <= HeldUpTo(st, tk, p)
  <2> SUFFICES ASSUME NEW q \in 0..p PROVE HeldUpTo(st, tk, q) <= HeldUpTo(st, tk, p)
    OBVIOUS
  <2>1. RunnableUpTo(st, q) \in SUBSET RunnableUpTo(st, p)
    BY NPROCAssumption DEF RunnableUpTo
  <2> QED
    BY <1>1, <2>1, SumSubset DEF HeldUpTo
<1>3. RunnableUpTo(st, 0) = {} /\ 0 \in 0..NPROC
  BY NPROCAssumption DEF RunnableUpTo
<1>4. HeldUpTo(st, tk, 0) = 0
  BY <1>1, <1>3, SumStep DEF HeldUpTo
<1>5. HeldUpTo(st, tk, p) \in Int
  BY <1>1, SumType DEF HeldUpTo
<1>6. HeldUpTo(st, tk, p) \in Nat
  <2>1. 0 \in 0..p
    BY NPROCAssumption
  <2> QED
    BY <1>2, <1>4, <1>5, <2>1
<1>7. ASSUME p > 0, st[p] = "RUNNABLE" PROVE HeldUpTo(st, tk, p) = tk[p] + HeldUpTo(st, tk, p - 1)
  <2>1. p \in RunnableUpTo(st, p) /\ RunnableUpTo(st, p) \ {p} = RunnableUpTo(st, p - 1)
    BY <1>7, NPROCAssumption DEF RunnableUpTo
  <2> QED
    BY <1>1, <2>1, SumSplit DEF HeldUpTo
<1> QED
  BY <1>2, <1>4, <1>6, <1>7

(* The search of scheduler(): with a total that is an int, a runnable slot *)
(* wins the tickets between the running totals before it and after it.     *)
LEMMA WinnerIs ==
    ASSUME NEW st, NEW tk, Table(st, tk), HeldUpTo(st, tk, NPROC) <= RAND_MAX,
           NEW p \in Procs, NEW w \in Nat
    PROVE  IsWinner(st, tk, p, w)
             <=> /\ st[p] = "RUNNABLE"
                 /\ HeldUpTo(st, tk, p - 1) <= w /\ w + 1 <= HeldUpTo(st, tk, p)
<1> DEFINE P(q) == HeldUpTo(st, tk, q)
<1>1. NPROC \in Nat /\ NPROC \in 0..NPROC /\ p \in Nat /\ p \in 0..NPROC /\ p - 1 \in 0..NPROC /\ p > 0
  BY NPROCAssumption DEF Procs
<1>2. \A q \in 0..NPROC : P(q) \in Nat /\ (q = 0 => P(q) = 0) /\ \A r \in 0..q : P(r) <= P(q)
  BY Prefix
<1>3. \A q \in 0..NPROC : CurTotal(st, tk, q) = P(q)
  <2> SUFFICES ASSUME NEW q \in 0..NPROC PROVE CurTotal(st, tk, q) = P(q)
    OBVIOUS
  <2>1. P(q) \in Nat /\ P(NPROC) \in Nat /\ P(q) <= P(NPROC)
    BY <1>1, <1>2
  <2>2. RAND_MAX \in Int
    BY Widths
  <2>3. P(q) <= RAND_MAX
    BY <2>1, <2>2
  <2> QED
    BY <2>1, <2>3, WrappedIs DEF CurTotal
<1>4. RunnableUpTo(st, p - 1) \in SUBSET Nat /\ \A q \in RunnableUpTo(st, p - 1) : q <= p - 1 /\ q \in 0..NPROC /\ q \in 0..(p - 1)
  BY <1>1 DEF RunnableUpTo
<1>5. ASSUME \A q \in RunnableUpTo(st, p - 1) : P(q) <= w PROVE P(p - 1) <= w
  <2>1. CASE RunnableUpTo(st, p - 1) = {}
    <3>1. RunnableUpTo(st, 0) = {} /\ 0 \in 0..NPROC
      BY <1>1 DEF RunnableUpTo
    <3>2. P(p - 1) = P(0) /\ P(0) = 0
      BY <1>2, <2>1, <3>1 DEF HeldUpTo
    <3> QED
      BY <3>2
  <2>2. CASE RunnableUpTo(st, p - 1) # {}
    <3>1. PICK q \in RunnableUpTo(st, p - 1) : \A r \in RunnableUpTo(st, p - 1) : r <= q
      <4>1. p - 1 \in Nat
        BY <1>1
      <4> QED
        BY <1>4, <2>2, <4>1, GreatestElement
    <3>2. RunnableUpTo(st, q) = RunnableUpTo(st, p - 1)
      BY <1>1, <3>1 DEF RunnableUpTo
    <3>3. P(q) = P(p - 1)
      BY <3>2 DEF HeldUpTo
    <3> QED
      BY <1>5, <3>1, <3>3
  <2> QED
    BY <2>1, <2>2
<1>6. ASSUME P(p - 1) <= w PROVE \A q \in RunnableUpTo(st, p - 1) : P(q) <= w
  <2> SUFFICES ASSUME NEW q \in RunnableUpTo(st, p - 1) PROVE P(q) <= w
    OBVIOUS
  <2>1. P(q) \in Nat /\ P(p - 1) \in Nat /\ P(q) <= P(p - 1)
    BY <1>1, <1>2, <1>4
  <2> QED
    BY <1>6, <2>1
<1>7. P(p) \in Nat
  BY <1>1, <1>2
<1>8. P(p) > w <=> w + 1 <= P(p)
  <2> HIDE DEF P
  <2> QED
    BY <1>7
<1>9. IsWinner(st, tk, p, w) <=> /\ st[p] = "RUNNABLE" /\ P(p) > w
                                 /\ \A q \in RunnableUpTo(st, p - 1) : P(q) <= w
  BY <1>1, <1>3, <1>4 DEF IsWinner
<1> QED
  BY <1>5, <1>6, <1>8, <1>9

(* scheduler(): of the accepted raw values, those that make slot p win are *)
(* one bin for each of its tickets.                                        *)
LEMMA Share ==
    ASSUME NEW st, NEW tk, Table(st, tk), HeldUpTo(st, tk, NPROC) <= RAND_MAX, NEW p \in Procs
    PROVE  LET max == getRunnableProcTickets(st, tk)
           IN  Cardinality({x \in Accepted(max) : IsWinner(st, tk, p, Bin(max, x))})
                 = IF st[p] = "RUNNABLE" THEN tk[p] * BinSize(max) ELSE 0
<1> DEFINE max == getRunnableProcTickets(st, tk)
           b == BinSize(max)
           lo == HeldUpTo(st, tk, p - 1)
           hi == HeldUpTo(st, tk, p)
           all == HeldUpTo(st, tk, NPROC)
           won == {x \in Accepted(max) : IsWinner(st, tk, p, Bin(max, x))}
<1>1. NPROC \in Nat /\ NPROC \in 0..NPROC /\ p \in Nat /\ p \in 0..NPROC /\ p - 1 \in 0..NPROC /\ p > 0 /\ p \in 0..NPROC
  BY NPROCAssumption DEF Procs
<1>2. lo \in Nat /\ hi \in Nat /\ all \in Nat /\ hi <= all /\ tk[p] \in Nat
      /\ (st[p] = "RUNNABLE" => hi = tk[p] + lo)
  BY <1>1, Prefix DEF Table
<1>3. max = all /\ max \in 0..RAND_MAX
  <2>1. max = Wrapped(all)
    BY DEF getRunnableProcTickets, CurTotal
  <2>2. RAND_MAX \in Int
    BY Widths
  <2> HIDE DEF all, max
  <2> QED
    BY <1>2, <2>1, <2>2, WrappedIs DEF all
<1>4. b \in Nat \ {0} /\ Accepted(max) = 0..((max + 1) * b - 1)
  <2> HIDE DEF max
  <2> QED
    BY <1>3, AcceptedInRange
<1>5. CASE st[p] # "RUNNABLE"
  <2>1. won = {}
    BY <1>5 DEF IsWinner
  <2> QED
    BY <1>5, <2>1, FS_EmptySet
<1>6. CASE st[p] = "RUNNABLE"
  <2>1. hi * b <= (max + 1) * b /\ lo * b \in Nat /\ hi * b \in Nat /\ (max + 1) * b \in Nat
        /\ hi * b = tk[p] * b + lo * b /\ tk[p] * b \in Nat
    <3>1. hi <= max + 1 /\ hi = tk[p] + lo
      BY <1>2, <1>3, <1>6
    <3> HIDE DEF hi, lo, max, b
    <3>2. max \in Nat
      BY <1>3, Widths
    <3>3. hi * b <= (max + 1) * b
      BY <1>2, <1>4, <3>1, <3>2
    <3>4. (tk[p] + lo) * b = tk[p] * b + lo * b
      BY <1>2, <1>4
    <3>5. \A k \in Nat : k * b \in Nat
      BY <1>4
    <3>6. lo * b \in Nat /\ hi * b \in Nat /\ tk[p] * b \in Nat /\ (max + 1) * b \in Nat
      BY <1>2, <3>2, <3>5
    <3>7. hi * b = tk[p] * b + lo * b
      BY <3>1, <3>4
    <3> QED
      BY <3>3, <3>6, <3>7
  <2>2. won = (lo * b)..(hi * b - 1)
    <3>1. ASSUME NEW x \in Nat
          PROVE  IsWinner(st, tk, p, Bin(max, x)) <=> lo * b <= x /\ ~(hi * b <= x)
      <4>1. x \div b \in Nat /\ Bin(max, x) = x \div b
        BY <1>4, Division DEF Bin
      <4>2. IsWinner(st, tk, p, x \div b) <=> lo <= x \div b /\ (x \div b) + 1 <= hi
        BY <1>6, <4>1, WinnerIs
      <4>3. (lo <= x \div b <=> lo * b <= x) /\ (hi <= x \div b <=> hi * b <= x)
        <5> HIDE DEF hi, lo, b
        <5> QED
          BY <1>2, <1>4, QuotientBetween
      <4>4. (x \div b) + 1 <= hi <=> ~(hi <= x \div b)
        <5> DEFINE y == x \div b
        <5>1. y \in Nat
          BY <4>1
        <5> HIDE DEF y, hi
        <5>2. y + 1 <= hi <=> ~(hi <= y)
          BY <1>2, <5>1
        <5> QED
          BY <5>2 DEF y
      <4> QED
        BY <4>1, <4>2, <4>3, <4>4
    <3>2. won = {x \in 0..((max + 1) * b - 1) : lo * b <= x /\ ~(hi * b <= x)}
      <4>1. \A x \in 0..((max + 1) * b - 1) : x \in Nat
        OBVIOUS
      <4>2. \A x \in 0..((max + 1) * b - 1) : IsWinner(st, tk, p, Bin(max, x)) <=> lo * b <= x /\ ~(hi * b <= x)
        BY <3>1, <4>1
      <4> QED
        BY <1>4, <4>2
    <3> DEFINE u == lo * b
               v == hi * b
               size == (max + 1) * b
    <3>3. {x \in 0..(size - 1) : u <= x /\ ~(v <= x)} = u..(v - 1)
      <4>1. u \in Nat /\ v \in Nat /\ size \in Nat /\ v <= size
        BY <2>1
      <4> HIDE DEF u, v, size
      <4> QED
        BY <4>1
    <3> QED
      BY <3>2, <3>3
  <2>3. Cardinality((lo * b)..(hi * b - 1)) = tk[p] * b
    <3> DEFINE u == lo * b
               v == hi * b
               t == tk[p] * b
    <3>1. u \in Nat /\ v \in Nat /\ t \in Nat /\ v = t + u
      BY <2>1
    <3> HIDE DEF u, v, t
    <3>2. Cardinality(u..(v - 1)) = IF u > v - 1 THEN 0 ELSE (v - 1) - u + 1
      BY <3>1, FS_Interval
    <3>3. Cardinality(u..(v - 1)) = t
      BY <3>1, <3>2
    <3> QED
      BY <3>3 DEF u, v, t
  <2> QED
    BY <1>6, <2>2, <2>3
<1> QED
  BY <1>5, <1>6

(* scheduler(): the spare ticket has no holder, every other one exactly    *)
(* one.                                                                    *)
LEMMA OneHolder ==
    ASSUME NEW st, NEW tk, Table(st, tk), HeldUpTo(st, tk, NPROC) <= RAND_MAX,
           NEW w \in random_at_most(getRunnableProcTickets(st, tk))
    PROVE  /\ w = getRunnableProcTickets(st, tk) => \A p \in Procs : ~IsWinner(st, tk, p, w)
           /\ w # getRunnableProcTickets(st, tk)
                => \E p \in Procs : \A q \in Procs : IsWinner(st, tk, q, w) <=> q = p
<1> DEFINE P(q) == HeldUpTo(st, tk, q)
           max == getRunnableProcTickets(st, tk)
<1>1. NPROC \in Nat /\ NPROC \in 0..NPROC /\ 0 \in 0..NPROC
  BY NPROCAssumption
<1>2. \A q \in 0..NPROC : P(q) \in Nat /\ (q = 0 => P(q) = 0) /\ \A r \in 0..q : P(r) <= P(q)
  BY Prefix
<1>3. max = P(NPROC) /\ max \in 0..RAND_MAX /\ max \in Nat
  <2>1. max = Wrapped(P(NPROC))
    BY DEF getRunnableProcTickets, CurTotal
  <2>2. RAND_MAX \in Int
    BY Widths
  <2>3. P(NPROC) \in Nat /\ P(NPROC) <= RAND_MAX
    BY <1>1, <1>2
  <2> HIDE DEF P, max
  <2> QED
    BY <2>1, <2>2, <2>3, WrappedIs
<1>4. w \in Nat /\ w <= max
  <2>1. PICK x \in Accepted(max) : w = Bin(max, x)
    BY DEF random_at_most
  <2> DEFINE b == BinSize(max)
  <2>2. b \in Nat \ {0} /\ x \in Nat /\ x <= (max + 1) * b - 1 /\ (max + 1) * b \in Nat
    BY <1>3, <2>1, AcceptedInRange
  <2>3. w = x \div b /\ w \in Nat
    BY <2>1, <2>2, Division DEF Bin
  <2>4. max + 1 <= x \div b <=> (max + 1) * b <= x
    <3>1. max + 1 \in Nat
      BY <1>3
    <3> HIDE DEF max, b
    <3> QED
      BY <2>2, <3>1, QuotientBetween
  <2> HIDE DEF max, b
  <2>5. ~((max + 1) * b <= x)
    BY <2>2
  <2>6. ~(max + 1 <= w)
    BY <2>3, <2>4, <2>5
  <2> QED
    BY <1>3, <2>3, <2>6
<1>5. \A p \in Procs : IsWinner(st, tk, p, w)
         <=> st[p] = "RUNNABLE" /\ P(p - 1) <= w /\ w + 1 <= P(p)
  BY <1>4, WinnerIs
<1>6. ASSUME w = max, NEW p \in Procs PROVE ~IsWinner(st, tk, p, w)
  <2>1. p \in 0..NPROC
    BY <1>1 DEF Procs
  <2>2. P(p) \in Nat /\ P(p) <= P(NPROC)
    BY <1>1, <1>2, <2>1
  <2>3. P(p) <= w
    BY <1>3, <1>6, <2>2
  <2>4. ~(w + 1 <= P(p))
    <3> HIDE DEF P
    <3> QED
      BY <1>4, <2>2, <2>3
  <2> QED
    BY <1>5, <2>4
<1>7. ASSUME w # max PROVE \E p \in Procs : \A q \in Procs : IsWinner(st, tk, q, w) <=> q = p
  <2> DEFINE T == {q \in Nat : q \in 0..NPROC /\ w + 1 <= P(q)}
  <2>1. NPROC \in T
    <3>1. w + 1 <= max
      BY <1>3, <1>4, <1>7
    <3> QED
      BY <1>1, <1>3, <3>1
  <2>2. PICK p \in T : \A q \in T : p <= q
    <3>1. T \in SUBSET Nat /\ T # {}
      BY <2>1
    <3> HIDE DEF T
    <3> QED
      BY <3>1, LeastElement
  <2>3. p \in 0..NPROC /\ w + 1 <= P(p)
    BY <2>2
  <2>4. p # 0
    <3> SUFFICES ASSUME p = 0 PROVE FALSE
      OBVIOUS
    <3>1. P(p) = 0
      BY <1>2, <2>3
    <3> QED
      BY <1>4, <2>3, <3>1
  <2>5. p \in Procs /\ p - 1 \in 0..NPROC /\ p - 1 \in Nat /\ ~(p <= p - 1)
    BY <1>1, <2>3, <2>4 DEF Procs
  <2>6. P(p - 1) <= w
    <3>1. p - 1 \notin T
      <4> HIDE DEF T
      <4> QED
        BY <2>2, <2>5
    <3>2. ~(w + 1 <= P(p - 1)) /\ P(p - 1) \in Nat
      BY <1>2, <2>5, <3>1
    <3> HIDE DEF P
    <3> QED
      BY <1>4, <3>2
  <2>7. st[p] = "RUNNABLE"
    <3> SUFFICES ASSUME st[p] # "RUNNABLE" PROVE FALSE
      OBVIOUS
    <3>1. RunnableUpTo(st, p) = RunnableUpTo(st, p - 1)
      BY <1>1, <2>5 DEF RunnableUpTo, Procs
    <3>2. P(p) = P(p - 1) /\ P(p) \in Nat
      BY <1>2, <2>3, <3>1 DEF HeldUpTo
    <3> HIDE DEF P
    <3> QED
      BY <1>4, <2>3, <2>6, <3>2
  <2>8. IsWinner(st, tk, p, w)
    BY <1>5, <2>3, <2>5, <2>6, <2>7
  <2>9. ASSUME NEW q \in Procs, q # p, IsWinner(st, tk, q, w) PROVE FALSE
    <3>1. P(q - 1) <= w /\ w + 1 <= P(q) /\ q \in 0..NPROC /\ q - 1 \in 0..NPROC
      BY <1>1, <1>5, <2>9 DEF Procs
    <3>2. CASE q < p
      <4>1. q \in 0..(p - 1) /\ P(q) \in Nat /\ P(p - 1) \in Nat
        BY <1>1, <1>2, <2>5, <3>1, <3>2 DEF Procs
      <4>2. P(q) <= P(p - 1)
        BY <1>2, <2>5, <4>1
      <4> HIDE DEF P
      <4> QED
        BY <1>4, <2>6, <3>1, <4>1, <4>2
    <3>3. CASE p < q
      <4>1. p \in 0..(q - 1) /\ P(p) \in Nat /\ P(q - 1) \in Nat
        BY <1>1, <1>2, <2>3, <2>5, <3>1, <3>3 DEF Procs
      <4>2. P(p) <= P(q - 1)
        BY <1>2, <3>1, <4>1
      <4> HIDE DEF P
      <4> QED
        BY <1>4, <2>3, <3>1, <4>1, <4>2
    <3> QED
      BY <1>1, <2>5, <2>9, <3>2, <3>3 DEF Procs
  <2> QED
    BY <2>5, <2>8, <2>9
<1> QED
  BY <1>6, <1>7

(* scheduler() and random_at_most: on every table that fork, settickets    *)
(* and the scheduler can make, the draw ends unless the int sum of the     *)
(* tickets is negative, and if the sum is an int each runnable process     *)
(* wins in exact proportion to its tickets, and each ticket but the total  *)
(* makes exactly one win.                                                  *)
THEOREM LotteryIsFair == Spec => []DrawIsFair
<1>1. IInv => DrawIsFair
  <2> SUFFICES ASSUME IInv PROVE DrawIsFair
    OBVIOUS
  <2> DEFINE all == HeldUpTo(state, ticket, NPROC)
             max == getRunnableProcTickets(state, ticket)
  <2>1. Table(state, ticket)
    BY DEF IInv, TypeOK, Table
  <2>2. all \in Nat
    <3>1. NPROC \in 0..NPROC
      BY NPROCAssumption
    <3> QED
      BY <2>1, <3>1, Prefix
  <2>3. max = Wrapped(all)
    BY DEF getRunnableProcTickets, CurTotal
  <2>4. Accepted(max) # {} <=> all % 2^WordBits <= RAND_MAX
    <3> HIDE DEF all, max
    <3>1. CASE all % 2^WordBits <= RAND_MAX
      <4>1. max \in 0..RAND_MAX
        BY <2>2, <2>3, <3>1, WrappedIs
      <4>2. 0 \in 0..((max + 1) * BinSize(max) - 1)
        BY <4>1, AcceptedInRange
      <4> QED
        BY <3>1, <4>1, <4>2, AcceptedInRange
    <3>2. CASE ~(all % 2^WordBits <= RAND_MAX)
      BY <2>2, <2>3, <3>2, WrappedIs, AcceptedNegative
    <3> QED
      BY <3>1, <3>2
  <2>5. ASSUME all <= RAND_MAX, NEW p \in Procs
        PROVE  Cardinality({x \in Accepted(max) : IsWinner(state, ticket, p, Bin(max, x))})
                 = IF state[p] = "RUNNABLE" THEN ticket[p] * BinSize(max) ELSE 0
    BY <2>1, <2>5, Share
  <2>6. Total = max /\ \A p \in Procs : \A w : p \in WinnersOf(w) <=> IsWinner(state, ticket, p, w)
    BY DEF Total, WinnersOf
  <2>7. DrawEndsUnlessNegative
    <3> HIDE DEF all, max
    <3> QED
      BY <2>4, <2>6 DEF DrawEndsUnlessNegative, all
  <2>8. ProportionalShare
    <3> HIDE DEF all, max
    <3>1. SUFFICES ASSUME all <= RAND_MAX, NEW p \in Procs
                   PROVE  Cardinality({x \in Accepted(max) : p \in WinnersOf(Bin(max, x))})
                            = IF state[p] = "RUNNABLE" THEN ticket[p] * BinSize(max) ELSE 0
      BY <2>6 DEF ProportionalShare, TotalFits, all
    <3>2. {x \in Accepted(max) : p \in WinnersOf(Bin(max, x))}
            = {x \in Accepted(max) : IsWinner(state, ticket, p, Bin(max, x))}
      BY <2>6, <3>1
    <3> QED
      BY <2>5, <3>1, <3>2
  <2>9. TicketHasHolder
    BY <2>1, OneHolder DEF TicketHasHolder, TotalFits, Total, WinnersOf
  <2> QED
    BY <2>7, <2>8, <2>9 DEF DrawIsFair
<1> QED
  BY <1>1, Invariance, PTL
=============================================================================
