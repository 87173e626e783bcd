# TLA+ models of the operating-system assignments

The repository holds four assignments: a shell script (Offline 1), a
multi-threaded airport simulation (Offline 2), and two versions of the xv6
kernel, one with a lottery scheduler (Offline 3), one with demand paging to a
swap file per process (Offline 4).  This directory models them, from the
process table down to the disk driver and up to the shell, checks the models
with TLC and proves the main properties of the process table, paging, the swap
files, the log, the block layer, the airport and the console with TLAPS.

## 1. Inventory

| Part | State | Operations | Talks to | Hard about it |
|---|---|---|---|---|
| Airport (`code.cpp`) | kiosk queue and semaphore, belt semaphores, `L_to_R`, `R_to_L`, `VIP_lane_lock` | check-in, security, lane both ways, special kiosk, boarding; broadcaster | threads share all of it | one counter under two mutexes, a flag used as a lock, polling for wakeups |
| Lottery (`rand.c`, `scheduler`) | tickets, states | total, draw, search of the winner | process table | off-by-one of the draw, bias, overflow |
| Process table (`proc.c`, `trap.c`, `sysproc.c`, `init.c`) | `ptable`, `ticks`, per-CPU process | fork, exit, wait, kill, sleep, wakeup, yield, settickets, timer | every other part sleeps and wakes through it | several CPUs, interrupts, locks handed over through swtch, slots and pids reused |
| Paging (Offline 4 `vm.c`, `trap.c`, `fs.c`) | page table, `pagesInPhysicalMemory`, `pagesInDisc`, swap file, `timer`, ages | allocuvm, deallocuvm, retrievePage, replacement, ageing | process table, file system | four tables that must agree, limits, lookups by stale addresses |
| Swap files over fork, exec, exit, wait (Offline 4) | swap files, metadata, directories, the static `buffer` | copy, recreate, remove, free | paging, file system | partial copies, a buffer shared across a sleep, one process editing for another |
| Virtual memory (`kalloc.c`, `vm.c`, `exec.c`, `syscall.c`) | free list, page tables, sizes | sbrk, fork, exec, exit, wait, argument checks | process table | failure in the middle, rounding, addresses from user code |
| Log (`log.c`) | header, log blocks, `log.lh`, `outstanding`, `committing` | begin_op, log_write, end_op, commit, recovery | buffer cache, all of `fs.c` | crashes, overlapping operations, tests outside the lock |
| Buffer cache, disk driver, sleep locks (`bio.c`, `ide.c`, `sleeplock.c`) | LRU list, flags, `refcnt`, lock holder, request queue | bget, bread, bwrite, brelse, iderw, ideintr | log, interrupts | pinning, uniqueness, sleep against interrupt |
| Inodes, files, directories (`fs.c`, `file.c`, `sysfile.c`) | disk inodes, bitmap, inode cache, file table, descriptors, current directories | the file system calls | log, buffer cache | references, link counts, lock order, error paths |
| Pipes and the shell (`pipe.c`, `sh.c`) | rings, descriptors, command trees | parse, run; read, write, close, kill | process table, files | wakeups, end of file, wrapping counters |
| Console, keyboard (`console.c`, `kbd.c`) | input ring, shift state | interrupt, read | interrupts, process table | three indices in one ring, prefixed codes |
| User library and programs (`umalloc.c`, `ulib.c`, `printf.c`, `grep.c`, `wc.c`) | free list; buffers | malloc, free; matching, counting, moving | sbrk, files | boundaries |
| Boot, hardware, assembly, serial line, the shell script | | | | hardware set-up or pure I/O: not modelled |

What makes each correct: for the airport, that everybody boards and the lane
is used in one direction at a time; for the lottery, proportional shares; for
the process table, that nobody runs twice, sleeps for ever or is forgotten; for
memory, that a page has one use and keeps its bytes; for the log, that a crash
leaves whole operations; for the block layer, one copy of a block and no lost
request; for the file system, exact counts of references, links and blocks; for
the shell, that a line does what it says and the prompt comes back.
`PROJECT.json` lists every hazard with its line and the properties about it.

## 2. Modules

* `Lottery`: operators for `random_at_most` (bins, defect, rejection), the
  ticket total with the width of `int` as `WordBits`, and the winner search.
  `genrand` is any raw value.  `LotteryTable` has the two columns of the table
  it reads and states what a draw from them must be, over all raw values.
* `ProcTable`: the process table on `NCPU` CPUs, built on `LotteryTable`.  `pc[p]`
  says where process p is in the kernel (or `user`); a step is one critical
  section of `ptable.lock` or `tickslock`, or the unlocked code between two.
  `scheduler(c, p)` is the draw and the switch to p, `sched` the way back;
  a process that waits for a lock simply does not step.  fork is three steps
  (the slot; the copy, tickets and parent, or the failure; RUNNABLE), because
  the code between its critical sections runs without the lock.  The timer's
  `ticks++` and `wakeup(&ticks)` are one section of `tickslock` made of two
  steps.  `MCProcTable` gives the ticket arguments.
* `Paging`: one process of Offline 4, with three replacement algorithms as a
  build choice (`R_ALGO`).  Contents are abstracted to whose bytes they are.
* `Swap`: several processes of Offline 4 with their directories, tables and
  swap files.  A file is a sequence of half pages, because fork copies halves;
  the victim of an eviction is any resident page.  A fault with RAM full is
  two steps, around the read into the static `buffer`.
* `VirtualMemory`: physical pages, directories and tables of the lottery
  kernel.  The operators are vm.c's functions on a record (free list, memory,
  directory, success, panic), so that every failing `kalloc` leaves what the
  code leaves; a system call is one action, since processes share only the
  free list.
* `Airport`: the passengers' threads and the broadcaster.  `L_to_R++` and
  `L_to_R--` are a load and a store because the code guards them with two
  different mutexes; everything else guarded by one lock is one step.
* `Log`: the log over an abstract buffer cache and disk; a disk write is a
  step, and a crash may come between any two.  `log_write`'s tests are a
  step before its critical section.  `AtomicDisk` is what the log promises:
  operations change the blocks at once, durability moves only when no
  operation is in progress, a crash goes back to the last such moment.
  `Log` refines it (`LogIsAtomic`): `stable` is what recovery would make of
  the disk, `volatile` is the cache over the home blocks, or, until recovery
  has ended, again what recovery would make of the disk.
* `BlockIO`: buffers with their LRU list, sleep locks, the driver's queue and
  the disk.  A step ends where the code releases a spin lock or sleeps.
* `FileSys`: the state of the file system (disk inodes, bitmap, inode cache)
  as one record and the functions of `fs.c` as operators on it; file contents
  are cells that hold a name and a number, so directories are files, as on
  disk.  `Mkfs` is the image mkfs makes.  `SysFile` adds processes,
  descriptors and inode locks: a system call is a walk of one step per
  directory, then the steps between its lock operations.  `UserTests` holds
  the tests of `usertests.c` and small programs as sequences of calls with the
  result each must have; `MCUserTests` the ones TLC runs, alone and in pairs.
* `Pipe`: one pipe as a record; an operation up to its return or sleep is one
  operator.  `ShellParser`: the parser over tokens, and the same language
  defined by splitting the line.  `Shell` composes them: `runcmd` gives the
  calls each process of a command makes, and the actions run them over
  descriptors, pipes, fork, wait, exit and kill.  `MCShell` has the lines.
* `Console` and `Keyboard`: the input ring and the shift state.  `LineEditor`
  is what the console promises; the ring refines it (`ConsoleIsLineEditor`).
* `UMalloc`: the free list by addresses.  `TextTools`: grep's matcher and its
  loop, wc, and library functions, each with a reference definition.
* `MCUnits`: every table of the lottery, `Paging`, `Console`, `Keyboard`,
  `UMalloc`, `VirtualMemory`, `Swap`, the parser and `TextTools`, which share
  no state in these models, in one run: the initial state chooses one of them,
  and only its variables change.

* `ProcTableProofs`, `PagingProofs`, `LogProofs`, `BlockIOProofs`,
  `AirportProofs`, `ConsoleProofs`, `SwapProofs`: the theorems about the modules they are
  named for, with their inductive invariants.  `SetLemmas`: a nonempty set of
  naturals has a least element, a bounded one a greatest (needed wherever the
  code searches), a nonempty family of finite sets a minimal one (induction
  over finite sets), and what sums over finite sets are.

Definitions starting with `M_` are faulty variants of the definition after
them.  They take part in no specification; putting one in the place of the
real definition shows that a property notices that fault.

## 3. Runs

| Run | Module, configuration | Bounds | Shows |
|---|---|---|---|
| `proc_smp` | `MCProcTable`, `MCProcTableSMP` | 3 slots, 2 CPUs, pids to 3, clock below its wrap | the invariants of the table, the life cycle of a slot with who takes each step, no lost tick for sys_sleep, no time charged twice |
| `proc_kill` | `MCProcTable`, `MCProcTableKill` | 3 slots, pids to 4, kill of pid 3 | violated: a process that nobody killed by its pid is born killed |
| `proc_live` | `MCProcTable`, `MCProcTableLive` | 3 slots, 1 CPU | killed processes exit, orphans are reaped |
| `swap_fork` | `Swap`, `MCSwapFork` | 2 processes, 2 RAM and 2 swap pages each | violated: a forked child does not find its parent's pages in its swap file |
| `airport` | `Airport`, `MCAirport` | 3 passengers, 2 kiosks, 1 belt | the counts, the kiosks, the lane's lock; everybody boards unless an update was lost |
| `airport_lane` | `Airport`, `MCAirportLane` | 2 passengers | violated: two people meet in the lane |
| `log` | `Log`, `MCLog` | 2 processes, 3 blocks, 2 values, 2 blocks per operation | the log is an atomic disk, also over crashes in recovery |
| `disk` | `BlockIO`, `MCBlockIO` | 2 processes, 3 blocks, 2 buffers, 1 pinned | one copy of a block, the last write is read, the queue matches the waiters, requests and lock waits end |
| `files` | `MCUserTests`, `MCUserTests` | up to 3 processes, 6 cached inodes, 4 open files, 2 direct and 4 indirect blocks | references, links and blocks are exact, the cache is write-through, locks are given back, no call returns what its test does not expect, and every script ends unless it waits for a circle of inode locks through iput |
| `linkunlink` | `MCUserTests`, `MCLinkUnlink` | 2 processes of the test `linkunlink` | violated: create and link or unlink wait for each other's inodes for ever |
| `shell` | `MCShell`, `MCShell` | 6 processes, 2 pipes of 2 bytes with counters modulo 6, 12 scenarios | pipes are FIFOs, nobody sleeps without a reason, the output is what the line means, the shell returns |
| `units` | `MCUnits`, `MCUnits` | below | the components of `MCUnits` |

The instances in `units`: the draw has 3 slots, 7 ticket values and 6-bit
words, so that sums overflow, into the negative numbers and past them; the ring has 3 characters, indices modulo 6 and
2 readers; the keyboard has a letter, both Ctrl and Shift keys, one Alt, Caps
Lock and an arrow key; malloc has 12 units of heap in steps of at least 4 and
three sizes in bytes, at and beyond the ends of units; memory has 14 physical pages for up to 3 processes of up to 4
pages, so that every call can fail in each of its allocations; paging has 3 RAM pages,
2 swap pages and 6 virtual pages, under each of the 3 algorithms, and grows by
one and two pages; swap is as in `swap_fork`; the algorithms run over all strings of up to 4 to 6 characters of
small alphabets, the 256 values of an 8-bit int, and all overlaps of regions
of up to 3 bytes.

A run's properties are often conjunctions of parts that have a name and a
comment of their own in their modules, and the rest of this document speaks of
the parts:

| Property | Parts |
|---|---|
| `BytesFound` | `BytesKept`, `SearchFindsOwnSlot` |
| `LaneExact` | `LtoRCounts`, `LockHasWalker` |
| `BuffersExact` | `OneBufferPerBlock`, `NoBufferLeaked` |
| `SleepersWoken` | `RequestCompletes`, `LockWakesWaiter` |
| `CountsExact` | `ReferencesExact`, `LinksExact` |
| `DiskConsistent` | `BlocksOwnedOnce`, `CacheMatchesDisk` |
| `ResultsAsTested` | the expected results, no panic, `LocksReleased` |
| `PipesExact` | `Fifo`, `EndsMatchDescriptors` |
| `DrawIsFair` | `DrawEndsUnlessNegative`, `ProportionalShare`, `TicketHasHolder` |
| `InputGoesOn` | `IndicesOrdered`, `SleepsOnlyIfEmpty` |
| `HeapExact` | `HeapPartitioned`, `FreeBlocksJoined` |
| `MemoryExact` | `FramesExact`, `SizeMatchesPages`, `BytesPrivate`, `ArgumentsMapped`, `NoPanic`, `MemoryTestsPass` |
| `SwapPrivate` | `SwapFilesOwned`, `TablesOwn`, `WrongBytesExplained` |
| `ToolsAgree` | the parser, grep's matcher and loop, wc, memmove, directory names and printed integers against their reference definitions |

Why the bounds are enough for the cases that matter.  Three slots give init,
a parent and a child, so that reparenting, slot reuse and a fork next to an
exit happen; two CPUs give every pairwise race (the table is under one lock).
Pids are not reused by the code either; the bound `MaxPid` only ends forking,
which means that starvation of the orphans by endless forking is not seen.
Three RAM pages are the smallest an image needs, and six virtual pages
overrun RAM and swap file together.  Three passengers are two against one in
the lane.  With `MAXOPBLOCKS` 4, `LOGSIZE` and `nlog` 8 the reservation lets
two operations overlap, as it lets three in the code, and operations write
at most two of the four blocks they reserve, as the code's leave some (see 6).
The ages of `Paging` have two bits (`AgeTop` 2), so that counters saturate.
The bound on `ticks` in `proc_smp` (`TicksBelowWrap`) keeps the clock below its
wrap; in the other runs of the table `TickMod` is 1, so the clock does not tell
states apart.
With two buffers for three blocks, recycling happens while another process
wants the block that goes.  The file system's limits are just above what each
test needs, so that files get indirect blocks, directories get a second block,
and tables fill up.  A pipe of two bytes is shorter than every longer write of
the scenarios, so writers sleep in the middle and the counters wrap.  In `Swap`
pid 3 is the first that has a swap file, and a process of three pages has one
more than its RAM.

`CHECK_DEADLOCK FALSE` stands where behaviours end: in `Airport` (a lost update
of `L_to_R` can really leave everybody waiting), `Shell` (all scripts done),
`BlockIO` (a panic), `Swap` and `MCUnits` (bounds, a process that was killed, a
panic, an algorithm's single input).  `SysFile` is checked for deadlock: where nobody
can go on its scheduler idles (`Idling`), and the check shows that otherwise
somebody has a step, which is what its fairness relies on.

## 4. Fairness

`ProcTable`'s `FairSpec`: each process's kernel steps and the timer are fair,
because a quantum is far longer than a system call; each RUNNABLE process is
chosen infinitely often if it is RUNNABLE infinitely often (strong fairness of
the draw), which holds with probability 1 since its tickets are positive
(`TypeOK`) and each of them can be drawn (`ProportionalShare`); init, once it returns, calls wait() again, as its
loop in `init.c` does.  User code is not fair: it may never make a call, and
`KilledExits` holds nevertheless, through the timer.

`Airport`'s `FairSpec`: weak fairness of each thread and of the two halves of
the broadcaster's loop.  The mutexes are not served in order, but the threads
are finitely many and each passes a mutex a bounded number of times, so a
waiter gets in.

`BlockIO`'s `FairSpec`: the disk answers, a process that is not asleep gets a
CPU, and a holder of a buffer comes to its brelse after finitely many writes,
as every caller of bread does (strong fairness of the release, because writes
may come in between).  Nothing is assumed of who gets a free lock: a waiter is
promised its wakeup (`LockWakesWaiter`), not the lock.

`SysFile`'s `FairSpec`: steps are taken as long as a process can go on
(`CanGoOn`: its script is not over and it waits neither for an inode's lock nor
for a child).  Scripts are finite, so who goes first does not matter.  This is
weak fairness of `Next` with the condition for a step written out.

`Shell`: weak fairness of each process, which the scheduler gives; kills are
not fair.  `ShellReturns` holds also when a kill or a failed fork takes any
process of the line.

## 5. Proofs

What TLC shows on small instances is proved here for every value of the
constants that the named assumptions allow.  Each proof module states an
inductive invariant `IInv`, proves that `Init` implies it and that every action
keeps it (one lemma per action, or per part of the invariant where many actions
touch few parts), and derives the properties from `Spec => []IInv`.  TLC has
checked each `IInv` on the run's instance.

| Module | Theorems (property of a run) | Assumes of the constants |
|---|---|---|
| `ProcTableProofs` | `TypeCorrect`, `OneCpu` (`OneCpuPerProc`), `NoExitLost` (`NoLostExit`), `ParentsLive` (`ParentIsLive`), `PidsAreUnique`, `EmbryosOwned` (`EmbryoOwned`), `LivesInOrder` (`LifeCycle`, an action property), `NoTickLost` (`NoLostTick`), `TicksAccounted` (`TicksCharged`, until the clock wraps), `LotteryIsFair` (`DrawIsFair`) | at least one slot and CPU, arguments in range, `2^WordBits` is twice `2^(WordBits - 1)` |
| `PagingProofs` | `TablesAlwaysAgree` (`TablesAgree`), `BytesAreFound` (`BytesFound`), `FatalWhenFull` (`FatalOnlyIfFull`) | at least three RAM slots and one swap slot, bounds that admit the initial image |
| `LogProofs` | `RoomForAll` (`ReservationHolds`), `OncePinned` (`LoggedOncePinned`), `LogImplementsAtomicDisk` (`LogIsAtomic`) | the slack of operations, below |
| `BlockIOProofs` | `CacheExact` (`BuffersExact`), `LastWriteRead` (`ReadsLastWrite`), `QueueMatches` (`QueueMatchesWaiters`) | finitely many processes and buffers, `None` is none of the values |
| `AirportProofs` | `KiosksReady` (`KioskReady`), `LaneIsExact` (`LaneExact`) | finitely many passengers, at least one kiosk, belt and place |
| `ConsoleProofs` | `InputNeverStuck` (`InputGoesOn`), `RingImplementsLineEditor` (`ConsoleIsLineEditor`) | `ConsoleConstants`: the ring's size divides the modulus of its indices and is smaller, newline and ^D are not letters |
| `SwapProofs` | `SwapIsPrivate` (`SwapPrivate`), `MisreadOnlyAfterExec` | finitely many slots and directories, more directories than slots, room for two pages |

Why the invariants are what they are.

*Process table.*  `NoLostExit` (nobody sleeps in wait() over a zombie child)
needs to know who the parents are during a fork: `NpParent` says that a child
has no parent before the second step of fork and the forking process after it;
`NpIsEmbryo`, `NpInjective` and `EmbryoHasFork` that a slot under construction
belongs to exactly one fork, so that neither allocproc nor exit nor wait
touches it.  `ParentIsLive` needs `SlotInv` (a free slot has no parent, init
has none, nobody is its own parent) and that init never exits.
`OneCpuPerProc` and `HoldersInv` tie the CPUs, the RUNNING states and the lock
holders together.  `PidsUnique` needs every pid below `nextpid`,
and so does the fresh pid in `LifeCycle`, which is read off each action: the
builder of a slot is known from `NpParent` and `NpIsEmbryo`, a woken parent
from what exit makes of the parents (`parent'`) in the same step.  `NoLostTick`
needs `SleeperHolds` and `TimerHolds`: who has decided to sleep still holds
`tickslock`, and so does the timer from `ticks++` to its wakeup.
`TicksCharged` compares two sums with the clock: a switch moves an amount from
what a CPU has not charged to what a process has (the width of the count can
only lose some of it), a tick adds at most one for each CPU.  It needs that no
process was switched to later than now, which the wrap of the clock would end.

*Lottery.*  `LotteryIsFair` is about the tables of `ProcTable`; all that it
needs of them is that tickets are positive (`TypeOK`).  The tickets of the
runnable slots up to slot p, `HeldUpTo`, never decrease with p, so the raw
values that make p win are those whose bin lies between two prefix sums
(`WinnerIs`): an interval of `ticket[p]` bins, each of which the rejection loop
leaves with the same size (`AcceptedInRange`, from the division lemmas).  Their
number is then the number of integers in an interval (`Share`).  The holder of
a ticket is the least slot whose prefix sum is above it (`OneHolder`).

*Paging.*  `Agree` says that five tables fit together: used RAM slots are of
present pages, one each; used swap slots are of pages that are out, with their
bytes, one each, and every page that is out has one; and a slot left behind
with an old address comes after the used one with that address.  The last part
is what makes retrievePage's search right although it does not look at
`isUsed`: allocation takes the first free slot, so an address that comes back
cannot come back behind its old slot.  It fails for page 0, the address of
cleared slots, which is the known exception.  `FileInv` (used slots lie within
the swap file) makes the first free slot writable, which `FatalOnlyIfFull`
needs, and timers of at least 1 are what LIFO needs to find a victim.  What
moving out, mapping, bringing in and freeing do is one lemma each about
`Agree`; the actions are combinations.

*Log.*  `ReservationHolds` counts claims: the blocks each operation may still
write, over all operations, fit behind those already in the log.
`LogSlackAssumption` (`LOGSIZE + OpBlocks + 1 < nlog + MAXOPBLOCKS`) says that
operations leave enough of their reservation to make up for the block that
`begin_op` counts and the log does not have; the code's numbers, 30, 7, 30 and
10, satisfy it.  `PhaseInv` says for each place in commit and recovery what
header, log blocks and home blocks hold, `CacheInv` which buffers may differ
from the disk, `OpsInv` that what an operation wrote is in the log but for the
block it holds.  From these each step maps to a step of `AtomicDisk` or leaves
its variables alone: `log_write` and the stores before it are the operation's
write, the write of the header is the moment durability moves, a crash goes
back to it.

*Block layer.*  `ReadsLastWrite` needs to know where the last contents of a
block are: in its valid buffer, and on disk unless that buffer is dirty
(`DataInv`), and that a buffer a process waits for or uses cannot be recycled
(`ProcInv`, `NoBufferLeaked`).  `QueueMatchesWaiters` needs `ActiveInv`, that
the request at the disk is the one made for the head of the queue.

*Airport.*  `KioskInv` counts: the semaphore and the places taken, the queue
and the passengers checking in, both make up all kiosks.  That the counters
stay in range although updates of `L_to_R` are lost is `BoundInv`: no thread
has loaded, and none stores, a value beyond the updates made so far.

*Console.*  Indices are compared as distances from `r`, modulo the width; the
ring's size divides it, so two characters less than a ring apart never share a
cell (`OwnCell`), and what the editor has as two sequences is read off the
ring by counting.  The invariant says that `r`, `w` and `e` come in this order
within one ring, that a full ring has been handed over, and that the line
being edited has no newline, which makes ^U, which stops at one, take back
exactly the line.

*Swap.*  `IdInv` says that processes, also dead ones not yet waited for, share
neither pids nor directories, which makes it one process's business what a
directory and a swap file hold.  `TablesInv` ties the tables of every process
to its page table: entries in memory are present, entries on disc are out, one
for each page, and a directory nobody uses is clear, so that fork and exec
build in an empty one.  `OrderInv` is the order of slots known from `Paging`:
the slot in use for an address comes before the cleared ones that still hold
it.  It survives an exec that fails although the pages of the half-built image
have been in the same table: page 0 was moved out before any page of the new
image, so its slot precedes theirs (`ZeroFirst`, `ZeroBefore`).  `BytesInv`
follows the bytes through memory, file and the static buffer; between the read
and the copy of a fault, the buffer of the sleeping process is right unless
another fault has used it, and that one is then recorded as the cause.  An
action changes one process, so most of each proof is about that one
(`Alone`, `TablesAlone`, `OrderAlone`, `BytesAlone`), and what evicting,
mapping and freeing do is a lemma each.

`MisreadOnlyAfterExec` sharpens what the runs show: a search that stops at a
cleared slot is never the first thing to go wrong.

Model-checked only: liveness and everything under fairness, which the prover
does not reach; `SysFile` with its tests, `Shell`, and of `MCUnits` the heap,
memory and the tools.  `ShellParser`, `TextTools`, `UMalloc` and what builds on
them use recursive operators.

## 6. What the models show about the code

Four statements of the sources are refuted by runs (`findings` in
`PROJECT.json`): the lane of the airport is not exclusive, fork does not give
the child its parent's swapped pages, the test `linkunlink`, written "to look
for deadlocks", can end in one (`NoDeadlock`; below under files), and kill
reaches processes that do not have the pid it was given (`KilledOnlyByPid`): a
fork that fails gives its slot back with the pid still in it, kill's scan does
not look at the state, and `allocproc` does not clear `killed`, so the next
process in the slot is born killed and exits at its first trap.  Other
departures are part of the models, and the properties say exactly how far they
reach:

* `kill(0)` marks a free slot in the same way.  `kill(1)` is not among the
  calls modelled: it makes init exit, which panics.
* The int sum of the tickets can wrap.  If it comes out negative,
  `random_at_most`, whose comment assumes `0 <= max`, never returns, with
  `ptable.lock` held; `DrawEndsUnlessNegative` says that this happens exactly
  then.  A sum that wraps past the negative numbers (three processes with
  `RAND_MAX` tickets each) ends the draw, but with shares that are not those of
  the tickets, so `ProportionalShare` is about sums that are an int.  Signed
  overflow is modelled as wrapping, which is what the kernel's build does.
* The README of Offline 3 gives a default of one ticket and says that
  `settickets` refuses numbers below 1; the code's default is 10 and
  `settickets(0)` means the default.
* Paging: the search of `retrievePage` ignores `isUsed`, so after a shrink
  page 0 may be read from a freed slot (`misread`, the only such case:
  `SearchFindsOwnSlot`); the limits are tested once per call of `allocuvm`, so
  one call may map pages that no table tracks; with both tables full a fault
  kills (`FatalOnlyIfFull`); a fault in kernel mode on a page that is out
  panics; `kalloc`'s result is not tested in `retrievePage` (the behaviour
  ends there as `undefined`); the guard page becomes accessible to user code
  when it comes back from the swap file.
* Swap: exec removes the file into which it may just have moved pages of the
  new image, two faults may meet in the static buffer, and a failed fork
  leaves its file behind.  `WrongBytesExplained` lists these and the two
  above as the only causes of wrong bytes, `SwapFilesOwned` the only files
  left.  A read from a cleared slot needs an exec that lost pages before it
  (`MisreadOnlyAfterExec`; `Swap` has no shrinking, the other way to get there).  An eviction during exec reads the victim through the old page table
  and may fault there (`panicked`).
* Airport: an update of `L_to_R` can be lost, after which nothing promises
  that everybody boards.
* Log: `begin_op` reserves against `LOGSIZE` (30) data blocks, but the log
  mkfs makes has 29 besides its header, and `log_write` tests that without the
  lock.  Operations of this file system write at most about 7 of the 10 blocks
  they reserve, and that slack is what keeps the test from failing
  (`OpBlocks` < `MAXOPBLOCKS` in the run).  A block write is taken to be
  atomic.
* Disk: `ideintr` marks a buffer valid although its read failed.
* Files: create and unlink drop the parent through an iput that takes its lock
  again while the child is locked; an unlink or link that has taken the
  parent in between waits for the child, and both wait for ever.  The run
  `linkunlink` shows it in that test of `usertests.c`; `TestsEnd` says that
  nobody hangs except behind such a circle, and `ResultsAsTested` that no call
  of any test returns a wrong result.  So every test passes in every
  interleaving that ends, and all end but these.  Two iputs of an unlinked inode that
  overlap may both see two references, and then nobody frees it: its blocks
  stay owned by a nameless inode (`BlocksOwnedOnce` still holds).  A name made
  in a directory that was removed meanwhile is lost (`fs.lost`).
* Pipes: a killed writer that has filled the pipe leaves without waking the
  reader; the reader is woken by the close that follows.
* malloc: `nbytes + 7` and `nu * sizeof(Header)` wrap for huge sizes, which no
  program asks for; `UMalloc` is about the sizes below.
* Memory: shrinking to size 0 frees everything and reports failure.
* grep: a read that ends within a line and brings no newline drops the line's
  start, which a pipe can cause; `GrepCorrect` is about files, whose reads fill
  the buffer.

## 7. Abstractions and what is not modelled

`Paging` starts as exec leaves the process, with the image in the first RAM
slots (exec leaves it in later ones; the numbering does not matter to FIFO
and LIFO, and only to ties in AGING).  `timer` and the ages are bounded.
Processes with pid 1 and 2 have no swap file and are not modelled.  In `Log`,
a process asleep in `begin_op` is one that has not begun; that every wakeup
comes is not checked there, and overlapping operations may put a commit off
for ever, in the code as in the model.  In `Airport`, thread creation is part of the wait
before the first step, spurious wakeups of condition variables only make a
thread test again, and printing is left out.

`BlockIO` and `Log` overlap in the buffer cache: `Log` has the contents over
crashes, `BlockIO` the references, locks and requests.  `FileSys` takes blocks
to be read and written in one piece, under the inode's lock, which `BlockIO`
justifies, and begin_op and end_op are no steps, which `Log` justifies.
`SysFile` leaves out reads and writes of devices and pipes, and `Shell` has
files that are only a sequence of what was written, or empty; a directory can
be opened there for reading, but no program reads it.  In `VirtualMemory`
addresses count half pages, a program has one segment at 0, and `kalloc` takes
the lowest free page, because which page it is makes no difference.  `Swap`
has no shrinking and leaves out init as a parent.  `Shell` has three programs
and words instead of characters; gettoken's scan of blanks is left out.  In
`Console` a key is one step and the process that was killed is replaced.

Not modelled: boot, interrupt controllers, the serial line and the screen,
assembly, the memory disk, the sorting script of Offline 1 (hardware set-up or
pure I/O); getpinfo and procdump, which copy or print the table; fetchstr;
the tests named in `PROJECT.json` under the test programs.

## 8. Plan

1. (done) `Lottery`, `ProcTable` and its proofs, `Paging`, `Airport`, `Log`.
2. (done) `Swap`, `VirtualMemory`, `BlockIO`, `FileSys` and `SysFile` with the
   tests, `Pipe` and `Shell`, `Console` and its line editor, `Keyboard`,
   `UMalloc`, `TextTools`.
3. (done) Proofs: the life cycle, the clock and the charged ticks of
   `ProcTable`; `Paging`; `Log` with its refinement; `BlockIO`; `Airport`;
   `Console` with its refinement; the fairness of the lottery; `Swap`.
4. Left: proofs about `VirtualMemory`, `SysFile` and `Pipe`, whose properties
   are model-checked; the tests and programs that section 7 lists.
