-------------------------------- MODULE Swap --------------------------------
(***************************************************************************)
(* Swap files and page tables of several processes of Offline 4, across    *)
(* fork, exec, exit and wait (proc.c, exec.c, the end of fs.c, vm.c).      *)
(* Paging has one process and its replacement policy in detail; here the   *)
(* victim is any resident page, and pagesInPhysicalMemory the set of its   *)
(* entries in use (of the others nothing is ever read).                    *)
(*                                                                         *)
(* A program has its code in page 0 and its stack in page 1.  A swap file  *)
(* is a sequence of half pages: v stands for a half of the bytes page v    *)
(* should have, Stale for any others.  ram[d][v] says that the page of     *)
(* directory d at v holds the right bytes.                                 *)
(***************************************************************************)
EXTENDS Integers, Sequences, FiniteSets, FiniteSetsExt

CONSTANTS Slots,               \* slots of the process table; the first one is in use at the start
          RamPages, DiscPages, \* MAX_PYSC_PAGES, MAX_TOTAL_PAGES - MAX_PYSC_PAGES
          Dirs,                \* physical pages that page directories are built in
          MaxPages,            \* bound on a process's size
          MaxPid,              \* bound on pids; the first is 3, the first with a swap file
          MaxCalls             \* bound on the calls that may move a page to disc

ASSUME SlotsAssumption == Slots \subseteq Nat \ {0} /\ Slots # {} /\ IsFiniteSet(Slots)
\* There are more physical pages than processes.
ASSUME DirsAssumption == Dirs \subseteq Nat \ {0} /\ IsFiniteSet(Dirs) /\ Cardinality(Slots) < Cardinality(Dirs)
ASSUME PagesAssumption == MaxPages \in Nat /\ MaxPages >= 2 /\ DiscPages \in Nat

VARIABLES proc,      \* struct proc, with its two tables
          pt, ram,   \* page table entries and memory, per directory
          swap,      \* the files /.swapN, by N
          buffer,    \* the static buffer of vm.c: whose page is in it, and whether right
          nextpid, calls,
          panicked,
          abandoned, \* ghost: pids of forks that failed
          blame      \* ghost: which of the known causes of wrong bytes occurred

swapVars == <<proc, pt, ram, swap, buffer, nextpid, calls, panicked, abandoned, blame>>

Pages  == 0 .. MaxPages - 1
Stale  == -1
DiscIx == 0 .. DiscPages - 1
\* An entry no longer in use keeps its address, which retrievePage still looks at.
Free(va)    == [isUsed |-> FALSE, dir |-> 0, va |-> va]
Entry(d, v) == [isUsed |-> TRUE, dir |-> d, va |-> v]
Empty  == [owner |-> 0, va |-> 0, right |-> FALSE]
Clear  == [v \in Pages |-> "none"]
Unused == [state |-> "unused", pid |-> 0, parent |-> 0, dir |-> 0, sz |-> 0, at |-> 0,
           phys |-> {}, disc |-> [j \in DiscIx |-> Free(0)]]
Cut(f, x)  == [k \in DOMAIN f \ {x} |-> f[k]]
With(f, x, y) == [k \in DOMAIN f \cup {x} |-> IF k = x THEN y ELSE f[k]]
FreeDirs   == Dirs \ {proc[s].dir : s \in Slots}
NewDir     == Min(FreeDirs)

(***************************************************************************)
(* The tables and the swap file of one process, as a record x: the process *)
(* p, the page tables, the memory, its file, and how the call went.        *)
(***************************************************************************)
Of(s) == [p |-> proc[s], pt |-> pt, ram |-> ram, file |-> swap[proc[s].pid], ok |-> TRUE, panic |-> FALSE,
          moved |-> FALSE]
RamFull(x)  == Cardinality(x.p.phys) = RamPages
FreeDisc(x) == {j \in DiscIx : ~x.p.disc[j].isUsed}

\* writei refuses an offset past the end of the file.
CanWrite(file, j) == 2 * j <= Len(file)
M_Written_HalfOffset(file, j, v) == [h \in 1 .. Max({Len(file), j + 2}) |->
                                       IF h \in {j + 1, j + 2} THEN v ELSE file[h]]
Written(file, j, v) == [h \in 1 .. Max({Len(file), 2 * j + 2}) |->
                          IF h \in {2 * j + 1, 2 * j + 2} THEN v ELSE file[h]]
Right(file, j, v) == 2 * j + 2 <= Len(file) /\ file[2 * j + 1] = v /\ file[2 * j + 2] = v

\* reallocatePageInDisk, with victim t.  The bytes are read through the page
\* table in use, the directory of the entry or not.
reallocatePageInDisk(x, t) ==
    LET j == Min(FreeDisc(x))
        here == x.pt[x.p.dir][t.va]
        v == IF t.dir = x.p.dir /\ x.ram[t.dir][t.va] THEN t.va ELSE Stale
    IN IF FreeDisc(x) = {} \/ ~CanWrite(x.file, j) THEN [x EXCEPT !.ok = FALSE]
       ELSE IF here # "P" THEN [x EXCEPT !.panic = TRUE]
       ELSE [x EXCEPT !.p.disc[j] = t, !.p.phys = @ \ {t}, !.pt[t.dir][t.va] = "PG",
                      !.file = Written(x.file, j, v), !.moved = TRUE]

\* The page is mapped, and in the table unless there was no room to make.
MapPage(e, d, v) ==
    LET m == [e EXCEPT !.pt[d][v] = "P", !.ram[d][v] = TRUE, !.ok = TRUE]
    IN IF e.ok /\ ~e.panic THEN [m EXCEPT !.p.phys = @ \cup {Entry(d, v)}] ELSE m
\* One page of allocuvm for directory d, after its test for space.
AllocPage(x, d, v, t) ==
    IF RamFull(x) /\ FreeDisc(x) = {} THEN [x EXCEPT !.ok = FALSE]
    ELSE MapPage(IF RamFull(x) THEN reallocatePageInDisk(x, t) ELSE x, d, v)
Victims(x) == IF RamFull(x) THEN x.p.phys ELSE {Free(0)}

\* removePhysicalPageMetaData and removeDiscMetaData for every page of d, as
\* deallocuvm calls them: on the tables of the running process.
Forget(disc, d) == [j \in DiscIx |-> IF disc[j].isUsed /\ disc[j].dir = d THEN Free(0) ELSE disc[j]]
M_freevm_AnyDir(x, d) ==
    [x EXCEPT !.p.phys = {}, !.p.disc = [j \in DiscIx |-> Free(0)],
              !.pt[d] = Clear, !.ram[d] = [v \in Pages |-> FALSE]]
freevm(x, d) == [x EXCEPT !.p.phys = {t \in @ : t.dir # d}, !.p.disc = Forget(@, d),
                          !.pt[d] = Clear, !.ram[d] = [v \in Pages |-> FALSE]]

Commit(s, x, procs) == /\ proc' = [procs EXCEPT ![s] = x.p] /\ pt' = x.pt /\ ram' = x.ram
                       /\ panicked' = x.panic
Called == calls < MaxCalls /\ calls' = calls + 1

SwapInit == LET d == Min(Dirs) s == Min(Slots) IN
        /\ proc = [q \in Slots |-> IF q # s THEN Unused
                     ELSE [Unused EXCEPT !.state = "user", !.pid = 3, !.dir = d, !.sz = 2,
                              !.phys = {Entry(d, 0), Entry(d, 1)}]]
        /\ pt = [x \in Dirs |-> [v \in Pages |-> IF x = d /\ v < 2 THEN "P" ELSE "none"]]
        /\ ram = [x \in Dirs |-> [v \in Pages |-> x = d /\ v < 2]]
        /\ swap = [n \in {3} |-> <<>>] /\ nextpid = 4 /\ calls = 0
        /\ buffer = Empty
        /\ panicked = FALSE /\ abandoned = {} /\ blame = {}

\* The program runs: its code and its stack are in memory.
Runs(s) == /\ proc[s].state = "user" /\ proc[s].at = 0 /\ ~panicked
           /\ \A v \in {0, 1} : pt[proc[s].dir][v] = "P"

\* sbrk of one page.
Grow(s) == /\ Runs(s) /\ Called /\ proc[s].sz < MaxPages
           /\ \E t \in Victims(Of(s)) :
                LET x == AllocPage(Of(s), proc[s].dir, proc[s].sz, t) IN
                /\ x.ok
                /\ Commit(s, [x EXCEPT !.p.sz = @ + 1], proc)
                /\ swap' = With(swap, proc[s].pid, x.file)
           /\ UNCHANGED <<buffer, nextpid, abandoned, blame>>

(***************************************************************************)
(* retrievePage.  With RAM full the page comes through the static buffer:  *)
(* filled by a read that may sleep, copied out afterwards.                 *)
(***************************************************************************)
Faults(s, v) == /\ proc[s].state = "user" /\ proc[s].at = 0 /\ ~panicked
                /\ v < proc[s].sz /\ pt[proc[s].dir][v] = "PG"
Killed(s) == proc' = [proc EXCEPT ![s].state = "doomed"]
\* The search of the disc table goes by address alone: it may stop at a slot
\* that deallocuvm cleared, or find none.
SlotsOf(x, v) == {j \in DiscIx : x.p.disc[j].va = v}
SlotOf(x, v)  == Min(SlotsOf(x, v))
Misread(x, v) == SlotsOf(x, v) = {} \/ ~x.p.disc[SlotOf(x, v)].isUsed
\* The table entry and the bytes go to memory; a read past the end fails.
PageIn(x, v) ==
    LET j == SlotOf(x, v) d == x.p.dir
        m == [x EXCEPT !.pt[d][v] = "P", !.ram[d][v] = FALSE]
    IN IF SlotsOf(x, v) = {} THEN m
       ELSE IF 2 * j > Len(x.file) THEN [x EXCEPT !.ok = FALSE]
       ELSE [m EXCEPT !.ram[d][v] = Right(x.file, j, v),
                      !.p.phys = @ \cup ({x.p.disc[j]} \ {Free(v)}), !.p.disc[j] = Free(v)]
FaultIn(s, v) ==
    LET x == Of(s) y == PageIn(x, v) IN
    /\ Faults(s, v) /\ ~RamFull(x)
    /\ IF y.ok THEN Commit(s, y, proc) ELSE Killed(s) /\ UNCHANGED <<pt, ram, panicked>>
    /\ blame' = IF Misread(x, v) THEN blame \cup {"misread"} ELSE blame
    /\ UNCHANGED <<swap, buffer, nextpid, calls, abandoned>>
FaultRead(s, v) ==
    /\ Called /\ Faults(s, v) /\ RamFull(Of(s))
    /\ \E t \in proc[s].phys :
         LET e == reallocatePageInDisk(Of(s), t) y == PageIn(e, v) IN
         IF e.ok /\ y.ok /\ ~e.panic
         THEN /\ Commit(s, [y EXCEPT !.p.at = v + 1, !.ram[y.p.dir][v] = FALSE], proc)
              /\ swap' = With(swap, proc[s].pid, y.file)
              /\ buffer' = [owner |-> proc[s].pid, va |-> v, right |-> y.ram[y.p.dir][v]]
              /\ blame' = IF Misread(e, v) THEN blame \cup {"misread"} ELSE blame
         ELSE \E z \in {IF e.ok THEN y ELSE e} :
              /\ Commit(s, [z EXCEPT !.p.state = "doomed"], proc)
              /\ swap' = With(swap, proc[s].pid, z.file) /\ UNCHANGED <<buffer, blame>>
    /\ UNCHANGED <<nextpid, abandoned>>
FaultCopy(s) ==
    LET v == proc[s].at - 1 mine == buffer.owner = proc[s].pid /\ buffer.va = v IN
    /\ proc[s].state = "user" /\ proc[s].at # 0 /\ ~panicked
    /\ ram' = [ram EXCEPT ![proc[s].dir][v] = mine /\ buffer.right]
    /\ proc' = [proc EXCEPT ![s].at = 0]
    /\ blame' = IF mine THEN blame ELSE blame \cup {"buffer"}
    /\ buffer' = IF \E q \in Slots \ {s} : proc[q].at # 0 THEN buffer ELSE Empty
    /\ UNCHANGED <<pt, swap, nextpid, calls, panicked, abandoned>>

(***************************************************************************)
(* fork, exec, exit, wait                                                  *)
(***************************************************************************)
\* The child's entry: the parent's with the child's directory.
Copied(t, d) == IF t.isUsed THEN [t EXCEPT !.dir = d] ELSE t
\* One half page is copied per slot in use, at consecutive offsets.
CopiedFile(s) == LET k == Cardinality(DiscIx \ FreeDisc(Of(s)))
                     f == swap[proc[s].pid]
                 IN SubSeq(f, 1, Min({k, Len(f)}))
\* allocproc has made the swap file before copyuvm can fail.
ForkFails(s) ==
    /\ Runs(s) /\ nextpid <= MaxPid /\ \E q \in Slots : proc[q].state = "unused"
    /\ swap' = With(swap, nextpid, <<>>) /\ abandoned' = abandoned \cup {nextpid}
    /\ nextpid' = nextpid + 1
    /\ UNCHANGED <<proc, pt, ram, buffer, calls, panicked, blame>>
fork(s) ==
    /\ Runs(s) /\ nextpid <= MaxPid /\ \E q \in Slots : proc[q].state = "unused"
    /\ LET q == Min({r \in Slots : proc[r].state = "unused"}) d == NewDir IN
         /\ proc' = [proc EXCEPT ![q] =
                       [proc[s] EXCEPT !.pid = nextpid, !.parent = s, !.dir = d,
                                       !.phys = {Copied(t, d) : t \in @},
                                       !.disc = [j \in DiscIx |-> Copied(@[j], d)]]]
         /\ pt' = [pt EXCEPT ![d] = pt[proc[s].dir]]
         /\ ram' = [ram EXCEPT ![d] = ram[proc[s].dir]]
    /\ swap' = With(swap, nextpid, CopiedFile(s))
    /\ blame' = IF FreeDisc(Of(s)) = DiscIx THEN blame ELSE blame \cup {"fork"}
    /\ nextpid' = nextpid + 1 /\ UNCHANGED <<buffer, calls, panicked, abandoned>>

\* The new image is built while the old one is still in the tables; only then
\* the swap file is removed and created again.
exec(s) ==
    /\ Runs(s) /\ Called
    /\ \E bad \in BOOLEAN : \E t \in Victims(Of(s)) :
         LET d == NewDir x == AllocPage(Of(s), d, 0, t) IN
         \E u \in Victims(x) :
           LET y == IF x.ok /\ ~x.panic THEN AllocPage(x, d, 1, u) ELSE x
               f == freevm(y, d)
               n == freevm([y EXCEPT !.p.dir = d, !.p.sz = 2], proc[s].dir)
           IN IF y.panic \/ bad \/ ~y.ok
              THEN /\ Commit(s, IF y.panic THEN y ELSE f, proc)
                   /\ swap' = With(swap, proc[s].pid, y.file) /\ UNCHANGED blame
              ELSE /\ Commit(s, n, proc)
                   /\ swap' = With(swap, proc[s].pid, <<>>)
                   /\ blame' = IF \E j \in DiscIx : n.p.disc[j].isUsed THEN blame \cup {"exec"} ELSE blame
    /\ UNCHANGED <<buffer, nextpid, abandoned>>

M_Removed_Not(pid) == swap
Removed(pid) == Cut(swap, pid)
exit(s) ==
    /\ Runs(s) \/ (proc[s].state = "doomed" /\ ~panicked)
    /\ swap' = Removed(proc[s].pid)
    /\ proc' = [q \in Slots |->
                  IF q = s THEN [Unused EXCEPT !.state = "zombie", !.pid = proc[s].pid, !.parent = proc[s].parent,
                                               !.dir = proc[s].dir]
                  ELSE IF proc[q].parent = s THEN [proc[q] EXCEPT !.parent = 0] ELSE proc[q]]
    /\ UNCHANGED <<pt, ram, buffer, nextpid, calls, panicked, abandoned, blame>>

\* wait frees the child's memory with the parent as the running process, whose
\* tables deallocuvm then changes; init, the parent of orphans, has no pages in
\* swap and is left out.
wait(q) ==
    LET s == proc[q].parent IN
    /\ proc[q].state = "zombie" /\ ~panicked
    /\ IF s = 0 THEN /\ proc' = [proc EXCEPT ![q] = Unused]
                     /\ pt' = [pt EXCEPT ![proc[q].dir] = Clear]
                     /\ ram' = [ram EXCEPT ![proc[q].dir] = [v \in Pages |-> FALSE]] /\ UNCHANGED panicked
       ELSE Runs(s) /\ Commit(s, freevm(Of(s), proc[q].dir), [proc EXCEPT ![q] = Unused])
    /\ UNCHANGED <<swap, buffer, nextpid, calls, abandoned, blame>>

SwapNext == \E s \in Slots : \/ Grow(s) \/ fork(s) \/ ForkFails(s) \/ exec(s) \/ exit(s) \/ wait(s)
                             \/ \E v \in Pages : FaultIn(s, v) \/ FaultRead(s, v)
                             \/ FaultCopy(s)
SwapSpec == SwapInit /\ [][SwapNext]_swapVars
----------------------------------------------------------------------------
Alive == {s \in Slots : proc[s].state \in {"user", "doomed"}}

\* Every living process has its swap file under its pid, and no other file is
\* left but those of forks that failed after allocproc.
SwapFilesOwned == DOMAIN swap = {proc[s].pid : s \in Alive} \cup abandoned

\* The tables of a process are about its own pages only, and agree with its
\* page table, although fork copies them, exec fills them for two directories
\* at once, wait runs freevm on another's directory, and directories are used
\* again.  (Not after a fault whose search stopped at a cleared slot.)
TablesOwn ==
    ~panicked /\ "misread" \notin blame => \A s \in {q \in Alive : proc[q].state = "user"} :
      LET p == proc[s] IN
        /\ \A t \in p.phys : t.dir = p.dir /\ pt[p.dir][t.va] = "P"
        /\ \A j \in DiscIx : p.disc[j].isUsed => p.disc[j].dir = p.dir /\ pt[p.dir][p.disc[j].va] = "PG"
        /\ \A v \in Pages : pt[p.dir][v] = "PG" => \E j \in DiscIx : p.disc[j].isUsed /\ p.disc[j].va = v

AllRight(s) == \A v \in 0 .. proc[s].sz - 1 :
                 CASE pt[proc[s].dir][v] = "P"  -> ram[proc[s].dir][v] \/ proc[s].at = v + 1
                   [] pt[proc[s].dir][v] = "PG" -> Right(swap[proc[s].pid], SlotOf(Of(s), v), v)
                   [] OTHER -> FALSE
\* Every page of every process keeps its bytes, in memory or in its own swap
\* file, unless one of four things happened: fork copied the file of a parent
\* with pages in it, exec moved pages of the new image to the file it then
\* removed, two faults met in the static buffer, or a fault's search by address
\* stopped at a slot no longer in use.
WrongBytesExplained == ~panicked /\ blame = {} => \A s \in Alive : AllRight(s)

\* Swap files and tables belong to one process, and pages keep their bytes but
\* for the four known causes.
SwapPrivate == SwapFilesOwned /\ TablesOwn /\ WrongBytesExplained

\* proc.c: "Want to copy the swap file from parent to child".  A forked child
\* finds its pages in its swap file as its parent had them.
ForkCopiesSwap == ~panicked /\ blame \subseteq {"fork"} => \A s \in Alive : AllRight(s)
=============================================================================
