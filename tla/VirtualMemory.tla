--------------------------- MODULE VirtualMemory ---------------------------
(***************************************************************************)
(* Physical pages and the user address spaces built of them: kalloc.c,     *)
(* vm.c, the memory side of fork, exec, exit, wait and sbrk (proc.c,       *)
(* exec.c), and the checks on user pointers (syscall.c).                   *)
(*                                                                         *)
(* User addresses count half pages, so that sizes that are not a multiple  *)
(* of the page happen.  A page table covers TabSize pages; one more table  *)
(* holds the kernel's mappings.  Page tables are private to a process, and *)
(* processes meet only in the free list, which its lock protects: a system *)
(* call is one step, and any of its kalloc calls may be the one that fails.*)
(* The free list's order is left out: kalloc takes the lowest free page.   *)
(***************************************************************************)
EXTENDS Integers, FiniteSets, Sequences, SequencesExt, FiniteSetsExt

CONSTANTS Procs, Root,     \* process slots, and the one that never exits
          NFrames,         \* physical pages
          TabSize,         \* pages a page table maps (1024)
          KernPage,        \* first page of the kernel's half (KERNBASE / PGSIZE)
          Deltas,          \* arguments of sbrk, in half pages
          StoreAt,         \* where programs store
          Programs,        \* program files: size in memory, size in the file
          ArgLists         \* argument lists of exec: the strings' lengths

VARIABLES free,            \* kmem.freelist
          mem,             \* mem[f]: the two halves of physical page f
          proc,            \* proc[p]: the memory side of struct proc
          panicked,
          view             \* ghost: what each process should find at its addresses

vars == <<free, mem, proc, panicked, view>>

Frames   == 1 .. NFrames
Pages    == 0 .. KernPage - 1
PDX(a)   == a \div TabSize
Kernel   == PDX(KernPage)                  \* the directory entry of the kernel's table
Page(h)  == h \div 2
RoundUp(sz)  == (sz + 1) \div 2            \* PGROUNDUP, as a page number
PagesOf(old, new) == [i \in 1 .. (IF RoundUp(new) > RoundUp(old) THEN RoundUp(new) - RoundUp(old) ELSE 0)
                        |-> RoundUp(old) + i - 1]
Filled(v)    == [i \in 0 .. 1 |-> v]
NoPage       == [f |-> 0, u |-> FALSE]
\* A page directory: its page, its tables, and the entries of the tables.
NoDir        == [dir |-> 0, tab |-> [i \in 0 .. Kernel |-> 0], pte |-> [a \in Pages |-> NoPage]]
Unused       == [state |-> "unused", kstack |-> 0, sz |-> 0, pg |-> NoDir, sp |-> 0]

(***************************************************************************)
(* kalloc.c.  The operators work on a machine: the free list, the memory,  *)
(* a directory under construction, the page kalloc gave, success, panic.   *)
(***************************************************************************)
Machine(pg) == [free |-> free, mem |-> mem, pg |-> pg, got |-> 0, ok |-> TRUE, panic |-> FALSE]

kalloc(s) == IF s.free = {} THEN [s EXCEPT !.got = 0, !.ok = FALSE]
             ELSE LET f == Min(s.free) IN [s EXCEPT !.free = @ \ {f}, !.got = f]
kfree(s, f) == IF f \notin Frames THEN [s EXCEPT !.panic = TRUE]
               ELSE [s EXCEPT !.free = @ \cup {f}, !.mem[f] = Filled("junk")]
M_Zeroed_Skips(s) == s
Zeroed(s) == IF s.ok THEN [s EXCEPT !.mem[s.got] = Filled("zero")] ELSE s

(***************************************************************************)
(* vm.c                                                                    *)
(***************************************************************************)
Hung(k, i) == IF k.ok THEN [k EXCEPT !.pg.tab[i] = k.got] ELSE k
walkpgdir(s, i) == IF s.pg.tab[i] # 0 THEN s ELSE Hung(kalloc(s), i)

Entered(w, a, e) == IF ~w.ok THEN w
                    ELSE IF w.pg.pte[a] # NoPage THEN [w EXCEPT !.panic = TRUE]
                    ELSE [w EXCEPT !.pg.pte[a] = e]
mappages(s, a, f, u) == Entered(walkpgdir(s, PDX(a)), a, [f |-> f, u |-> u])

M_deallocuvm_RoundsDown(s, old, new) ==
    IF new >= old THEN s
    ELSE FoldLeft(LAMBDA t, a : IF t.pg.tab[PDX(a)] = 0 \/ t.pg.pte[a] = NoPage THEN t
                                ELSE [kfree(t, t.pg.pte[a].f) EXCEPT !.pg.pte[a] = NoPage],
                  s, PagesOf(2 * Page(new), old))
deallocuvm(s, old, new) ==
    IF new >= old THEN s
    ELSE FoldLeft(LAMBDA t, a : IF t.pg.tab[PDX(a)] = 0 \/ t.pg.pte[a] = NoPage THEN t
                                ELSE [kfree(t, t.pg.pte[a].f) EXCEPT !.pg.pte[a] = NoPage],
                  s, PagesOf(new, old))

freevm(s) ==
    LET d == deallocuvm(s, 2 * KernPage, 0)
        t == FoldLeft(LAMBDA x, i : IF x.pg.tab[i] = 0 THEN x ELSE kfree(x, x.pg.tab[i]),
                      d, [i \in 1 .. Kernel + 1 |-> i - 1])
    IN [kfree(t, s.pg.dir) EXCEPT !.pg = NoDir]

OrFreed(s)  == IF s.ok THEN s ELSE freevm(s)
Mapped(k)   == OrFreed(walkpgdir([k EXCEPT !.pg = [NoDir EXCEPT !.dir = k.got]], Kernel))
Kernels(k)  == IF k.ok THEN Mapped(k) ELSE k
setupkvm(s) == Kernels(kalloc(s))

\* One page more for a directory: a copy of page c, or zeroes if c is 0.
OrKfreed(m, f) == IF m.ok THEN m ELSE [kfree(m, f) EXCEPT !.ok = FALSE]
Added(k, a, c, u) ==
    IF ~k.ok THEN k
    ELSE OrKfreed(mappages(IF c = 0 THEN k ELSE [k EXCEPT !.mem[k.got] = k.mem[c]], a, k.got, u), k.got)
AddPage(s, a, c, u) == IF s.ok /\ ~s.panic THEN Added(Zeroed(kalloc(s)), a, c, u) ELSE s

M_allocuvm_KeepsPages(s, old, new) ==
    IF new >= 2 * KernPage THEN [s EXCEPT !.ok = FALSE]
    ELSE IF new < old THEN s
    ELSE FoldLeft(LAMBDA t, a : AddPage(t, a, 0, TRUE), s, PagesOf(old, new))
OrUndone(s, old, new) == IF s.ok THEN s ELSE deallocuvm(s, new, old)
allocuvm(s, old, new) ==
    IF new >= 2 * KernPage THEN [s EXCEPT !.ok = FALSE]
    ELSE IF new < old THEN s
    ELSE OrUndone(FoldLeft(LAMBDA t, a : AddPage(t, a, 0, TRUE), s, PagesOf(old, new)), old, new)

clearpteu(s, a) == IF s.pg.tab[PDX(a)] = 0 THEN [s EXCEPT !.panic = TRUE] ELSE [s EXCEPT !.pg.pte[a].u = FALSE]

\* copyuvm of the directory pg: the copy is built in s.
Copies(k, pg, sz) ==
    FoldLeft(LAMBDA t, a : IF pg.pte[a] = NoPage THEN [t EXCEPT !.panic = TRUE]
                           ELSE AddPage(t, a, pg.pte[a].f, pg.pte[a].u),
             k, PagesOf(0, sz))
M_copyuvm_Keeps(s, pg, sz) == Copies(setupkvm(s), pg, sz)
OrNone(k, pg, sz)  == IF k.ok THEN OrFreed(Copies(k, pg, sz)) ELSE k
copyuvm(s, pg, sz) == OrNone(setupkvm(s), pg, sz)

\* uva2ka: the page behind a user address, 0 if the user may not use it.
M_uva2ka_NoUser(s, h) == IF h < 0 \/ h >= 2 * KernPage THEN 0 ELSE s.pg.pte[Page(h)].f
uva2ka(s, h) == IF h < 0 \/ h >= 2 * KernPage THEN 0
                ELSE IF s.pg.pte[Page(h)].u THEN s.pg.pte[Page(h)].f ELSE 0
copyout(s, va, len) ==
    FoldLeft(LAMBDA t, h : IF ~t.ok THEN t
                           ELSE IF uva2ka(t, h) = 0 THEN [t EXCEPT !.ok = FALSE]
                           ELSE [t EXCEPT !.mem[uva2ka(t, h)][h % 2] = "arg"],
             s, [i \in 1 .. len |-> va + i - 1])
\* loaduvm: the file's part of a segment at address 0.
loaduvm(s, n) == FoldLeft(LAMBDA t, h : [t EXCEPT !.mem[t.pg.pte[Page(h)].f][h % 2] = "text"],
                          s, [i \in 1 .. n |-> i - 1])
----------------------------------------------------------------------------
\* What a process finds at its addresses, in whole pages.
Contents(m, pg) == [h \in {x \in 0 .. 2 * KernPage - 1 : pg.pte[Page(x)] # NoPage} |->
                      m[pg.pte[Page(h)].f][h % 2]]
CanUse(p, h) == h \in 0 .. 2 * KernPage - 1 /\ proc[p].pg.pte[Page(h)].u
\* A program runs while its text and its stack are there.
Runs(p) == proc[p].state = "user" /\ CanUse(p, 0) /\ CanUse(p, proc[p].sp) /\ ~panicked

Becomes(m, procs) == \E s \in {m} : /\ free' = s.free /\ mem' = s.mem
                                     /\ proc' = procs /\ panicked' = s.panic
\* The call failed: memory as the call left it, the processes as they were.
Fails(p, s) == Becomes(s, [proc EXCEPT ![p].pg = s.pg]) /\ UNCHANGED view

\* userinit: one page for the initial program, which has its stack in it.
Init == LET k == [free |-> Frames, mem |-> [f \in Frames |-> Filled("junk")], pg |-> NoDir,
                  got |-> 0, ok |-> TRUE, panic |-> FALSE]
            d == setupkvm(kalloc(k))
            s == loaduvm(allocuvm(d, 0, 2), 1)
        IN /\ free = s.free /\ mem = s.mem /\ panicked = FALSE
           /\ proc = [p \in Procs |-> IF p # Root THEN Unused
                        ELSE [state |-> "user", kstack |-> 1, sz |-> 2, pg |-> s.pg, sp |-> 0]]
           /\ view = [p \in Procs |-> IF p # Root THEN <<>> ELSE [h \in 0 .. 1 |-> IF h = 0 THEN "text" ELSE "zero"]]

Resized(v, n) == [h \in 0 .. n - 1 |-> IF h \in DOMAIN v THEN v[h] ELSE "zero"]

\* growproc; shrinking to size 0 frees everything, and fails.
Grown(p, n) == LET s == Machine(proc[p].pg) sz == proc[p].sz
               IN IF n > 0 THEN allocuvm(s, sz, sz + n) ELSE deallocuvm(s, sz, sz + n)
growproc(p, n) ==
    /\ Runs(p) /\ n # 0 /\ proc[p].sz + n >= 0
    /\ \E s \in {Grown(p, n)}, sz \in {proc[p].sz + n} :
         IF s.ok /\ sz # 0
         THEN /\ Becomes(s, [proc EXCEPT ![p].pg = s.pg, ![p].sz = sz])
              /\ view' = [view EXCEPT ![p] = Resized(@, 2 * RoundUp(sz))]
         ELSE Fails(p, s)

\* A store: a page fault kills the process.
store(p, h) ==
    /\ Runs(p)
    /\ IF CanUse(p, h)
       THEN /\ mem' = [mem EXCEPT ![proc[p].pg.pte[Page(h)].f][h % 2] = p]
            /\ view' = [view EXCEPT ![p][h] = p]
            /\ UNCHANGED <<free, proc, panicked>>
       ELSE /\ p # Root /\ proc' = [proc EXCEPT ![p].state = "zombie"]
            /\ UNCHANGED <<free, mem, panicked, view>>

\* exit, called or after a fault on the text or the stack.
exit(p) == /\ p # Root /\ proc[p].state = "user" /\ ~panicked
           /\ proc' = [proc EXCEPT ![p].state = "zombie"]
           /\ UNCHANGED <<free, mem, panicked, view>>

\* allocproc and fork: the stack is in k.got.
Child(k, c) == IF c.ok THEN [s |-> c, kstack |-> k.got]
               ELSE [s |-> [kfree(c, k.got) EXCEPT !.ok = FALSE], kstack |-> 0]
fork(p) ==
    /\ Runs(p)
    /\ \E q \in Procs :
         /\ proc[q].state = "unused"
         /\ \E k \in {kalloc(Machine(NoDir))} :
            \E f \in {IF k.ok THEN Child(k, copyuvm(k, proc[p].pg, proc[p].sz)) ELSE [s |-> k, kstack |-> 0]} :
            IF f.s.ok
            THEN /\ Becomes(f.s, [proc EXCEPT ![q] = [proc[p] EXCEPT !.kstack = f.kstack, !.pg = f.s.pg]])
                 /\ view' = [view EXCEPT ![q] = view[p]]
            ELSE Becomes(f.s, proc) /\ UNCHANGED view

\* exec: the program, two pages of which one is made inaccessible, the
\* arguments and their table pushed below the top, and the old space freed.
Top(g) == 2 * RoundUp(g.memsz) + 4
Segment(s, g) == IF s.ok THEN loaduvm(s, g.filesz) ELSE s
Program(s, g) == IF g.memsz < g.filesz THEN [s EXCEPT !.ok = FALSE] ELSE Segment(allocuvm(s, 0, g.memsz), g)
Guarded(s, g) == IF s.ok THEN clearpteu(s, Page(Top(g)) - 2) ELSE s
Stack(s, g)   == IF s.ok THEN Guarded(allocuvm(s, Top(g) - 4, Top(g)), g) ELSE s
Pushed(s, g, args) ==
    FoldLeft(LAMBDA x, len : IF ~x.s.ok THEN x ELSE [sp |-> x.sp - len, s |-> copyout(x.s, x.sp - len, len)],
             [sp |-> Top(g), s |-> s], Append(args, 1)).s
Image(s, g, args) == IF s.ok THEN OrFreed(Pushed(Stack(Program(s, g), g), g, args)) ELSE s
loaded(g, args)   == Image(setupkvm(Machine(NoDir)), g, args)
exec(p, g, args) ==
    /\ Runs(p)
    /\ \E s \in {loaded(g, args)}, top \in {Top(g)} :
         IF s.ok
         THEN /\ Becomes(freevm([s EXCEPT !.pg = proc[p].pg]),
                         [proc EXCEPT ![p] = [@ EXCEPT !.pg = s.pg, !.sz = top, !.sp = top - 2]])
              /\ view' = [view EXCEPT ![p] = [h \in 0 .. top - 1 |->
                            IF h < g.filesz THEN "text"
                            ELSE IF h >= top - 1 - Len(args) THEN "arg" ELSE "zero"]]
         ELSE Becomes(s, proc) /\ UNCHANGED view

\* wait finds a zombie.
reap(q) == /\ proc[q].state = "zombie" /\ ~panicked
           /\ Becomes(freevm(kfree(Machine(proc[q].pg), proc[q].kstack)), [proc EXCEPT ![q] = Unused])
           /\ view' = [view EXCEPT ![q] = <<>>]

\* The first process does not give up its text.
Next == \E p \in Procs :
           \/ \E n \in Deltas : (p = Root => n > 0) /\ growproc(p, n)
           \/ \E h \in StoreAt : store(p, h)
           \/ fork(p) \/ exit(p) \/ reap(p)
           \/ \E g \in Programs, args \in ArgLists : exec(p, g, args)
Spec == Init /\ [][Next]_vars

(***************************************************************************)
(* The checks on pointers that system calls are given.                     *)
(***************************************************************************)
M_argptr_OffByOne(p, i, size) == i < proc[p].sz /\ i + size <= proc[p].sz + 1
argptr(p, i, size) == i < proc[p].sz /\ i + size <= proc[p].sz
----------------------------------------------------------------------------
Live == {p \in Procs : proc[p].state # "unused"}
Holders(f) == {x \in Live \X {"stack"} : proc[x[1]].kstack = f}
         \cup {x \in Live \X {"dir"} : proc[x[1]].pg.dir = f}
         \cup {x \in Live \X (0 .. Kernel) \X {"table"} : proc[x[1]].pg.tab[x[2]] = f}
         \cup {x \in Live \X Pages \X {"page"} : proc[x[1]].pg.pte[x[2]].f = f}
\* Every physical page is on the free list or has exactly one use: no failed
\* sbrk, fork or exec leaks what it took, and no page is freed while in use.
FramesExact == \A f \in Frames : Cardinality(Holders(f)) = (IF f \in free THEN 0 ELSE 1)

\* A process has exactly the pages its size calls for, each below a table that
\* is there: what copyuvm relies on when it panics otherwise, and the kernel
\* when it uses a checked user pointer.  (sbrk to size 0 leaves none at all.)
SizeMatchesPages ==
    \A p \in Live : LET used == {a \in Pages : proc[p].pg.pte[a] # NoPage} IN
        /\ used \in {0 .. RoundUp(proc[p].sz) - 1, {}}
        /\ \A a \in used : proc[p].pg.tab[PDX(a)] # 0

\* Each process finds at its addresses what it stored there, what its parent
\* had at the fork, its program, its arguments or zeroes: never what another
\* process left behind, and never arguments outside the stack's page.
BytesPrivate == \A p \in Live : LET c == Contents(mem, proc[p].pg) IN
                                \A h \in DOMAIN c : h \in DOMAIN view[p] /\ c[h] = view[p][h]

\* An address range that argptr lets through is mapped, for a process that can
\* still make a system call: the kernel does not fault on it.
ArgumentsMapped ==
    \A p \in Procs : Runs(p) =>
        \A i \in 0 .. 2 * KernPage, n \in 0 .. 3 :
           argptr(p, i, n) => \A h \in i .. i + n - 1 : h < 2 * KernPage /\ proc[p].pg.pte[Page(h)] # NoPage

\* What usertests checks from outside: memory given back and taken again is
\* zero, a failed sbrk keeps nothing; uninitialised data starts as zero; exec
\* with more arguments than the stack's page holds fails, and harms nothing.
sbrktest(p) ==
    \A sz \in {proc[p].sz} : \A a \in {allocuvm(Machine(proc[p].pg), sz, sz + 2)} :
      IF ~a.ok THEN a.pg.pte = proc[p].pg.pte
      ELSE LET last(s) == s.pg.pte[Page(sz + 1)].f IN
           \A c \in {deallocuvm([a EXCEPT !.mem[last(a)][(sz + 1) % 2] = p], sz + 2, sz)} :
           \A d \in {allocuvm(c, sz, sz + 2)} :
             c.pg.pte = proc[p].pg.pte /\ d.ok /\ d.mem[last(d)][(sz + 1) % 2] = "zero"
bsstest(g) == \A s \in {loaded(g, <<>>)} :
              s.ok => \A h \in g.filesz .. g.memsz - 1 : s.mem[s.pg.pte[Page(h)].f][h % 2] = "zero"
bigargtest(p, g, args) ==
    \A s \in {loaded(g, args)} :
      Len(args) > 1 \/ Max({0} \cup Range(args)) > 1
        => ~s.ok /\ s.free = free /\ Contents(s.mem, proc[p].pg) = Contents(mem, proc[p].pg)
MemoryTestsPass == \A p \in Procs : Runs(p) =>
                       /\ sbrktest(p)
                       /\ \A g \in Programs : bsstest(g) /\ \A args \in ArgLists : bigargtest(p, g, args)

\* No sequence of calls reaches one of the panics of vm.c and kalloc.c.
NoPanic == ~panicked
=============================================================================
