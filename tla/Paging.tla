------------------------------- MODULE Paging -------------------------------
(***************************************************************************)
(* Paging of one user process of the xv6 of Offline 4: the page table, the *)
(* two metadata tables of struct proc (pagesInPhysicalMemory and           *)
(* pagesInDisc), and the swap file, as allocuvm, deallocuvm, retrievePage  *)
(* and their helpers in vm.c, growproc in proc.c and the page-fault case   *)
(* of trap.c change them.                                                  *)
(*                                                                         *)
(* Bytes are abstracted to whose they are: the value v stands for exactly  *)
(* the bytes the process last wrote to its page v, OldBytes for any        *)
(* others.  So data[v] = v says that a resident page holds what it should, *)
(* and swapFile[i] = v that slot i of the swap file does.                  *)
(*                                                                         *)
(* Only the process's own kernel code touches this state, so a step is a   *)
(* whole system call or fault, except that allocuvm takes one step per     *)
(* page.                                                                   *)
(***************************************************************************)
EXTENDS Integers, FiniteSets, FiniteSetsExt

CONSTANTS
    MAX_PYSC_PAGES, MAX_TOTAL_PAGES,    \* mmu.h (15 and 30)
    Algos,          \* values of R_ALGO to build with: 1 FIFO, 2 AGING, 3 LIFO
    MaxSize,        \* bound on the process's size, in pages
    MaxTimer,       \* bound on proc->timer
    AgeTop,         \* the top bit of an ageCounter (1 << 31)
    GrowArgs,       \* pages programs ask sbrk for
    ShrinkArgs      \* pages programs give back

ASSUME LimitsAssumption ==
    /\ MAX_PYSC_PAGES \in Nat /\ MAX_PYSC_PAGES >= 3
    /\ MAX_TOTAL_PAGES \in Nat /\ MAX_TOTAL_PAGES > MAX_PYSC_PAGES
ASSUME AlgoAssumption == Algos \subseteq 1..3
FirstTimer == 1                         \* the timer a forked process inherits

ASSUME PagingBoundsAssumption ==
    /\ MaxSize \in Nat /\ MaxSize >= 3
    /\ MaxTimer \in Nat /\ MaxTimer >= FirstTimer + 3
    /\ AgeTop \in Nat \ {0}
    /\ GrowArgs \subseteq Nat \ {0} /\ ShrinkArgs \subseteq Nat \ {0}

PageNos == 0..(MaxSize - 1)              \* virtual page numbers
OldBytes == -1
MaxAge == 2 * AgeTop - 1
PhysSlots == 0..(MAX_PYSC_PAGES - 1)
DiscSlots == 0..(MAX_TOTAL_PAGES - MAX_PYSC_PAGES - 1)

CodePage == 0                           \* the image exec leaves behind
GuardPage == 1
StackPage == 2

VARIABLES
    sz,         \* proc->sz in pages
    pte,        \* "none", "P" (present) or "PG" (in the swap file)
    user,       \* PTE_U
    phys,       \* pagesInPhysicalMemory
    disc,       \* pagesInDisc
    timer,      \* proc->timer
    data,       \* bytes of a resident page
    swapFile,   \* bytes of a slot of the swap file
    fsize,      \* slots within the swap file's size
    newsz, a,   \* allocuvm's argument and loop variable; a = NoPage outside it
    status,     \* "running", or how the process or the kernel ended
    R_ALGO,     \* the macro, fixed for a build
    misread     \* history: some page was brought in from a slot not in use

vars == <<sz, pte, user, phys, disc, timer, data, swapFile, fsize, newsz, a, status, R_ALGO, misread>>

NoPage == -1

TypeOK ==
    /\ sz \in 0..MaxSize
    /\ pte \in [PageNos -> {"none", "P", "PG"}]
    /\ user \in [PageNos -> BOOLEAN]
    /\ phys \in [PhysSlots -> [isUsed : BOOLEAN, va : PageNos, timer : 0..MaxTimer, age : 0..MaxAge]]
    /\ disc \in [DiscSlots -> [isUsed : BOOLEAN, va : PageNos]]
    /\ timer \in 0..MaxTimer
    /\ data \in [PageNos -> PageNos \cup {OldBytes}]
    /\ swapFile \in [DiscSlots -> PageNos \cup {OldBytes}]
    /\ fsize \in 0..Cardinality(DiscSlots)
    /\ newsz \in 0..MaxSize
    /\ a \in PageNos \cup {NoPage, MaxSize}
    /\ status \in {"running", "killed_access", "killed_swap", "panic", "undefined"}
    /\ R_ALGO \in Algos
    /\ misread \in BOOLEAN

Init ==
    /\ sz = 3
    /\ pte = [v \in PageNos |-> IF v < 3 THEN "P" ELSE "none"]
    /\ user = [v \in PageNos |-> v \in {CodePage, StackPage}]
    /\ phys = [i \in PhysSlots |->
                 IF i < 3 THEN [isUsed |-> TRUE, va |-> i, timer |-> FirstTimer + i, age |-> 0]
                 ELSE [isUsed |-> FALSE, va |-> 0, timer |-> 0, age |-> 0]]
    /\ disc = [i \in DiscSlots |-> [isUsed |-> FALSE, va |-> 0]]
    /\ timer = FirstTimer + 3
    /\ data = [v \in PageNos |-> IF v < 3 THEN v ELSE OldBytes]
    /\ swapFile = [i \in DiscSlots |-> OldBytes]
    /\ fsize = 0
    /\ newsz = 0
    /\ a = NoPage
    /\ status = "running"
    /\ R_ALGO \in Algos
    /\ misread = FALSE

-----------------------------------------------------------------------------
(* Looking for a slot.                                                     *)

FreePhys == {i \in PhysSlots : ~phys[i].isUsed}
FreeDiscSlots == {i \in DiscSlots : ~disc[i].isUsed}

spaceAvialableInMemory == FreePhys # {}
spaceAvialableInDisk == FreeDiscSlots # {}

\* Mutant: the first slot, in use or not.
M_getAvailablePageIndexDisk_Any == {0}

\* Mutant: the loop stops one slot early.
M_getAvailablePageIndexDisk_Short ==
    LET seen == FreeDiscSlots \ {Max(DiscSlots)} IN IF seen = {} THEN {} ELSE {Min(seen)}

\* The loops that return -1 when they find nothing yield the empty set here.
getAvailablePageIndexDisk == IF FreeDiscSlots = {} THEN {} ELSE {Min(FreeDiscSlots)}

UsedPhys == PhysSlots \ FreePhys

getReplacementPageIndexFIFO ==
    {i \in UsedPhys : \A j \in UsedPhys : phys[i].timer <= phys[j].timer}
getReplacementPageIndexLIFO ==
    {i \in UsedPhys : phys[i].timer > 0 /\ \A j \in UsedPhys : phys[j].timer <= phys[i].timer}
\* The first slot of the least age, if that is below 0xffffffff.
getReplacementPageIndexAging ==
    LET aged == {i \in UsedPhys : phys[i].age < MaxAge}
    IN {i \in aged : \A j \in aged :
           phys[i].age < phys[j].age \/ (phys[i].age = phys[j].age /\ i <= j)}

getReplacementPageIndexPhyMem ==
    CASE R_ALGO = 1 -> getReplacementPageIndexFIFO
      [] R_ALGO = 2 -> getReplacementPageIndexAging
      [] R_ALGO = 3 -> getReplacementPageIndexLIFO

-----------------------------------------------------------------------------
(* Moving a page out.  EvictTo(i, j) holds when slot i of RAM can go to    *)
(* slot j of the swap file; the operators after it say what that leaves.   *)

\* writei refuses to write past the end of the file.
writeToSwapFile(j) == j <= fsize

EvictTo(i, j) ==
    /\ i \in getReplacementPageIndexPhyMem
    /\ j \in getAvailablePageIndexDisk
    /\ writeToSwapFile(j)

CannotEvict == \A i \in PhysSlots, j \in DiscSlots : ~EvictTo(i, j)

\* Mutant: the victim stays marked present.
M_EvictedPte_Present(i) == pte

EvictedPte(i) == [pte EXCEPT ![phys[i].va] = "PG"]
EvictedDisc(i, j) == [disc EXCEPT ![j] = [isUsed |-> TRUE, va |-> phys[i].va]]
EvictedSwap(i, j) == [swapFile EXCEPT ![j] = data[phys[i].va]]
Tracked(i, v) == [phys EXCEPT ![i] = [isUsed |-> TRUE, va |-> v, timer |-> timer, age |-> 0]]

\* Copies of v's bytes that are out of date once v is written or remade.
Outdated(s, v) == [i \in DiscSlots |-> IF s[i] = v THEN OldBytes ELSE s[i]]

\* Mutant: every write is taken to extend the file.
M_FileGrown_Append(j) == fsize + 1

FileGrown(j) == IF fsize > j THEN fsize ELSE j + 1

-----------------------------------------------------------------------------
(* deallocuvm, as a change of the tables: pages hi-1 down to lo go.        *)

Gone(v, lo, hi) == lo <= v /\ v < hi

removePhysicalPageMetaData(lo, hi) ==
    [i \in PhysSlots |->
       IF phys[i].isUsed /\ Gone(phys[i].va, lo, hi) /\ pte[phys[i].va] = "P"
       THEN [phys[i] EXCEPT !.isUsed = FALSE, !.va = 0] ELSE phys[i]]

removeDiscMetaData(lo, hi) ==
    [i \in DiscSlots |->
       IF disc[i].isUsed /\ Gone(disc[i].va, lo, hi) /\ pte[disc[i].va] = "PG"
       THEN [isUsed |-> FALSE, va |-> 0] ELSE disc[i]]

Dealloc(lo, hi) ==
    /\ pte' = [v \in PageNos |-> IF Gone(v, lo, hi) THEN "none" ELSE pte[v]]
    /\ user' = [v \in PageNos |-> user[v] /\ ~Gone(v, lo, hi)]
    /\ data' = [v \in PageNos |-> IF Gone(v, lo, hi) THEN OldBytes ELSE data[v]]
    /\ phys' = removePhysicalPageMetaData(lo, hi)
    /\ disc' = removeDiscMetaData(lo, hi)
    /\ swapFile' = [i \in DiscSlots |-> IF Gone(swapFile[i], lo, hi) THEN OldBytes ELSE swapFile[i]]

\* growproc(n), n < 0
Shrink ==
    /\ status = "running" /\ a = NoPage
    /\ \E n \in ShrinkArgs :
        /\ sz - n > StackPage
        /\ Dealloc(sz - n, sz)
        /\ sz' = sz - n
    /\ UNCHANGED <<timer, fsize, newsz, a, status, misread, R_ALGO>>

-----------------------------------------------------------------------------
(* growproc(n), n > 0: allocuvm                                            *)

AllocRefused == ~spaceAvialableInMemory /\ ~spaceAvialableInDisk

GrowStart ==
    /\ status = "running" /\ a = NoPage
    /\ ~AllocRefused
    /\ \E n \in GrowArgs :
        /\ sz + n <= MaxSize
        /\ timer + n <= MaxTimer
        /\ newsz' = sz + n
    /\ a' = sz
    /\ UNCHANGED <<sz, pte, user, phys, disc, timer, data, swapFile, fsize, status, misread, R_ALGO>>

\* kalloc and mappages give the process a zeroed page a.
GrowMaps(tbl) ==
    /\ pte' = [tbl EXCEPT ![a] = "P"]
    /\ user' = [user EXCEPT ![a] = TRUE]
    /\ data' = [data EXCEPT ![a] = a]

GrowNext ==
    /\ a' = a + 1
    /\ UNCHANGED <<sz, newsz, status, misread, R_ALGO>>

Growing == status = "running" /\ a # NoPage /\ a < newsz

\* There is room in RAM: updatePhysicalPageMetaData.
GrowPage ==
    /\ Growing
    /\ spaceAvialableInMemory
    /\ GrowMaps(pte)
    /\ phys' = Tracked(Min(FreePhys), a)
    /\ timer' = timer + 1
    /\ GrowNext
    /\ UNCHANGED <<disc, swapFile, fsize, misread>>

\* There is none: reallocatePageInDisk makes some.
GrowEvict ==
    /\ Growing
    /\ ~spaceAvialableInMemory
    /\ \E i \in PhysSlots, j \in DiscSlots :
        /\ EvictTo(i, j)
        /\ GrowMaps(EvictedPte(i))
        /\ disc' = EvictedDisc(i, j)
        /\ swapFile' = EvictedSwap(i, j)
        /\ fsize' = FileGrown(j)
        /\ phys' = Tracked(i, a)
    /\ timer' = timer + 1
    /\ GrowNext

\* reallocatePageInDisk failed: the page is mapped, and in no table.
GrowUntracked ==
    /\ Growing
    /\ ~spaceAvialableInMemory
    /\ CannotEvict
    /\ GrowMaps(pte)
    /\ GrowNext
    /\ UNCHANGED <<phys, disc, timer, swapFile, fsize, misread>>

\* kalloc or mappages fails: everything allocated so far goes again.
GrowFails ==
    /\ Growing
    /\ Dealloc(sz, newsz)
    /\ a' = NoPage
    /\ newsz' = 0
    /\ UNCHANGED <<sz, timer, fsize, status, misread, R_ALGO>>

GrowDone ==
    /\ status = "running" /\ a # NoPage /\ a = newsz
    /\ sz' = newsz
    /\ a' = NoPage
    /\ newsz' = 0
    /\ UNCHANGED <<pte, user, phys, disc, timer, data, swapFile, fsize, status, misread, R_ALGO>>

-----------------------------------------------------------------------------
(* Memory accesses of the program, and the page fault.                     *)

Running == status = "running" /\ a = NoPage

\* A store to a present page: older copies in the swap file are out of date.
Write(v) ==
    /\ Running
    /\ v < sz /\ pte[v] = "P" /\ user[v]
    /\ data' = [data EXCEPT ![v] = v]
    /\ swapFile' = Outdated(swapFile, v)
    /\ UNCHANGED <<sz, pte, user, phys, disc, timer, fsize, newsz, a, status, misread, R_ALGO>>

\* Not paged out (checkPTForPage): the program misbehaved.
BadAccess(v) ==
    /\ Running
    /\ v < sz /\ pte[v] = "P" /\ ~user[v]
    /\ status' = "killed_access"
    /\ UNCHANGED <<sz, pte, user, phys, disc, timer, data, swapFile, fsize, newsz, a, misread, R_ALGO>>

\* The kernel itself follows a program's pointer (read, write, exec...): the
\* fault case of trap() is for user mode only.
KernelAccess(v) ==
    /\ Running
    /\ v < sz /\ pte[v] = "PG"
    /\ status' = "panic"
    /\ UNCHANGED <<sz, pte, user, phys, disc, timer, data, swapFile, fsize, newsz, a, misread, R_ALGO>>

\* Mutant: the loop takes the last match.
M_DiscSlotOf_Last(d, v) == {i \in DiscSlots : d[i].va = v /\ \A j \in DiscSlots : d[j].va = v => j <= i}

\* retrievePage's loop: the first slot with the address, used or not.
DiscSlotOf(d, v) == {i \in DiscSlots : d[i].va = v /\ \A j \in DiscSlots : d[j].va = v => i <= j}

\* The page comes in to slot r of RAM from disc table d and swap bytes s.
Retrieved(v, r, tbl, d, s) ==
    /\ pte' = [tbl EXCEPT ![v] = "P"]
    /\ user' = [user EXCEPT ![v] = TRUE]
    /\ \E i \in DiscSlotOf(d, v) :
        /\ data' = [data EXCEPT ![v] = s[i]]
        /\ phys' = [phys EXCEPT ![r] = [isUsed |-> d[i].isUsed, va |-> v, timer |-> timer, age |-> 0]]
        /\ disc' = [d EXCEPT ![i].isUsed = FALSE]
        /\ misread' = (misread \/ ~d[i].isUsed)
    /\ swapFile' = s
    /\ timer' = timer + 1
    /\ UNCHANGED <<sz, newsz, a, status, R_ALGO>>

Fault(v) == Running /\ v < sz /\ pte[v] = "PG" /\ timer < MaxTimer

\* retrievePage with room in RAM.
FaultFree(v) ==
    /\ Fault(v)
    /\ spaceAvialableInMemory
    /\ Retrieved(v, Min(FreePhys), pte, disc, swapFile)
    /\ UNCHANGED fsize

\* retrievePage after moving another page out.
FaultSwap(v) ==
    /\ Fault(v)
    /\ ~spaceAvialableInMemory
    /\ \E i \in PhysSlots, j \in DiscSlots :
        /\ EvictTo(i, j)
        /\ Retrieved(v, i, EvictedPte(i), EvictedDisc(i, j), EvictedSwap(i, j))
        /\ fsize' = FileGrown(j)

\* retrievePage returns -1 and trap() kills the process.
FaultKills(v) ==
    /\ Fault(v)
    /\ ~spaceAvialableInMemory
    /\ CannotEvict
    /\ status' = "killed_swap"
    /\ UNCHANGED <<sz, pte, user, phys, disc, timer, data, swapFile, fsize, newsz, a, misread, R_ALGO>>

\* retrievePage does not look at what kalloc returns.  With no frame left it
\* clears and maps physical page 0 through a null pointer; what the process and
\* the kernel do after that is left open, and the behaviour ends here.
FaultNoFrame(v) ==
    /\ Fault(v)
    /\ status' = "undefined"
    /\ UNCHANGED <<sz, pte, user, phys, disc, timer, data, swapFile, fsize, newsz, a, misread, R_ALGO>>

\* updateAgeForSingleProcess, at a timer interrupt: touched is the set of pages
\* with PTE_A.  The other pages' ages stay, and only AGING reads them.
Tick(touched) ==
    /\ status = "running" /\ R_ALGO = 2
    /\ touched \subseteq {v \in PageNos : pte[v] = "P" /\ user[v]}
    /\ phys' = [i \in PhysSlots |->
                  IF phys[i].isUsed /\ phys[i].va \in touched
                  THEN [phys[i] EXCEPT !.age = (@ \div 2) + AgeTop] ELSE phys[i]]
    /\ UNCHANGED <<sz, pte, user, disc, timer, data, swapFile, fsize, newsz, a, status, misread, R_ALGO>>

Next ==
    \/ \E touched \in SUBSET PageNos : Tick(touched)
    \/ GrowStart \/ GrowPage \/ GrowEvict \/ GrowUntracked \/ GrowFails \/ GrowDone
    \/ Shrink
    \/ \E v \in PageNos :
        \/ Write(v) \/ BadAccess(v) \/ KernelAccess(v)
        \/ FaultFree(v) \/ FaultSwap(v) \/ FaultKills(v) \/ FaultNoFrame(v)

Spec == Init /\ [][Next]_vars

-----------------------------------------------------------------------------
Mapped == IF a = NoPage THEN 0..(sz - 1) ELSE 0..(a - 1)

(* allocuvm, retrievePage: every page the process owns still has the bytes *)
(* it last wrote there, in its frame or in a slot of the swap file that is *)
(* its own, as long as no fault has read a slot that was not in use.       *)
BytesKept ==
    ~misread => \A v \in Mapped :
        /\ pte[v] = "P" => data[v] = v
        /\ pte[v] = "PG" => \E i \in DiscSlots \ FreeDiscSlots : disc[i].va = v /\ swapFile[i] = v

(* retrievePage: its search by address alone, which passes over isUsed,    *)
(* finds the page's own slot and not one left behind, except that page 0   *)
(* may match a slot removeDiscMetaData cleared.                            *)
SearchFindsOwnSlot ==
    ~misread => \A v \in Mapped \ {CodePage} :
        pte[v] = "PG" => DiscSlotOf(disc, v) \subseteq DiscSlots \ FreeDiscSlots

(* What a fault will find: the page's bytes are kept, in a slot that the   *)
(* search of retrievePage comes to.                                        *)
BytesFound == BytesKept /\ SearchFindsOwnSlot

(* The metadata agrees with the page table: a used slot of RAM is for a    *)
(* present page, a used slot of the swap file for a paged-out one, no page *)
(* has two slots, and every paged-out page has one.                        *)
TablesAgree ==
    /\ TypeOK
    /\ ~misread =>
         /\ \A i \in UsedPhys : pte[phys[i].va] = "P"
         /\ \A i \in DiscSlots \ FreeDiscSlots : pte[disc[i].va] = "PG"
         /\ \A i, j \in UsedPhys : phys[i].va = phys[j].va => i = j
         /\ \A i, j \in DiscSlots \ FreeDiscSlots : disc[i].va = disc[j].va => i = j
         /\ \A v \in PageNos : pte[v] = "PG" => \E i \in DiscSlots \ FreeDiscSlots : disc[i].va = v

(* retrievePage: a page fault kills the process only when RAM and swap     *)
(* file are both full, or AGING finds every counter saturated.  The swap   *)
(* file never refuses a write, although it cannot have holes.              *)
FatalOnlyIfFull ==
    status = "killed_swap" =>
        /\ ~spaceAvialableInMemory
        /\ \/ ~spaceAvialableInDisk
           \/ R_ALGO = 2 /\ \A i \in PhysSlots : phys[i].age = MaxAge
=============================================================================
