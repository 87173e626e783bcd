----------------------------- MODULE SwapProofs -----------------------------
(***************************************************************************)
(* Proofs about the swap files and page tables of several processes of     *)
(* Offline 4, for every number of processes, pages and slots: every living *)
(* process has its own swap file and tables of its own pages, and bytes    *)
(* go wrong only in the four ways that Swap names.                         *)
(***************************************************************************)
EXTENDS Swap, SetLemmas, SequenceTheorems

Entries == {Entry(d, v) : d \in Dirs, v \in Pages}
Frees == {Free(v) : v \in Pages}
Discs == [DiscIx -> Entries \cup Frees]
PTEs == [Pages -> {"none", "P", "PG"}]
Files == Seq(Pages \cup {Stale})

Processes ==
    [state : {"unused", "user", "doomed", "zombie"}, pid : Nat, parent : Slots \cup {0},
     dir : Dirs \cup {0}, sz : 0 .. MaxPages, at : 0 .. MaxPages,
     phys : SUBSET Entries, disc : Discs]

TypeOK ==
    /\ proc \in [Slots -> Processes]
    /\ pt \in [Dirs -> PTEs]
    /\ ram \in [Dirs -> [Pages -> BOOLEAN]]
    /\ swap \in [DOMAIN swap -> Files]
    /\ buffer \in [owner : Nat, va : Pages, right : BOOLEAN]
    /\ nextpid \in Nat \ {0}
    /\ panicked \in BOOLEAN
    /\ abandoned \in SUBSET Nat
    /\ blame \in SUBSET {"misread", "buffer", "fork", "exec"}

\* Pids and directories are used once.
Used == {s \in Slots : proc[s].state # "unused"}
IdInv ==
    /\ \A s \in Used : proc[s].dir \in Dirs /\ proc[s].pid \in 1 .. nextpid - 1 /\ proc[s].pid \notin abandoned
    /\ \A s, q \in Used : s # q => proc[s].dir # proc[q].dir /\ proc[s].pid # proc[q].pid
    /\ \A n \in abandoned : n < nextpid
    /\ \A s \in Slots : /\ proc[s].state = "doomed" => proc[s].at = 0
                        /\ proc[s].state = "unused" => proc[s].dir = 0

\* The two tables of p are about pages of the directories in D: the entries of
\* one are present, those of the other are out, one entry for each page.
Tables(p, tab, D) ==
    /\ \A t \in p.phys : t.dir \in D /\ tab[t.dir][t.va] = "P"
    /\ \A j \in DiscIx : p.disc[j].isUsed => p.disc[j].dir \in D /\ tab[p.disc[j].dir][p.disc[j].va] = "PG"
    /\ \A d \in D, v \in Pages : tab[d][v] = "PG" =>
         \E j \in DiscIx : p.disc[j].isUsed /\ p.disc[j].dir = d /\ p.disc[j].va = v
    /\ \A i, j \in DiscIx : p.disc[i].isUsed /\ p.disc[j].isUsed /\ p.disc[i].dir = p.disc[j].dir
                              /\ p.disc[i].va = p.disc[j].va => i = j

\* A process has the pages below its size and no others.
Sized(p, tab) == \A v \in Pages : tab[p.dir][v] # "none" <=> v < p.sz

TablesInv ==
    ~panicked /\ "misread" \notin blame =>
      /\ \A d \in FreeDirs : pt[d] = Clear
      /\ \A s \in Alive : Tables(proc[s], pt, {proc[s].dir}) /\ Sized(proc[s], pt)

\* An address is first found in the slot in use for it.
Ordered(p) == \A i, j \in DiscIx :
                p.disc[j].isUsed /\ p.disc[j].dir = p.dir /\ p.disc[i].va = p.disc[j].va => j <= i
OrderInv == /\ "misread" \in blame => "exec" \in blame
            /\ ~panicked /\ "exec" \notin blame => \A s \in Alive : Ordered(proc[s])

\* What is present is right in memory, but for a page on its way through the
\* buffer, and what is out is right in the file.
Held(p, tab, mem) == \A v \in Pages : tab[p.dir][v] = "P" => mem[p.dir][v] \/ p.at = v + 1
Saved(p, file) == \A j \in DiscIx : p.disc[j].isUsed /\ p.disc[j].dir = p.dir => Right(file, j, p.disc[j].va)
BytesInv ==
    ~panicked /\ blame = {} => \A s \in Alive :
      /\ Held(proc[s], pt, ram) /\ Saved(proc[s], swap[proc[s].pid])
      /\ buffer.owner = proc[s].pid /\ buffer.va + 1 = proc[s].at => buffer.right

\* The inductive invariant.
IInv ==
    /\ TypeOK
    /\ IdInv
    /\ SwapFilesOwned
    /\ TablesInv
    /\ OrderInv
    /\ BytesInv

-----------------------------------------------------------------------------
(* The least element of a set of naturals is one.                          *)
LEMMA MinIs ==
    ASSUME NEW T \in SUBSET Nat, T # {}
    PROVE  Min(T) \in T /\ \A y \in T : Min(T) <= y
BY LeastElement DEF Min

(* What the bounds are.                                                    *)
LEMMA Numbers == /\ Pages \subseteq Nat /\ 0 \in Pages /\ 1 \in Pages /\ DiscIx \subseteq Nat /\ MaxPages \in Nat
                 /\ Pages = 0 .. MaxPages - 1 /\ 0 \notin Dirs /\ 0 \notin Slots /\ Stale \notin Pages
BY PagesAssumption, SlotsAssumption, DirsAssumption DEF Pages, DiscIx, Stale

(* Table entries by their fields.                                          *)
LEMMA Fields ==
    /\ \A d, v : /\ Entry(d, v).isUsed /\ Entry(d, v).dir = d /\ Entry(d, v).va = v
                 /\ ~Free(v).isUsed /\ Free(v).dir = 0 /\ Free(v).va = v
    /\ \A t \in Entries : t.isUsed /\ t.dir \in Dirs /\ t.va \in Pages /\ t = Entry(t.dir, t.va)
    /\ \A t \in Frees : ~t.isUsed /\ t.dir = 0 /\ t.va \in Pages /\ t = Free(t.va)
    /\ \A d \in Dirs, v \in Pages : Entry(d, v) \in Entries
    /\ \A v \in Pages : Free(v) \in Frees
<1>1. \A d, v : /\ Entry(d, v).isUsed /\ Entry(d, v).dir = d /\ Entry(d, v).va = v
               /\ ~Free(v).isUsed /\ Free(v).dir = 0 /\ Free(v).va = v
  BY DEF Entry, Free
<1>2. /\ \A t \in Entries : \E d \in Dirs, v \in Pages : t = Entry(d, v)
      /\ \A t \in Frees : \E v \in Pages : t = Free(v)
      /\ \A d \in Dirs, v \in Pages : Entry(d, v) \in Entries
      /\ \A v \in Pages : Free(v) \in Frees
  BY DEF Entries, Frees
<1>3. \A t \in Entries : t.isUsed /\ t.dir \in Dirs /\ t.va \in Pages /\ t = Entry(t.dir, t.va)
  <2> SUFFICES ASSUME NEW t \in Entries PROVE t.isUsed /\ t.dir \in Dirs /\ t.va \in Pages /\ t = Entry(t.dir, t.va)
    OBVIOUS
  <2>1. PICK d \in Dirs, v \in Pages : t = Entry(d, v)
    BY <1>2
  <2> QED
    BY <1>1, <2>1
<1>4. \A t \in Frees : ~t.isUsed /\ t.dir = 0 /\ t.va \in Pages /\ t = Free(t.va)
  <2> SUFFICES ASSUME NEW t \in Frees PROVE ~t.isUsed /\ t.dir = 0 /\ t.va \in Pages /\ t = Free(t.va)
    OBVIOUS
  <2>1. PICK v \in Pages : t = Free(v)
    BY <1>2
  <2> QED
    BY <1>1, <2>1
<1> QED
  BY <1>1, <1>2, <1>3, <1>4

(* setupkvm: a new directory is one that no process has.                   *)
LEMMA NewDirFree == TypeOK => NewDir \in FreeDirs /\ NewDir \in Dirs /\ \A s \in Slots : proc[s].dir # NewDir
<1> SUFFICES ASSUME TypeOK PROVE NewDir \in FreeDirs
  BY DEF FreeDirs
<1> DEFINE Taken == {proc[s].dir : s \in Slots}
<1>1. IsFiniteSet(Taken) /\ Cardinality(Taken) <= Cardinality(Slots)
  <2> DEFINE f == [s \in Slots |-> proc[s].dir]
  <2>1. f \in Surjection(Slots, Taken)
    BY DEF Surjection
  <2> QED
    BY <2>1, SlotsAssumption, FS_Surjection
<1>2. ASSUME FreeDirs = {} PROVE FALSE
  <2>1. Dirs \in SUBSET Taken
    BY <1>2 DEF FreeDirs
  <2>2. Cardinality(Dirs) <= Cardinality(Taken)
    BY <1>1, <2>1, FS_Subset
  <2>3. Cardinality(Dirs) \in Nat /\ Cardinality(Taken) \in Nat /\ Cardinality(Slots) \in Nat
    BY <1>1, FS_CardinalityType, SlotsAssumption, DirsAssumption
  <2> HIDE DEF Taken
  <2> QED
    BY <1>1, <2>2, <2>3, DirsAssumption
<1>3. FreeDirs \in SUBSET Nat
  BY DirsAssumption DEF FreeDirs
<1> QED
  BY <1>2, <1>3, MinIs DEF NewDir

(* writeToSwapFile: the slot written holds the page, the others keep       *)
(* theirs.                                                                 *)
LEMMA WrittenIs ==
    ASSUME NEW file \in Files, NEW j \in DiscIx, CanWrite(file, j), NEW v \in Pages \cup {Stale}
    PROVE  /\ Written(file, j, v) \in Files
           /\ Right(Written(file, j, v), j, v)
           /\ \A k \in DiscIx : \A w : k # j /\ Right(file, k, w) => Right(Written(file, j, v), k, w)
<1> DEFINE n == Max({Len(file), 2 * j + 2})
           g == Written(file, j, v)
<1>1. j \in Nat /\ Len(file) \in Nat /\ file \in [1 .. Len(file) -> Pages \cup {Stale}]
  BY Numbers DEF Files
<1>2. n \in Nat /\ n >= Len(file) /\ n >= 2 * j + 2 /\ \A h \in Nat : h <= n => h <= Len(file) \/ h <= 2 * j + 2
  <2>1. \E x \in {Len(file), 2 * j + 2} : \A y \in {Len(file), 2 * j + 2} : x >= y
    BY <1>1
  <2> QED
    BY <1>1, <2>1 DEF Max
<1>3. g = [h \in 1 .. n |-> IF h \in {2 * j + 1, 2 * j + 2} THEN v ELSE file[h]]
  BY DEF Written
<1>a. 2 * j <= Len(file)
  BY DEF CanWrite
<1> HIDE DEF n, g
<1>4. \A h \in 1 .. n : h \notin {2 * j + 1, 2 * j + 2} => h \in 1 .. Len(file)
  <2> SUFFICES ASSUME NEW h \in 1 .. n, h # 2 * j + 1, h # 2 * j + 2 PROVE h \in 1 .. Len(file)
    OBVIOUS
  <2>1. h <= Len(file) \/ h <= 2 * j + 2
    BY <1>2
  <2> QED
    BY <1>1, <1>a, <2>1
<1>6. g \in [1 .. n -> Pages \cup {Stale}]
  <2>1. \A h \in 1 .. Len(file) : file[h] \in Pages \cup {Stale}
    BY <1>1
  <2> QED
    BY <1>3, <1>4, <2>1
<1>7. g \in Files /\ Len(g) = n
  BY <1>2, <1>6 DEF Files
<1>8. Right(g, j, v)
  <2>1. 2 * j + 1 \in 1 .. n /\ 2 * j + 2 \in 1 .. n
    BY <1>1, <1>2
  <2>2. g[2 * j + 1] = v /\ g[2 * j + 2] = v
    BY <1>3, <2>1
  <2> QED
    BY <1>2, <1>7, <2>2 DEF Right
<1>9. ASSUME NEW k \in DiscIx, NEW w, k # j, Right(file, k, w) PROVE Right(g, k, w)
  <2>1. k \in Nat /\ 2 * k + 2 <= Len(file) /\ file[2 * k + 1] = w /\ file[2 * k + 2] = w
    BY <1>9, Numbers DEF Right
  <2>2. 2 * k + 1 \in 1 .. n /\ 2 * k + 2 \in 1 .. n /\ 2 * k + 2 <= n
    BY <1>1, <1>2, <2>1
  <2>3. 2 * k + 1 \notin {2 * j + 1, 2 * j + 2} /\ 2 * k + 2 \notin {2 * j + 1, 2 * j + 2}
    BY <1>1, <1>9, <2>1
  <2>4. g[2 * k + 1] = w /\ g[2 * k + 2] = w
    BY <1>3, <2>1, <2>2, <2>3
  <2> QED
    BY <1>7, <2>2, <2>4 DEF Right
<1> QED
  BY <1>7, <1>8, <1>9 DEF g

-----------------------------------------------------------------------------
(* The operations on the tables of one process.                            *)

Calls == [p : Processes, pt : [Dirs -> PTEs], ram : [Dirs -> [Pages -> BOOLEAN]], file : Files,
          ok : BOOLEAN, panic : BOOLEAN, moved : BOOLEAN]

\* y is about the same process as x.
Same(x, y) == /\ y.p.state = x.p.state /\ y.p.pid = x.p.pid /\ y.p.parent = x.p.parent
              /\ y.p.dir = x.p.dir /\ y.p.sz = x.p.sz /\ y.p.at = x.p.at
\* y has the tables, memory and file of x.
Kept(x, y) == y.p = x.p /\ y.pt = x.pt /\ y.ram = x.ram /\ y.file = x.file
\* Page t went from x to slot j.
Moved(x, y, t, j) ==
    /\ j \in DiscIx /\ ~x.p.disc[j].isUsed /\ \A i \in DiscIx : i < j => x.p.disc[i].isUsed
    /\ CanWrite(x.file, j) /\ x.pt[x.p.dir][t.va] = "P"
    /\ y.p.phys = x.p.phys \ {t} /\ y.p.disc = [x.p.disc EXCEPT ![j] = t]
    /\ y.pt = [x.pt EXCEPT ![t.dir][t.va] = "PG"] /\ y.ram = x.ram
    /\ y.file = Written(x.file, j, IF t.dir = x.p.dir /\ x.ram[t.dir][t.va] THEN t.va ELSE Stale)

(* reallocatePageInDisk refuses, panics, or moves the victim to the first  *)
(* free slot.                                                              *)
LEMMA EvictIs ==
    ASSUME NEW x \in Calls, x.ok, ~x.panic, x.p.dir \in Dirs, NEW t \in x.p.phys
    PROVE  LET e == reallocatePageInDisk(x, t) IN
           /\ e \in Calls /\ Same(x, e)
           /\ ~e.ok \/ e.panic => Kept(x, e)
           /\ ~e.ok => ~e.panic
           /\ e.ok /\ ~e.panic => \E j \in DiscIx : Moved(x, e, t, j)
<1> DEFINE e == reallocatePageInDisk(x, t)
           j == Min(FreeDisc(x))
           v == IF t.dir = x.p.dir /\ x.ram[t.dir][t.va] THEN t.va ELSE Stale
           m == [x EXCEPT !.p.disc[j] = t, !.p.phys = @ \ {t}, !.pt[t.dir][t.va] = "PG",
                          !.file = Written(x.file, j, v), !.moved = TRUE]
<1>1. t \in Entries /\ t.dir \in Dirs /\ t.va \in Pages
  BY Fields DEF Calls, Processes
<1>2. CASE FreeDisc(x) = {} \/ ~CanWrite(x.file, j)
  <2>1. e = [x EXCEPT !.ok = FALSE]
    BY <1>2 DEF reallocatePageInDisk
  <2> QED
    BY <2>1 DEF Calls, Same, Kept
<1>3. CASE ~(FreeDisc(x) = {} \/ ~CanWrite(x.file, j)) /\ x.pt[x.p.dir][t.va] # "P"
  <2>1. e = [x EXCEPT !.panic = TRUE]
    BY <1>3 DEF reallocatePageInDisk
  <2> QED
    BY <2>1 DEF Calls, Same, Kept
<1>4. CASE ~(FreeDisc(x) = {} \/ ~CanWrite(x.file, j)) /\ x.pt[x.p.dir][t.va] = "P"
  <2>1. e = m
    BY <1>4 DEF reallocatePageInDisk
  <2>2. j \in FreeDisc(x) /\ \A i \in FreeDisc(x) : j <= i
    <3>1. FreeDisc(x) \in SUBSET Nat /\ FreeDisc(x) # {}
      BY <1>4, Numbers DEF FreeDisc
    <3> QED
      BY <3>1, MinIs
  <2>3. j \in DiscIx /\ ~x.p.disc[j].isUsed /\ \A i \in DiscIx : i < j => x.p.disc[i].isUsed
    <3>1. j \in DiscIx /\ ~x.p.disc[j].isUsed
      BY <2>2 DEF FreeDisc
    <3>2. ASSUME NEW i \in DiscIx, i < j, ~x.p.disc[i].isUsed PROVE FALSE
      <4>1. i \in FreeDisc(x)
        BY <3>2 DEF FreeDisc
      <4>2. j <= i /\ i \in Nat /\ j \in Nat
        BY <2>2, <3>1, <4>1, Numbers
      <4> HIDE DEF j
      <4> QED
        BY <3>2, <4>2
    <3> QED
      BY <3>1, <3>2
  <2>4. v \in Pages \cup {Stale}
    BY <1>1
  <2>5. Written(x.file, j, v) \in Files
    BY <1>4, <2>3, <2>4, WrittenIs DEF Calls
  <2> HIDE DEF j, v
  <2>6. /\ m.p = [x.p EXCEPT !.disc[j] = t, !.phys = @ \ {t}]
        /\ m.pt = [x.pt EXCEPT ![t.dir][t.va] = "PG"]
        /\ m.ram = x.ram /\ m.file = Written(x.file, j, v) /\ m.ok = x.ok /\ m.panic = x.panic /\ m.moved = TRUE
    BY DEF Calls
  <2>7. x.p \in Processes
    BY DEF Calls
  <2> HIDE DEF m
  <2>8. /\ m.p.disc = [x.p.disc EXCEPT ![j] = t] /\ m.p.phys = x.p.phys \ {t}
        /\ Same(x, m)
    BY <2>6, <2>7 DEF Processes, Same
  <2>9. m.p \in Processes
    <3>1. [x.p.disc EXCEPT ![j] = t] \in Discs
      BY <1>1, <2>7 DEF Processes, Discs
    <3> QED
      BY <2>6, <2>7, <3>1 DEF Processes
  <2>10. m.pt \in [Dirs -> PTEs]
    BY <1>1, <2>6 DEF Calls, PTEs
  <2>11. m \in Calls
    BY <2>5, <2>6, <2>9, <2>10 DEF Calls, m
  <2>12. Moved(x, m, t, j)
    BY <1>4, <2>3, <2>6, <2>8 DEF Moved, v
  <2> QED
    BY <2>1, <2>3, <2>6, <2>8, <2>11, <2>12
<1> QED
  BY <1>2, <1>3, <1>4

(* An eviction changes one entry of one page table, and a table entry goes *)
(* from one table of the process to the other.                             *)
LEMMA MovedIs ==
    ASSUME NEW x \in Calls, NEW y \in Calls, NEW t \in x.p.phys, NEW j \in DiscIx, Moved(x, y, t, j)
    PROVE  /\ t.dir \in Dirs /\ t.va \in Pages /\ t.isUsed
           /\ \A i \in DiscIx : y.p.disc[i] = IF i = j THEN t ELSE x.p.disc[i]
           /\ \A d \in Dirs, v \in Pages : y.pt[d][v] = IF d = t.dir /\ v = t.va THEN "PG" ELSE x.pt[d][v]
           /\ \A d \in Dirs : d # t.dir => y.pt[d] = x.pt[d]
           /\ \A i \in DiscIx : x.p.disc[i].va \in Pages /\ (x.p.disc[i].isUsed => x.p.disc[i].dir \in Dirs)
           /\ y.p.phys = x.p.phys \ {t} /\ y.ram = x.ram
           /\ \A u \in x.p.phys : u.dir \in Dirs /\ u.va \in Pages /\ u = Entry(u.dir, u.va)
<1>1. x.p \in Processes /\ x.p.phys \in SUBSET Entries /\ x.p.disc \in Discs /\ x.pt \in [Dirs -> PTEs]
  BY DEF Calls, Processes
<1>2. t.dir \in Dirs /\ t.va \in Pages /\ t.isUsed
  BY <1>1, Fields
<1>3. /\ \A d \in Dirs, v \in Pages : y.pt[d][v] = IF d = t.dir /\ v = t.va THEN "PG" ELSE x.pt[d][v]
      /\ \A d \in Dirs : d # t.dir => y.pt[d] = x.pt[d]
  BY <1>1, <1>2 DEF Moved, PTEs
<1>4. \A i \in DiscIx : y.p.disc[i] = IF i = j THEN t ELSE x.p.disc[i]
  BY <1>1 DEF Moved, Discs
<1>5. \A i \in DiscIx : x.p.disc[i].va \in Pages /\ (x.p.disc[i].isUsed => x.p.disc[i].dir \in Dirs)
  <2>1. \A i \in DiscIx : x.p.disc[i] \in Entries \/ x.p.disc[i] \in Frees
    BY <1>1 DEF Discs
  <2> QED
    BY <2>1, Fields
<1>6. \A u \in x.p.phys : u.dir \in Dirs /\ u.va \in Pages /\ u = Entry(u.dir, u.va)
  BY <1>1, Fields
<1> QED
  BY <1>2, <1>3, <1>4, <1>5, <1>6 DEF Moved

(* An eviction keeps the tables in agreement with the page tables.         *)
LEMMA MovedTables ==
    ASSUME NEW x \in Calls, NEW y \in Calls, NEW t \in x.p.phys, NEW j \in DiscIx, Moved(x, y, t, j), Same(x, y),
           NEW D \in SUBSET Dirs, Tables(x.p, x.pt, D)
    PROVE  /\ Tables(y.p, y.pt, D)
           /\ \A d \in Dirs \ D : y.pt[d] = x.pt[d]
           /\ \A d \in Dirs, v \in Pages : y.pt[d][v] = "none" <=> x.pt[d][v] = "none"
<1>1. t.dir \in D /\ x.pt[t.dir][t.va] = "P" /\ ~x.p.disc[j].isUsed
  BY DEF Tables, Moved
<1>2. \A u \in y.p.phys : u.dir \in D /\ y.pt[u.dir][u.va] = "P"
  <2> SUFFICES ASSUME NEW u \in y.p.phys PROVE u.dir \in D /\ y.pt[u.dir][u.va] = "P"
    OBVIOUS
  <2>1. u \in x.p.phys /\ u # t
    BY MovedIs
  <2>2. u.dir \in D /\ x.pt[u.dir][u.va] = "P"
    BY <2>1 DEF Tables
  <2>3. ~(u.dir = t.dir /\ u.va = t.va)
    BY <2>1, MovedIs
  <2> QED
    BY <2>1, <2>2, <2>3, MovedIs
<1>3. \A i \in DiscIx : y.p.disc[i].isUsed => y.p.disc[i].dir \in D /\ y.pt[y.p.disc[i].dir][y.p.disc[i].va] = "PG"
  <2> SUFFICES ASSUME NEW i \in DiscIx, y.p.disc[i].isUsed
               PROVE  y.p.disc[i].dir \in D /\ y.pt[y.p.disc[i].dir][y.p.disc[i].va] = "PG"
    OBVIOUS
  <2>1. CASE i = j
    BY <1>1, <2>1, MovedIs
  <2>2. CASE i # j
    <3>1. y.p.disc[i] = x.p.disc[i] /\ x.p.disc[i].isUsed
      BY <2>2, MovedIs
    <3>2. x.p.disc[i].dir \in D /\ x.pt[x.p.disc[i].dir][x.p.disc[i].va] = "PG"
      BY <3>1 DEF Tables
    <3>3. x.p.disc[i].dir \in Dirs /\ x.p.disc[i].va \in Pages
      BY <3>1, MovedIs
    <3>4. y.pt[x.p.disc[i].dir][x.p.disc[i].va] = "PG"
      <4>1. \A d \in Dirs, v \in Pages : x.pt[d][v] = "PG" => y.pt[d][v] = "PG"
        BY MovedIs
      <4> QED
        BY <3>2, <3>3, <4>1
    <3> QED
      BY <3>1, <3>2, <3>4
  <2> QED
    BY <2>1, <2>2
<1>4. \A d \in D, v \in Pages : y.pt[d][v] = "PG" =>
        \E i \in DiscIx : y.p.disc[i].isUsed /\ y.p.disc[i].dir = d /\ y.p.disc[i].va = v
  <2> SUFFICES ASSUME NEW d \in D, NEW v \in Pages, y.pt[d][v] = "PG"
               PROVE  \E i \in DiscIx : y.p.disc[i].isUsed /\ y.p.disc[i].dir = d /\ y.p.disc[i].va = v
    OBVIOUS
  <2>1. CASE d = t.dir /\ v = t.va
    BY <2>1, MovedIs
  <2>2. CASE ~(d = t.dir /\ v = t.va)
    <3>1. x.pt[d][v] = "PG"
      BY <2>2, MovedIs
    <3>2. PICK i \in DiscIx : x.p.disc[i].isUsed /\ x.p.disc[i].dir = d /\ x.p.disc[i].va = v
      BY <3>1 DEF Tables
    <3>3. i # j
      BY <1>1, <3>2
    <3>4. y.p.disc[i] = x.p.disc[i]
      BY <3>3, MovedIs
    <3> QED
      BY <3>2, <3>4
  <2> QED
    BY <2>1, <2>2
<1>5. \A i, k \in DiscIx : y.p.disc[i].isUsed /\ y.p.disc[k].isUsed /\ y.p.disc[i].dir = y.p.disc[k].dir
                             /\ y.p.disc[i].va = y.p.disc[k].va => i = k
  <2>1. \A i \in DiscIx : i # j /\ y.p.disc[i].isUsed => ~(y.p.disc[i].dir = t.dir /\ y.p.disc[i].va = t.va)
    <3>1. \A i \in DiscIx : x.p.disc[i].isUsed => ~(x.p.disc[i].dir = t.dir /\ x.p.disc[i].va = t.va)
      BY <1>1 DEF Tables
    <3> QED
      BY <3>1, MovedIs
  <2>2. \A i, k \in DiscIx : x.p.disc[i].isUsed /\ x.p.disc[k].isUsed /\ x.p.disc[i].dir = x.p.disc[k].dir
                             /\ x.p.disc[i].va = x.p.disc[k].va => i = k
    BY DEF Tables
  <2> SUFFICES ASSUME NEW i \in DiscIx, NEW k \in DiscIx, y.p.disc[i].isUsed, y.p.disc[k].isUsed,
                      y.p.disc[i].dir = y.p.disc[k].dir, y.p.disc[i].va = y.p.disc[k].va
               PROVE  i = k
    OBVIOUS
  <2>3. y.p.disc[j] = t /\ \A m \in DiscIx : m # j => y.p.disc[m] = x.p.disc[m]
    BY MovedIs
  <2>4. CASE i = j \/ k = j
    BY <2>1, <2>3, <2>4
  <2>5. CASE i # j /\ k # j
    BY <2>2, <2>3, <2>5
  <2> QED
    BY <2>4, <2>5
<1>6. \A d \in Dirs \ D : y.pt[d] = x.pt[d]
  BY <1>1, MovedIs
<1>7. \A d \in Dirs, v \in Pages : y.pt[d][v] = "none" <=> x.pt[d][v] = "none"
  BY <1>1, MovedIs
<1> QED
  BY <1>2, <1>3, <1>4, <1>5, <1>6, <1>7 DEF Tables

\* All pages on disc are the process's own.
OwnDisc(p) == \A i \in DiscIx : p.disc[i].isUsed => p.disc[i].dir = p.dir

(* An eviction keeps the order of the slots and the bytes of the running   *)
(* program.                                                                *)
LEMMA MovedBytes ==
    ASSUME NEW x \in Calls, NEW y \in Calls, NEW t \in x.p.phys, NEW j \in DiscIx, Moved(x, y, t, j), Same(x, y),
           NEW D \in SUBSET Dirs, Tables(x.p, x.pt, D), x.p.dir \in D, OwnDisc(x.p)
    PROVE  /\ Ordered(x.p) => Ordered(y.p)
           /\ x.p.at = 0 /\ Held(x.p, x.pt, x.ram) /\ Saved(x.p, x.file) =>
                Held(y.p, y.pt, y.ram) /\ Saved(y.p, y.file)
           /\ t.dir = x.p.dir => OwnDisc(y.p)
<1>1. t.dir \in D /\ x.pt[t.dir][t.va] = "P" /\ ~x.p.disc[j].isUsed /\ x.pt[x.p.dir][t.va] = "P" /\ y.p.dir = x.p.dir
  BY DEF Tables, Moved, Same
<1>2. \A i \in DiscIx : x.p.disc[i].isUsed => x.p.disc[i].dir = x.p.dir /\ x.p.disc[i].va # t.va
  BY <1>1 DEF Tables, OwnDisc
<1>3. ASSUME Ordered(x.p) PROVE Ordered(y.p)
  <2> SUFFICES ASSUME NEW i \in DiscIx, NEW k \in DiscIx, y.p.disc[k].isUsed, y.p.disc[k].dir = y.p.dir,
                      y.p.disc[i].va = y.p.disc[k].va
               PROVE  k <= i
    BY DEF Ordered
  <2>1. CASE k = j
    <3>1. \A m \in DiscIx : m < j => x.p.disc[m].va # t.va
      BY <1>2 DEF Moved
    <3>2. ~(i < j) /\ i \in Nat /\ j \in Nat
      BY <2>1, <3>1, MovedIs, Numbers
    <3> QED
      BY <2>1, <3>2
  <2>2. CASE k # j
    <3>1. y.p.disc[k] = x.p.disc[k] /\ x.p.disc[k].isUsed /\ x.p.disc[k].dir = x.p.dir /\ x.p.disc[k].va # t.va
      BY <1>2, <2>2, MovedIs
    <3>2. i # j /\ y.p.disc[i] = x.p.disc[i]
      BY <3>1, MovedIs
    <3> QED
      BY <1>3, <3>1, <3>2 DEF Ordered
  <2> QED
    BY <2>1, <2>2
<1>4. ASSUME x.p.at = 0, Held(x.p, x.pt, x.ram), Saved(x.p, x.file)
      PROVE  Held(y.p, y.pt, y.ram) /\ Saved(y.p, y.file)
  <2>0. x.p.dir \in Dirs /\ x.file \in Files
    BY DEF Calls
  <2>1. \A v \in Pages : x.pt[x.p.dir][v] = "P" => x.ram[x.p.dir][v]
    BY <1>4, Numbers DEF Held
  <2>2. Held(y.p, y.pt, y.ram)
    <3>1. \A v \in Pages : y.pt[x.p.dir][v] = "P" => x.pt[x.p.dir][v] = "P"
      BY <2>0, MovedIs
    <3> QED
      BY <1>1, <2>1, <3>1, MovedIs DEF Held
  <2> DEFINE b == IF t.dir = x.p.dir /\ x.ram[t.dir][t.va] THEN t.va ELSE Stale
  <2>3. b \in Pages \cup {Stale} /\ y.file = Written(x.file, j, b) /\ CanWrite(x.file, j)
    <3>1. t.va \in Pages
      BY MovedIs
    <3>2. Moved(x, y, t, j)
      OBVIOUS
    <3> QED
      BY ONLY <3>1, <3>2 DEF Moved
  <2>4. t.dir = x.p.dir => b = t.va
    BY <1>1, <2>1, MovedIs
  <2> HIDE DEF b
  <2>5. Right(y.file, j, b) /\ \A k \in DiscIx : \A w : k # j /\ Right(x.file, k, w) => Right(y.file, k, w)
    BY <2>0, <2>3, WrittenIs
  <2>6. ASSUME NEW k \in DiscIx, y.p.disc[k].isUsed, y.p.disc[k].dir = y.p.dir PROVE Right(y.file, k, y.p.disc[k].va)
    <3>1. CASE k = j
      BY <1>1, <2>4, <2>5, <2>6, <3>1, MovedIs
    <3>2. CASE k # j
      <4>1. y.p.disc[k] = x.p.disc[k]
        BY <3>2, MovedIs
      <4>2. Right(x.file, k, x.p.disc[k].va)
        BY <1>1, <1>4, <2>6, <4>1 DEF Saved
      <4> QED
        BY <2>5, <3>2, <4>1, <4>2
    <3> QED
      BY <3>1, <3>2
  <2> QED
    BY <2>2, <2>6 DEF Saved
<1>5. t.dir = x.p.dir => OwnDisc(y.p)
  BY <1>1, <1>2, MovedIs DEF OwnDisc
<1> QED
  BY <1>3, <1>4, <1>5

\* Page v of directory d of e was mapped, and is in the table or not.
Mapped(e, y, d, v) ==
    /\ y.p.phys \in {e.p.phys, e.p.phys \cup {Entry(d, v)}} /\ y.p.disc = e.p.disc
    /\ y.pt = [e.pt EXCEPT ![d][v] = "P"] /\ y.ram = [e.ram EXCEPT ![d][v] = TRUE] /\ y.file = e.file

(* The end of allocuvm's loop: the page is mapped, then recorded.          *)
LEMMA MapIs ==
    ASSUME NEW e \in Calls, NEW d \in Dirs, NEW v \in Pages
    PROVE  LET m == [e EXCEPT !.pt[d][v] = "P", !.ram[d][v] = TRUE, !.ok = TRUE]
               k == [m EXCEPT !.p.phys = @ \cup {Entry(d, v)}]
           IN /\ m \in Calls /\ Same(e, m) /\ Mapped(e, m, d, v) /\ m.panic = e.panic /\ m.ok
              /\ k \in Calls /\ Same(e, k) /\ Mapped(e, k, d, v) /\ k.panic = e.panic /\ k.ok
<1> DEFINE m == [e EXCEPT !.pt[d][v] = "P", !.ram[d][v] = TRUE, !.ok = TRUE]
           k == [m EXCEPT !.p.phys = @ \cup {Entry(d, v)}]
<1>1. /\ m.p = e.p /\ m.pt = [e.pt EXCEPT ![d][v] = "P"] /\ m.ram = [e.ram EXCEPT ![d][v] = TRUE]
      /\ m.file = e.file /\ m.ok = TRUE /\ m.panic = e.panic /\ m.moved = e.moved
  BY DEF Calls
<1>2. m.pt \in [Dirs -> PTEs] /\ m.ram \in [Dirs -> [Pages -> BOOLEAN]]
  BY <1>1 DEF Calls, PTEs
<1>3. m \in Calls
  BY <1>1, <1>2 DEF Calls
<1> HIDE DEF m
<1>4. /\ k.p = [m.p EXCEPT !.phys = @ \cup {Entry(d, v)}] /\ k.pt = m.pt /\ k.ram = m.ram
      /\ k.file = m.file /\ k.ok = m.ok /\ k.panic = m.panic /\ k.moved = m.moved
  BY <1>3 DEF Calls
<1>5. k.p.phys = m.p.phys \cup {Entry(d, v)} /\ k.p.disc = m.p.disc /\ Same(m, k)
  BY <1>3, <1>4 DEF Calls, Processes, Same
<1>6. k.p \in Processes
  <2>1. m.p \in Processes /\ Entry(d, v) \in Entries
    BY <1>3, Fields DEF Calls
  <2>2. m.p.phys \cup {Entry(d, v)} \in SUBSET Entries
    BY <2>1 DEF Processes
  <2> QED
    BY <1>4, <2>1, <2>2 DEF Processes
<1>7. k \in Calls
  BY <1>3, <1>4, <1>6 DEF Calls
<1> HIDE DEF k
<1>8. Same(e, m) /\ Same(e, k)
  BY <1>1, <1>5 DEF Same
<1>9. Mapped(e, m, d, v) /\ Mapped(e, k, d, v)
  BY <1>1, <1>4, <1>5 DEF Mapped
<1> QED
  BY <1>1, <1>3, <1>4, <1>7, <1>8, <1>9 DEF m, k

(* One page of allocuvm: refused with nothing done, or mapped, after an    *)
(* eviction or not.                                                        *)
LEMMA AllocIs ==
    ASSUME NEW x \in Calls, x.ok, ~x.panic, x.p.dir \in Dirs, NEW d \in Dirs, NEW v \in Pages,
           NEW t \in Victims(x)
    PROVE  LET y == AllocPage(x, d, v, t) IN
           /\ y \in Calls /\ Same(x, y)
           /\ ~y.ok => Kept(x, y) /\ ~y.panic
           /\ y.ok /\ ~y.panic => \E e \in Calls :
                /\ Same(x, e) /\ Same(e, y) /\ Mapped(e, y, d, v)
                /\ Kept(x, e) \/ (t \in x.p.phys /\ \E j \in DiscIx : Moved(x, e, t, j))
<1> DEFINE y == AllocPage(x, d, v, t)
           e == IF RamFull(x) THEN reallocatePageInDisk(x, t) ELSE x
           m == [e EXCEPT !.pt[d][v] = "P", !.ram[d][v] = TRUE, !.ok = TRUE]
           k == [m EXCEPT !.p.phys = @ \cup {Entry(d, v)}]
<1>0. x \in Calls /\ Same(x, x) /\ Kept(x, x)
  BY DEF Same, Kept
<1>1. CASE RamFull(x) /\ FreeDisc(x) = {}
  <2>1. y = [x EXCEPT !.ok = FALSE]
    BY ONLY <1>1 DEF AllocPage
  <2> HIDE DEF e, m, k, y
  <2>2. x \in Calls /\ ~x.panic
    OBVIOUS
  <2>3. y \in Calls /\ ~y.ok /\ y.p = x.p /\ y.pt = x.pt /\ y.ram = x.ram /\ y.file = x.file /\ ~y.panic
    BY ONLY <2>1, <2>2 DEF Calls
  <2>4. Same(x, y) /\ Kept(x, y)
    BY ONLY <2>3 DEF Same, Kept
  <2> QED
    BY ONLY <2>3, <2>4 DEF y
<1>2. CASE ~(RamFull(x) /\ FreeDisc(x) = {})
  <2>1. y = MapPage(e, d, v)
    BY ONLY <1>2 DEF AllocPage
  <2>2. /\ e \in Calls /\ Same(x, e) /\ (~e.ok => ~e.panic) /\ (~e.ok \/ e.panic => Kept(x, e))
        /\ e.ok /\ ~e.panic => Kept(x, e) \/ (t \in x.p.phys /\ \E j \in DiscIx : Moved(x, e, t, j))
    <3>1. CASE RamFull(x)
      <4>1. t \in x.p.phys
        BY <3>1 DEF Victims
      <4> QED
        BY <3>1, <4>1, EvictIs
    <3>2. CASE ~RamFull(x)
      BY <1>0, <3>2
    <3> QED
      BY <3>1, <3>2
  <2> HIDE DEF e, y
  <2>y. y = IF e.ok /\ ~e.panic THEN k ELSE m
    BY ONLY <2>1 DEF MapPage
  <2>3. /\ m \in Calls /\ Same(e, m) /\ Mapped(e, m, d, v) /\ m.panic = e.panic /\ m.ok
        /\ k \in Calls /\ Same(e, k) /\ Mapped(e, k, d, v) /\ k.panic = e.panic /\ k.ok
    BY <2>2, MapIs
  <2> HIDE DEF m, k
  <2>4. y \in Calls /\ Same(e, y) /\ Mapped(e, y, d, v) /\ y.panic = e.panic /\ y.ok
    BY ONLY <2>y, <2>3
  <2>5. Same(x, y)
    BY <2>2, <2>4 DEF Same
  <2>6. y \in Calls /\ Same(x, y) /\ (~y.ok => Kept(x, y) /\ ~y.panic)
    BY <2>4, <2>5
  <2>7. ~y.panic => /\ Same(x, e) /\ Same(e, y) /\ Mapped(e, y, d, v)
                    /\ Kept(x, e) \/ (t \in x.p.phys /\ \E j \in DiscIx : Moved(x, e, t, j))
    BY <2>2, <2>4
  <2> QED
    BY <2>2, <2>6, <2>7 DEF y
<1> QED
  BY <1>1, <1>2

\* The pages of c that are present hold the right bytes.
RightIn(x, c) == \A v \in Pages : x.pt[c][v] = "P" => x.ram[c][v]

(* Mapping a page that was not there keeps the tables in agreement with    *)
(* the page tables, and changes one entry.                                 *)
LEMMA MappedTables ==
    ASSUME NEW x \in Calls, NEW y \in Calls, NEW d \in Dirs, NEW v \in Pages, Mapped(x, y, d, v), Same(x, y),
           NEW D \in SUBSET Dirs, Tables(x.p, x.pt, D), d \in D, x.pt[d][v] = "none"
    PROVE  /\ Tables(y.p, y.pt, D)
           /\ \A c \in Dirs : c # d => y.pt[c] = x.pt[c] /\ y.ram[c] = x.ram[c]
           /\ \A c \in Dirs, w \in Pages : y.pt[c][w] = IF c = d /\ w = v THEN "P" ELSE x.pt[c][w]
           /\ \A c \in Dirs : RightIn(x, c) => RightIn(y, c)
           /\ Ordered(x.p) => Ordered(y.p)
           /\ OwnDisc(x.p) => OwnDisc(y.p)
           /\ Saved(x.p, x.file) => Saved(y.p, y.file)
<1>1. x.pt \in [Dirs -> [Pages -> {"none", "P", "PG"}]] /\ x.ram \in [Dirs -> [Pages -> BOOLEAN]]
  BY DEF Calls, PTEs
<1>2. /\ \A c \in Dirs : c # d => y.pt[c] = x.pt[c]
      /\ \A c \in Dirs, w \in Pages : y.pt[c][w] = IF c = d /\ w = v THEN "P" ELSE x.pt[c][w]
  <2>1. y.pt = [x.pt EXCEPT ![d][v] = "P"]
    BY DEF Mapped
  <2> QED
    BY <1>1, <2>1
<1>m. /\ \A c \in Dirs : c # d => y.ram[c] = x.ram[c]
      /\ \A c \in Dirs, w \in Pages : IF c = d /\ w = v THEN y.ram[c][w] ELSE y.ram[c][w] = x.ram[c][w]
  <2>1. y.ram = [x.ram EXCEPT ![d] = [x.ram[d] EXCEPT ![v] = TRUE]]
    BY DEF Mapped
  <2>2. \A c \in Dirs : c # d => y.ram[c] = x.ram[c]
    BY <1>1, <2>1
  <2>3. y.ram[d] = [x.ram[d] EXCEPT ![v] = TRUE] /\ x.ram[d] \in [Pages -> BOOLEAN]
    BY <1>1, <2>1
  <2>4. y.ram[d][v] /\ \A w \in Pages : w # v => y.ram[d][w] = x.ram[d][w]
    BY <2>3, Zenon
  <2> QED
    BY <2>2, <2>4
<1>3. y.p.disc = x.p.disc /\ y.p.dir = x.p.dir /\ y.file = x.file
  BY DEF Mapped, Same
<1>4. \A u \in x.p.phys : u.dir \in Dirs /\ u.va \in Pages
  BY Fields DEF Calls, Processes
<1>5. \A i \in DiscIx : x.p.disc[i].va \in Pages /\ (x.p.disc[i].isUsed => x.p.disc[i].dir \in Dirs)
  <2>1. \A i \in DiscIx : x.p.disc[i] \in Entries \/ x.p.disc[i] \in Frees
    BY DEF Discs, Calls, Processes
  <2> QED
    BY <2>1, Fields
<1>6. \A u \in y.p.phys : u.dir \in D /\ y.pt[u.dir][u.va] = "P"
  <2> SUFFICES ASSUME NEW u \in y.p.phys PROVE u.dir \in D /\ y.pt[u.dir][u.va] = "P"
    OBVIOUS
  <2>1. u \in x.p.phys \/ u = Entry(d, v)
    BY DEF Mapped
  <2>2. CASE u \in x.p.phys
    <3>1. u.dir \in D /\ x.pt[u.dir][u.va] = "P" /\ u.dir \in Dirs /\ u.va \in Pages
      BY <1>4, <2>2 DEF Tables
    <3>2. \A c \in Dirs, w \in Pages : x.pt[c][w] = "P" => y.pt[c][w] = "P"
      BY <1>2
    <3> QED
      BY <3>1, <3>2
  <2>3. CASE u = Entry(d, v)
    <3>1. u.dir = d /\ u.va = v
      BY <2>3, Fields
    <3>2. y.pt[d][v] = "P"
      BY <1>2
    <3> QED
      BY <3>1, <3>2
  <2> QED
    BY <2>1, <2>2, <2>3
<1>7. \A i \in DiscIx : y.p.disc[i].isUsed => y.p.disc[i].dir \in D /\ y.pt[y.p.disc[i].dir][y.p.disc[i].va] = "PG"
  <2> SUFFICES ASSUME NEW i \in DiscIx, x.p.disc[i].isUsed
               PROVE  x.p.disc[i].dir \in D /\ y.pt[x.p.disc[i].dir][x.p.disc[i].va] = "PG"
    BY <1>3
  <2>1. /\ x.p.disc[i].dir \in D /\ x.pt[x.p.disc[i].dir][x.p.disc[i].va] = "PG"
        /\ x.p.disc[i].dir \in Dirs /\ x.p.disc[i].va \in Pages
    BY <1>5 DEF Tables
  <2>2. \A c \in Dirs, w \in Pages : x.pt[c][w] = "PG" => y.pt[c][w] = "PG"
    BY <1>2
  <2> QED
    BY <2>1, <2>2
<1>8. \A c \in D, w \in Pages : y.pt[c][w] = "PG" =>
        \E i \in DiscIx : y.p.disc[i].isUsed /\ y.p.disc[i].dir = c /\ y.p.disc[i].va = w
  <2>1. \A c \in Dirs, w \in Pages : y.pt[c][w] = "PG" => x.pt[c][w] = "PG"
    BY <1>2
  <2> QED
    BY <1>3, <2>1 DEF Tables
<1>9. Tables(y.p, y.pt, D)
  <2>1. \A i, j \in DiscIx : y.p.disc[i].isUsed /\ y.p.disc[j].isUsed /\ y.p.disc[i].dir = y.p.disc[j].dir
                              /\ y.p.disc[i].va = y.p.disc[j].va => i = j
    BY <1>3 DEF Tables
  <2> QED
    BY <1>6, <1>7, <1>8, <2>1 DEF Tables
<1>10. \A c \in Dirs : RightIn(x, c) => RightIn(y, c)
  BY <1>2, <1>m DEF RightIn
<1>11. /\ Ordered(x.p) => Ordered(y.p)
       /\ OwnDisc(x.p) => OwnDisc(y.p)
       /\ Saved(x.p, x.file) => Saved(y.p, y.file)
  BY <1>3 DEF Ordered, OwnDisc, Saved
<1> QED
  BY <1>2, <1>m, <1>9, <1>10, <1>11

(* Evictions keep the bytes of every directory.                            *)
LEMMA MovedRight ==
    ASSUME NEW x \in Calls, NEW y \in Calls, NEW t \in x.p.phys, NEW j \in DiscIx, Moved(x, y, t, j),
           NEW c \in Dirs, RightIn(x, c)
    PROVE  RightIn(y, c)
<1>1. \A v \in Pages : y.pt[c][v] = "P" => x.pt[c][v] = "P"
  BY MovedIs
<1> QED
  BY <1>1, MovedIs DEF RightIn

\* y has the slots of x, or those and page t in the first free one.
Filled(x, y, t) == \/ y.p.disc = x.p.disc
                   \/ \E j \in DiscIx : /\ ~x.p.disc[j].isUsed /\ \A i \in DiscIx : i < j => x.p.disc[i].isUsed
                                        /\ t \in x.p.phys /\ y.p.disc[j] = t
                                        /\ \A i \in DiscIx : i # j => y.p.disc[i] = x.p.disc[i]

(* One page of allocuvm that succeeds, for a page that was not there.      *)
LEMMA AllocTables ==
    ASSUME NEW x \in Calls, x.ok, ~x.panic, x.p.dir \in Dirs, NEW d \in Dirs, NEW v \in Pages,
           NEW t \in Victims(x), NEW D \in SUBSET Dirs, Tables(x.p, x.pt, D), d \in D, x.p.dir \in D,
           x.pt[d][v] = "none"
    PROVE  LET y == AllocPage(x, d, v, t) IN y.ok /\ ~y.panic =>
           /\ Tables(y.p, y.pt, D) /\ Filled(x, y, t)
           /\ \A c \in Dirs \ D : y.pt[c] = x.pt[c] /\ y.ram[c] = x.ram[c]
           /\ y.pt[d][v] # "none"
           /\ \A c \in Dirs, w \in Pages : ~(c = d /\ w = v) => (y.pt[c][w] = "none" <=> x.pt[c][w] = "none")
           /\ \A c \in Dirs : RightIn(x, c) => RightIn(y, c)
           /\ y.p.phys \in SUBSET (x.p.phys \cup {Entry(d, v)})
           /\ OwnDisc(x.p) /\ Ordered(x.p) => Ordered(y.p)
           /\ OwnDisc(x.p) /\ x.p.at = 0 /\ RightIn(x, x.p.dir) /\ Saved(x.p, x.file) => Saved(y.p, y.file)
           /\ OwnDisc(x.p) /\ (t \in x.p.phys => t.dir = x.p.dir) => OwnDisc(y.p)
<1> DEFINE y == AllocPage(x, d, v, t)
<1> SUFFICES ASSUME y.ok, ~y.panic
    PROVE  /\ Tables(y.p, y.pt, D) /\ Filled(x, y, t)
           /\ \A c \in Dirs \ D : y.pt[c] = x.pt[c] /\ y.ram[c] = x.ram[c]
           /\ y.pt[d][v] # "none"
           /\ \A c \in Dirs, w \in Pages : ~(c = d /\ w = v) => (y.pt[c][w] = "none" <=> x.pt[c][w] = "none")
           /\ \A c \in Dirs : RightIn(x, c) => RightIn(y, c)
           /\ y.p.phys \in SUBSET (x.p.phys \cup {Entry(d, v)})
           /\ OwnDisc(x.p) /\ Ordered(x.p) => Ordered(y.p)
           /\ OwnDisc(x.p) /\ x.p.at = 0 /\ RightIn(x, x.p.dir) /\ Saved(x.p, x.file) => Saved(y.p, y.file)
           /\ OwnDisc(x.p) /\ (t \in x.p.phys => t.dir = x.p.dir) => OwnDisc(y.p)
  OBVIOUS
<1>1. y \in Calls /\ \E e \in Calls :
                /\ Same(x, e) /\ Same(e, y) /\ Mapped(e, y, d, v)
                /\ Kept(x, e) \/ (t \in x.p.phys /\ \E j \in DiscIx : Moved(x, e, t, j))
  BY AllocIs
<1> HIDE DEF y
<1>2. PICK e \in Calls : /\ Same(x, e) /\ Same(e, y) /\ Mapped(e, y, d, v)
                         /\ Kept(x, e) \/ (t \in x.p.phys /\ \E j \in DiscIx : Moved(x, e, t, j))
  BY <1>1
<1>3. /\ Tables(e.p, e.pt, D) /\ Filled(x, e, t)
      /\ \A c \in Dirs \ D : e.pt[c] = x.pt[c]
      /\ \A c \in Dirs, w \in Pages : e.pt[c][w] = "none" <=> x.pt[c][w] = "none"
      /\ \A c \in Dirs : RightIn(x, c) => RightIn(e, c)
      /\ e.p.phys \in SUBSET x.p.phys /\ e.ram = x.ram
      /\ OwnDisc(x.p) /\ Ordered(x.p) => Ordered(e.p)
      /\ OwnDisc(x.p) /\ x.p.at = 0 /\ RightIn(x, x.p.dir) /\ Saved(x.p, x.file) => Saved(e.p, e.file)
      /\ OwnDisc(x.p) /\ (t \in x.p.phys => t.dir = x.p.dir) => OwnDisc(e.p)
  <2>1. CASE Kept(x, e)
    BY <2>1 DEF Kept, Filled, RightIn
  <2>2. CASE t \in x.p.phys /\ \E j \in DiscIx : Moved(x, e, t, j)
    <3>1. PICK j \in DiscIx : Moved(x, e, t, j)
      BY <2>2
    <3>2. /\ Tables(e.p, e.pt, D)
          /\ \A c \in Dirs \ D : e.pt[c] = x.pt[c]
          /\ \A c \in Dirs, w \in Pages : e.pt[c][w] = "none" <=> x.pt[c][w] = "none"
      BY <1>2, <2>2, <3>1, MovedTables
    <3>3. \A c \in Dirs : RightIn(x, c) => RightIn(e, c)
      BY <2>2, <3>1, MovedRight
    <3>4. e.p.phys \in SUBSET x.p.phys /\ e.ram = x.ram /\ Filled(x, e, t)
      <4>1. /\ \A i \in DiscIx : e.p.disc[i] = IF i = j THEN t ELSE x.p.disc[i]
            /\ e.p.phys = x.p.phys \ {t} /\ e.ram = x.ram
        BY <2>2, <3>1, MovedIs
      <4>2. ~x.p.disc[j].isUsed /\ \A i \in DiscIx : i < j => x.p.disc[i].isUsed
        BY <3>1 DEF Moved
      <4> QED
        BY <2>2, <4>1, <4>2 DEF Filled
    <3>5. OwnDisc(x.p) => /\ Ordered(x.p) => Ordered(e.p)
                          /\ x.p.at = 0 /\ Held(x.p, x.pt, x.ram) /\ Saved(x.p, x.file) => Saved(e.p, e.file)
                          /\ t.dir = x.p.dir => OwnDisc(e.p)
      BY <1>2, <2>2, <3>1, MovedBytes
    <3>6. RightIn(x, x.p.dir) => Held(x.p, x.pt, x.ram)
      BY DEF RightIn, Held
    <3> QED
      BY <2>2, <3>2, <3>3, <3>4, <3>5, <3>6
  <2> QED
    BY <1>2, <2>1, <2>2
<1>4. e.pt[d][v] = "none"
  BY <1>3
<1>5. /\ Tables(y.p, y.pt, D)
      /\ \A c \in Dirs : c # d => y.pt[c] = e.pt[c] /\ y.ram[c] = e.ram[c]
      /\ \A c \in Dirs, w \in Pages : y.pt[c][w] = IF c = d /\ w = v THEN "P" ELSE e.pt[c][w]
      /\ \A c \in Dirs : RightIn(e, c) => RightIn(y, c)
      /\ Ordered(e.p) => Ordered(y.p)
      /\ OwnDisc(e.p) => OwnDisc(y.p)
      /\ Saved(e.p, e.file) => Saved(y.p, y.file)
  <2>1. e \in Calls /\ y \in Calls /\ Mapped(e, y, d, v) /\ Same(e, y) /\ Tables(e.p, e.pt, D)
    BY <1>1, <1>2, <1>3
  <2> QED
    BY <1>4, <2>1, MappedTables
<1>6. y.p.phys \in SUBSET (e.p.phys \cup {Entry(d, v)}) /\ y.p.disc = e.p.disc
  BY <1>2 DEF Mapped
<1>7. Filled(x, y, t)
  BY <1>3, <1>6 DEF Filled
<1>8. /\ \A c \in Dirs \ D : y.pt[c] = x.pt[c] /\ y.ram[c] = x.ram[c]
      /\ y.pt[d][v] # "none"
      /\ \A c \in Dirs, w \in Pages : ~(c = d /\ w = v) => (y.pt[c][w] = "none" <=> x.pt[c][w] = "none")
  BY <1>3, <1>5
<1>9. y.p.phys \in SUBSET (x.p.phys \cup {Entry(d, v)})
  BY <1>3, <1>6
<1> QED
  BY <1>3, <1>5, <1>7, <1>8, <1>9

(* freevm: the directory is cleared, with the entries about it.            *)
LEMMA FreedIs ==
    ASSUME NEW x \in Calls, NEW d \in Dirs
    PROVE  LET y == freevm(x, d) IN
           /\ y \in Calls /\ Same(x, y) /\ y.file = x.file /\ y.panic = x.panic
           /\ y.p.phys = {t \in x.p.phys : t.dir # d}
           /\ \A i \in DiscIx : y.p.disc[i] = IF x.p.disc[i].isUsed /\ x.p.disc[i].dir = d THEN Free(0) ELSE x.p.disc[i]
           /\ y.pt[d] = Clear /\ \A c \in Dirs : c # d => y.pt[c] = x.pt[c] /\ y.ram[c] = x.ram[c]
           /\ (\A t \in x.p.phys : t.dir # d) /\ (\A i \in DiscIx : x.p.disc[i].isUsed => x.p.disc[i].dir # d)
                => y.p = x.p
<1> DEFINE y == freevm(x, d)
           low == {t \in x.p.phys : t.dir # d}
           none == [v \in Pages |-> FALSE]
<1>1. x.p \in Processes /\ x.pt \in [Dirs -> PTEs] /\ x.ram \in [Dirs -> [Pages -> BOOLEAN]] /\ x.p.disc \in Discs
  BY DEF Calls, Processes
<1>2. y = [x EXCEPT !.p.phys = low, !.p.disc = Forget(x.p.disc, d), !.pt[d] = Clear, !.ram[d] = none]
  BY DEF freevm
<1>3. /\ y.p = [x.p EXCEPT !.phys = low, !.disc = Forget(x.p.disc, d)]
      /\ y.pt = [x.pt EXCEPT ![d] = Clear] /\ y.ram = [x.ram EXCEPT ![d] = none]
      /\ y.file = x.file /\ y.ok = x.ok /\ y.panic = x.panic /\ y.moved = x.moved
  BY <1>2 DEF Calls
<1>4. Forget(x.p.disc, d) \in Discs
  <2>1. Free(0) \in Frees
    BY Fields, Numbers
  <2> QED
    BY <1>1, <2>1 DEF Forget, Discs
<1>5. low \in SUBSET Entries
  BY <1>1 DEF Processes
<1>6. Clear \in PTEs /\ none \in [Pages -> BOOLEAN]
  BY DEF Clear, PTEs
<1>7. y.pt \in [Dirs -> PTEs] /\ y.ram \in [Dirs -> [Pages -> BOOLEAN]]
  BY <1>1, <1>3, <1>6
<1>8. y.p \in Processes
  BY <1>1, <1>3, <1>4, <1>5 DEF Processes
<1>9. y \in Calls
  BY <1>2, <1>3, <1>7, <1>8 DEF Calls
<1> HIDE DEF y
<1>10. y.p.phys = low /\ y.p.disc = Forget(x.p.disc, d) /\ Same(x, y)
  BY <1>1, <1>3 DEF Processes, Same
<1>11. \A i \in DiscIx : y.p.disc[i] = IF x.p.disc[i].isUsed /\ x.p.disc[i].dir = d THEN Free(0) ELSE x.p.disc[i]
  BY <1>10 DEF Forget
<1>12. y.pt[d] = Clear /\ \A c \in Dirs : c # d => y.pt[c] = x.pt[c] /\ y.ram[c] = x.ram[c]
  BY <1>1, <1>3
<1>13. ASSUME \A t \in x.p.phys : t.dir # d, \A i \in DiscIx : x.p.disc[i].isUsed => x.p.disc[i].dir # d
       PROVE  y.p = x.p
  <2>1. low = x.p.phys
    BY <1>13
  <2>2. Forget(x.p.disc, d) = x.p.disc
    BY <1>1, <1>13 DEF Forget, Discs
  <2>3. \A p \in Processes : [p EXCEPT !.phys = p.phys, !.disc = p.disc] = p
    BY DEF Processes
  <2> HIDE DEF low
  <2> QED
    BY <1>1, <1>3, <2>1, <2>2, <2>3
<1> QED
  BY <1>3, <1>9, <1>10, <1>11, <1>12, <1>13 DEF y

(* freevm leaves the tables of the other directories as they were.         *)
LEMMA FreedTables ==
    ASSUME NEW x \in Calls, NEW d \in Dirs, NEW D \in SUBSET Dirs, Tables(x.p, x.pt, D)
    PROVE  LET y == freevm(x, d) IN
           /\ Tables(y.p, y.pt, D \ {d})
           /\ d \notin D => y.p = x.p
           /\ x.p.dir # d /\ Saved(x.p, x.file) => Saved(y.p, y.file)
<1> DEFINE y == freevm(x, d)
<1>1. /\ y \in Calls /\ Same(x, y) /\ y.file = x.file
      /\ y.p.phys = {t \in x.p.phys : t.dir # d}
      /\ \A i \in DiscIx : y.p.disc[i] = IF x.p.disc[i].isUsed /\ x.p.disc[i].dir = d THEN Free(0) ELSE x.p.disc[i]
      /\ \A c \in Dirs : c # d => y.pt[c] = x.pt[c]
      /\ (\A t \in x.p.phys : t.dir # d) /\ (\A i \in DiscIx : x.p.disc[i].isUsed => x.p.disc[i].dir # d)
                => y.p = x.p
  BY FreedIs
<1> HIDE DEF y
<1>2. ~Free(0).isUsed
  BY Fields
<1>3. \A i \in DiscIx : y.p.disc[i].isUsed => y.p.disc[i] = x.p.disc[i] /\ x.p.disc[i].isUsed /\ x.p.disc[i].dir # d
  BY <1>1, <1>2
<1>4. d \notin D => y.p = x.p
  BY <1>1 DEF Tables
<1>5. \A t \in y.p.phys : t.dir \in D \ {d} /\ y.pt[t.dir][t.va] = "P"
  BY <1>1 DEF Tables
<1>6. \A i \in DiscIx : y.p.disc[i].isUsed =>
        y.p.disc[i].dir \in D \ {d} /\ y.pt[y.p.disc[i].dir][y.p.disc[i].va] = "PG"
  <2> SUFFICES ASSUME NEW i \in DiscIx, y.p.disc[i].isUsed
               PROVE  x.p.disc[i].dir \in D \ {d} /\ y.pt[x.p.disc[i].dir][x.p.disc[i].va] = "PG"
    BY <1>3
  <2>1. x.p.disc[i].dir \in D /\ x.pt[x.p.disc[i].dir][x.p.disc[i].va] = "PG" /\ x.p.disc[i].dir # d
    BY <1>3 DEF Tables
  <2>2. y.pt[x.p.disc[i].dir] = x.pt[x.p.disc[i].dir]
    BY <1>1, <2>1
  <2> QED
    BY <2>1, <2>2
<1>7. \A c \in D \ {d}, v \in Pages : y.pt[c][v] = "PG" =>
        \E i \in DiscIx : y.p.disc[i].isUsed /\ y.p.disc[i].dir = c /\ y.p.disc[i].va = v
  <2> SUFFICES ASSUME NEW c \in D \ {d}, NEW v \in Pages, y.pt[c][v] = "PG"
               PROVE  \E i \in DiscIx : y.p.disc[i].isUsed /\ y.p.disc[i].dir = c /\ y.p.disc[i].va = v
    OBVIOUS
  <2>1. x.pt[c][v] = "PG"
    BY <1>1
  <2>2. PICK i \in DiscIx : x.p.disc[i].isUsed /\ x.p.disc[i].dir = c /\ x.p.disc[i].va = v
    BY <2>1 DEF Tables
  <2>3. y.p.disc[i] = x.p.disc[i]
    BY <1>1, <2>2
  <2> QED
    BY <2>2, <2>3
<1>8. \A i, k \in DiscIx : y.p.disc[i].isUsed /\ y.p.disc[k].isUsed /\ y.p.disc[i].dir = y.p.disc[k].dir
                             /\ y.p.disc[i].va = y.p.disc[k].va => i = k
  BY <1>3 DEF Tables
<1>9. Tables(y.p, y.pt, D \ {d})
  BY <1>5, <1>6, <1>7, <1>8 DEF Tables
<1>10. Saved(x.p, x.file) => Saved(y.p, y.file)
  <2>1. y.p.dir = x.p.dir
    BY <1>1 DEF Same
  <2> QED
    BY <1>1, <1>3, <2>1 DEF Saved
<1> QED
  BY <1>4, <1>9, <1>10 DEF y

(* retrievePage's search by address finds the slot in use, if the slots    *)
(* are in order.                                                           *)
LEMMA Found ==
    ASSUME NEW x \in Calls, x.p.dir \in Dirs, NEW v \in Pages, Tables(x.p, x.pt, {x.p.dir}), Ordered(x.p),
           x.pt[x.p.dir][v] = "PG"
    PROVE  /\ ~Misread(x, v)
           /\ SlotOf(x, v) \in DiscIx /\ x.p.disc[SlotOf(x, v)].isUsed
           /\ x.p.disc[SlotOf(x, v)].va = v /\ x.p.disc[SlotOf(x, v)].dir = x.p.dir
<1>1. PICK j \in DiscIx : x.p.disc[j].isUsed /\ x.p.disc[j].dir = x.p.dir /\ x.p.disc[j].va = v
  BY DEF Tables
<1>2. SlotsOf(x, v) \in SUBSET DiscIx /\ j \in SlotsOf(x, v)
  BY <1>1 DEF SlotsOf
<1> DEFINE i == SlotOf(x, v)
<1>3. i \in SlotsOf(x, v) /\ i <= j
  <2>1. SlotsOf(x, v) \in SUBSET Nat /\ SlotsOf(x, v) # {}
    BY <1>2, Numbers
  <2> QED
    BY <1>2, <2>1, MinIs DEF SlotOf
<1>4. i \in DiscIx /\ x.p.disc[i].va = v
  BY <1>3 DEF SlotsOf
<1> HIDE DEF i
<1>5. j <= i
  BY <1>1, <1>4 DEF Ordered
<1>6. i = j
  BY <1>3, <1>4, <1>5, Numbers
<1> QED
  BY <1>1, <1>2, <1>6 DEF i, Misread

\* The page of slot j is at v again.
Fetched(x, y, v, j) ==
    /\ x.p.disc[j].isUsed /\ x.p.disc[j].va = v
    /\ y.p.phys = x.p.phys \cup {x.p.disc[j]} /\ y.p.disc = [x.p.disc EXCEPT ![j] = Free(v)]
    /\ y.pt = [x.pt EXCEPT ![x.p.dir][v] = "P"] /\ y.ram = [x.ram EXCEPT ![x.p.dir][v] = Right(x.file, j, v)]

(* retrievePage: the read fails, or the page and its entry come back.      *)
LEMMA PageInIs ==
    ASSUME NEW x \in Calls, x.ok, x.p.dir \in Dirs, NEW v \in Pages
    PROVE  LET y == PageIn(x, v) IN
           /\ y \in Calls /\ Same(x, y) /\ y.panic = x.panic /\ y.file = x.file
           /\ ~y.ok => Kept(x, y)
           /\ y.ok /\ ~Misread(x, v) => \E j \in DiscIx : Fetched(x, y, v, j)
<1> DEFINE y == PageIn(x, v)
           j == SlotOf(x, v)
           d == x.p.dir
           m == [x EXCEPT !.pt[d][v] = "P", !.ram[d][v] = FALSE]
<1>1. x.p \in Processes /\ x.pt \in [Dirs -> [Pages -> {"none", "P", "PG"}]] /\ x.ram \in [Dirs -> [Pages -> BOOLEAN]]
  BY DEF Calls, PTEs
<1>2. /\ m.p = x.p /\ m.pt = [x.pt EXCEPT ![d][v] = "P"] /\ m.ram = [x.ram EXCEPT ![d][v] = FALSE]
      /\ m.file = x.file /\ m.ok = x.ok /\ m.panic = x.panic /\ m.moved = x.moved
  BY DEF Calls
<1>3. m.pt \in [Dirs -> PTEs] /\ m.ram \in [Dirs -> [Pages -> BOOLEAN]]
  BY <1>1, <1>2 DEF PTEs
<1>4. m \in Calls /\ Same(x, m)
  BY <1>2, <1>3 DEF Calls, Same
<1>5. CASE SlotsOf(x, v) = {}
  <2>1. y = m
    BY <1>5 DEF PageIn
  <2> HIDE DEF m
  <2> QED
    BY <1>2, <1>4, <1>5, <2>1 DEF Misread
<1>6. CASE SlotsOf(x, v) # {} /\ 2 * j > Len(x.file)
  <2>1. y = [x EXCEPT !.ok = FALSE]
    BY <1>6 DEF PageIn
  <2> QED
    BY <2>1 DEF Calls, Same, Kept
<1>7. CASE SlotsOf(x, v) # {} /\ ~(2 * j > Len(x.file))
  <2> DEFINE new == x.p.phys \cup ({x.p.disc[j]} \ {Free(v)})
             r == Right(x.file, j, v)
  <2> HIDE DEF r
  <2>1. y = [m EXCEPT !.ram[d][v] = r, !.p.phys = @ \cup ({x.p.disc[j]} \ {Free(v)}), !.p.disc[j] = Free(v)]
    BY <1>7 DEF PageIn, r
  <2>2. j \in DiscIx /\ x.p.disc[j].va = v
    <3>1. SlotsOf(x, v) \in SUBSET Nat
      BY Numbers DEF SlotsOf
    <3>2. j \in SlotsOf(x, v)
      BY <1>7, <3>1, MinIs DEF SlotOf
    <3> QED
      BY <3>2 DEF SlotsOf
  <2>3. r \in BOOLEAN
    BY DEF r, Right
  <2> HIDE DEF j
  <2>4. x.p.disc \in Discs /\ Free(v) \in Frees
    BY <1>1, Fields DEF Processes
  <2>5. x.p.disc[j] \in Entries \/ x.p.disc[j] = Free(v)
    <3>1. x.p.disc[j] \in Entries \/ x.p.disc[j] \in Frees
      BY <2>2, <2>4 DEF Discs
    <3> QED
      BY <2>2, <3>1, Fields
  <2>6. new \in SUBSET Entries
    BY <1>1, <2>5 DEF Processes
  <2>7. [x.p.disc EXCEPT ![j] = Free(v)] \in Discs
    BY <2>2, <2>4 DEF Discs
  <2> HIDE DEF m
  <2>8. /\ y.p = [m.p EXCEPT !.phys = @ \cup ({x.p.disc[j]} \ {Free(v)}), !.disc[j] = Free(v)]
        /\ y.pt = m.pt /\ y.ram = [m.ram EXCEPT ![d][v] = r]
        /\ y.file = m.file /\ y.ok = m.ok /\ y.panic = m.panic /\ y.moved = m.moved
    BY <1>4, <2>1 DEF Calls
  <2>9. y.p = [x.p EXCEPT !.phys = new, !.disc = [x.p.disc EXCEPT ![j] = Free(v)]]
    BY <1>2, <2>8
  <2>10. y.p \in Processes
    <3> HIDE DEF new
    <3> QED
      BY <1>1, <2>6, <2>7, <2>9 DEF Processes
  <2>11. y.p.phys = new /\ y.p.disc = [x.p.disc EXCEPT ![j] = Free(v)] /\ Same(x, y)
    <3> HIDE DEF new
    <3> QED
      BY <1>1, <2>9 DEF Processes, Same
  <2>12. y.ram \in [Dirs -> [Pages -> BOOLEAN]]
    BY <1>3, <2>3, <2>8
  <2>13. y \in Calls
    <3>1. DOMAIN y = DOMAIN x
      BY <1>4, <2>1 DEF Calls
    <3> QED
      BY <1>2, <1>4, <2>1, <2>8, <2>10, <2>12 DEF Calls
  <2>14. y.ram = [x.ram EXCEPT ![d][v] = r]
    <3>1. m.ram[d] = [x.ram[d] EXCEPT ![v] = FALSE] /\ x.ram[d] \in [Pages -> BOOLEAN]
      BY <1>1, <1>2
    <3>2. \A g, b, c : [[g EXCEPT ![v] = b] EXCEPT ![v] = c] = [g EXCEPT ![v] = c]
      OBVIOUS
    <3>3. [m.ram[d] EXCEPT ![v] = r] = [x.ram[d] EXCEPT ![v] = r]
      BY <3>1, <3>2
    <3>4. m.ram = [x.ram EXCEPT ![d] = m.ram[d]]
      BY <1>1, <1>2, <3>1
    <3>5. y.ram = [m.ram EXCEPT ![d] = [m.ram[d] EXCEPT ![v] = r]]
      BY <2>8
    <3> QED
      BY <3>2, <3>3, <3>4, <3>5
  <2>15. ASSUME ~Misread(x, v) PROVE Fetched(x, y, v, j)
    <3>1. x.p.disc[j].isUsed
      BY <2>15 DEF Misread, j
    <3>2. x.p.disc[j] # Free(v)
      BY <3>1, Fields
    <3>3. new = x.p.phys \cup {x.p.disc[j]}
      BY <3>2
    <3>4. y.pt = [x.pt EXCEPT ![d][v] = "P"]
      BY <1>2, <2>8
    <3> HIDE DEF new, y
    <3> QED
      BY <2>2, <2>11, <2>14, <3>1, <3>3, <3>4 DEF Fetched, r
  <2> HIDE DEF y
  <2> QED
    BY <1>2, <2>2, <2>8, <2>11, <2>13, <2>15 DEF y
<1> QED
  BY <1>5, <1>6, <1>7

(* A page that comes back keeps the tables in agreement with the page      *)
(* table, the slots in order and the bytes.                                *)
LEMMA FetchedTables ==
    ASSUME NEW x \in Calls, NEW y \in Calls, NEW v \in Pages, NEW j \in DiscIx, Fetched(x, y, v, j), Same(x, y),
           y.file = x.file, x.p.dir \in Dirs, Tables(x.p, x.pt, {x.p.dir}), x.pt[x.p.dir][v] = "PG"
    PROVE  /\ Tables(y.p, y.pt, {y.p.dir})
           /\ \A c \in Dirs : c # x.p.dir => y.pt[c] = x.pt[c] /\ y.ram[c] = x.ram[c]
           /\ \A w \in Pages : y.pt[x.p.dir][w] = "none" <=> x.pt[x.p.dir][w] = "none"
           /\ Ordered(x.p) => Ordered(y.p)
           /\ Saved(x.p, x.file) => Saved(y.p, y.file)
           /\ RightIn(x, x.p.dir) /\ Saved(x.p, x.file) => RightIn(y, x.p.dir)
           /\ y.pt[x.p.dir][v] = "P"
<1> DEFINE d == x.p.dir
           r == Right(x.file, j, v)
<1>1. x.pt \in [Dirs -> [Pages -> {"none", "P", "PG"}]] /\ x.ram \in [Dirs -> [Pages -> BOOLEAN]] /\ x.p.disc \in Discs
  BY DEF Calls, Processes, PTEs
<1>2. /\ \A c \in Dirs : c # d => y.pt[c] = x.pt[c]
      /\ \A w \in Pages : y.pt[d][w] = IF w = v THEN "P" ELSE x.pt[d][w]
  BY <1>1 DEF Fetched
<1>3. /\ \A c \in Dirs : c # d => y.ram[c] = x.ram[c]
      /\ y.ram[d][v] = r /\ \A w \in Pages : w # v => y.ram[d][w] = x.ram[d][w]
  <2>1. y.ram = [x.ram EXCEPT ![d] = [x.ram[d] EXCEPT ![v] = r]]
    BY DEF Fetched
  <2> HIDE DEF r
  <2>2. \A c \in Dirs : c # d => y.ram[c] = x.ram[c]
    BY <1>1, <2>1
  <2>3. y.ram[d] = [x.ram[d] EXCEPT ![v] = r] /\ x.ram[d] \in [Pages -> BOOLEAN]
    BY <1>1, <2>1
  <2>4. y.ram[d][v] = r /\ \A w \in Pages : w # v => y.ram[d][w] = x.ram[d][w]
    BY <2>3, Zenon
  <2> QED
    BY <2>2, <2>4
<1>4. y.p.dir = d /\ x.p.disc[j].isUsed /\ x.p.disc[j].va = v
  BY DEF Same, Fetched
<1>5. /\ y.p.disc[j] = Free(v) /\ \A i \in DiscIx : i # j => y.p.disc[i] = x.p.disc[i]
      /\ ~Free(v).isUsed /\ Free(v).va = v
  BY <1>1, Fields DEF Fetched, Discs
<1>6. \A i \in DiscIx : x.p.disc[i].isUsed => x.p.disc[i].dir = d /\ x.pt[d][x.p.disc[i].va] = "PG"
  BY DEF Tables
<1>7. \A i \in DiscIx : x.p.disc[i].isUsed /\ x.p.disc[i].va = v => i = j
  BY <1>4, <1>6 DEF Tables
<1>8. \A i \in DiscIx : y.p.disc[i].isUsed => i # j /\ y.p.disc[i] = x.p.disc[i] /\ x.p.disc[i].isUsed /\ x.p.disc[i].va # v
  BY <1>5, <1>7
<1>9. \A i \in DiscIx : x.p.disc[i].va \in Pages
  <2>1. \A i \in DiscIx : x.p.disc[i] \in Entries \/ x.p.disc[i] \in Frees
    BY <1>1 DEF Discs
  <2> QED
    BY <2>1, Fields
<1>10. \A u \in y.p.phys : u.dir = d /\ y.pt[d][u.va] = "P"
  <2> SUFFICES ASSUME NEW u \in y.p.phys PROVE u.dir = d /\ y.pt[d][u.va] = "P"
    OBVIOUS
  <2>1. u \in x.p.phys \/ u = x.p.disc[j]
    BY DEF Fetched
  <2>2. CASE u \in x.p.phys
    <3>1. u.dir = d /\ x.pt[d][u.va] = "P"
      BY <2>2 DEF Tables
    <3>2. u.va \in Pages
      BY <2>2, Fields DEF Calls, Processes
    <3> QED
      BY <1>2, <3>1, <3>2
  <2>3. CASE u = x.p.disc[j]
    BY <1>2, <1>4, <1>6, <2>3
  <2> QED
    BY <2>1, <2>2, <2>3
<1>11. \A i \in DiscIx : y.p.disc[i].isUsed => y.p.disc[i].dir = d /\ y.pt[d][y.p.disc[i].va] = "PG"
  <2>1. \A w \in Pages : w # v /\ x.pt[d][w] = "PG" => y.pt[d][w] = "PG"
    BY <1>2
  <2> HIDE DEF d
  <2> SUFFICES ASSUME NEW i \in DiscIx, y.p.disc[i].isUsed
               PROVE  y.p.disc[i].dir = d /\ y.pt[d][y.p.disc[i].va] = "PG"
    OBVIOUS
  <2>2. y.p.disc[i] = x.p.disc[i] /\ x.p.disc[i].isUsed /\ x.p.disc[i].va # v
    BY <1>8
  <2>3. x.p.disc[i].dir = d /\ x.pt[d][x.p.disc[i].va] = "PG" /\ x.p.disc[i].va \in Pages
    BY <1>6, <1>9, <2>2
  <2> QED
    BY <2>1, <2>2, <2>3
<1>12. \A w \in Pages : y.pt[d][w] = "PG" => \E i \in DiscIx : y.p.disc[i].isUsed /\ y.p.disc[i].dir = d /\ y.p.disc[i].va = w
  <2> SUFFICES ASSUME NEW w \in Pages, y.pt[d][w] = "PG"
               PROVE  \E i \in DiscIx : y.p.disc[i].isUsed /\ y.p.disc[i].dir = d /\ y.p.disc[i].va = w
    OBVIOUS
  <2>1. w # v /\ x.pt[d][w] = "PG"
    BY <1>2
  <2>2. PICK i \in DiscIx : x.p.disc[i].isUsed /\ x.p.disc[i].dir = d /\ x.p.disc[i].va = w
    BY <2>1 DEF Tables
  <2>3. y.p.disc[i] = x.p.disc[i]
    BY <1>4, <1>5, <2>1, <2>2
  <2> QED
    BY <2>2, <2>3
<1>13. \A i, k \in DiscIx : y.p.disc[i].isUsed /\ y.p.disc[k].isUsed /\ y.p.disc[i].dir = y.p.disc[k].dir
                             /\ y.p.disc[i].va = y.p.disc[k].va => i = k
  BY <1>8 DEF Tables
<1> HIDE DEF d
<1>14. Tables(y.p, y.pt, {d})
  <2>1. \A u \in y.p.phys : u.dir \in {d} /\ y.pt[u.dir][u.va] = "P"
    BY <1>10
  <2>2. \A i \in DiscIx : y.p.disc[i].isUsed => y.p.disc[i].dir \in {d} /\ y.pt[y.p.disc[i].dir][y.p.disc[i].va] = "PG"
    BY <1>11
  <2>3. \A c \in {d}, w \in Pages : y.pt[c][w] = "PG" =>
          \E i \in DiscIx : y.p.disc[i].isUsed /\ y.p.disc[i].dir = c /\ y.p.disc[i].va = w
    BY <1>12
  <2> QED
    BY <1>13, <2>1, <2>2, <2>3 DEF Tables
<1>15. Ordered(x.p) => Ordered(y.p)
  <2> SUFFICES ASSUME Ordered(x.p), NEW i \in DiscIx, NEW k \in DiscIx, y.p.disc[k].isUsed, y.p.disc[i].va = y.p.disc[k].va
               PROVE  k <= i
    BY DEF Ordered
  <2>1. y.p.disc[k] = x.p.disc[k] /\ x.p.disc[k].isUsed /\ x.p.disc[k].va # v /\ x.p.disc[k].dir = x.p.dir
    BY <1>6, <1>8 DEF d
  <2>2. i # j /\ y.p.disc[i] = x.p.disc[i]
    BY <1>5, <2>1
  <2> QED
    BY <2>1, <2>2 DEF Ordered
<1>16. Saved(x.p, x.file) => Saved(y.p, y.file)
  BY <1>4, <1>8 DEF Saved, d
<1>17. RightIn(x, d) /\ Saved(x.p, x.file) => RightIn(y, d)
  <2> SUFFICES ASSUME RightIn(x, d), Saved(x.p, x.file), NEW w \in Pages, y.pt[d][w] = "P"
               PROVE  y.ram[d][w]
    BY DEF RightIn
  <2>1. CASE w = v
    <3>1. r
      BY <1>4, <1>6 DEF Saved, d
    <3> QED
      BY <1>3, <2>1, <3>1
  <2>2. CASE w # v
    BY <1>2, <1>3, <2>2 DEF RightIn
  <2> QED
    BY <2>1, <2>2
<1> QED
  BY <1>2, <1>3, <1>4, <1>14, <1>15, <1>16, <1>17 DEF d

-----------------------------------------------------------------------------
(* The steps of one process and the others.                                *)

\* A step of s alone, which leaves it as p, with file f.
Alone(s, p, f) ==
    /\ ~panicked /\ s \in Alive /\ p \in Processes /\ f \in Files
    /\ proc' = [proc EXCEPT ![s] = p] /\ swap' = With(swap, proc[s].pid, f)
    /\ pt' \in [Dirs -> PTEs] /\ ram' \in [Dirs -> [Pages -> BOOLEAN]] /\ panicked' \in BOOLEAN
    /\ buffer' \in [owner : Nat, va : Pages, right : BOOLEAN]
    /\ blame' \in SUBSET {"misread", "buffer", "fork", "exec"} /\ blame \in SUBSET blame'
    /\ "misread" \in blame' => "exec" \in blame'
    /\ nextpid' = nextpid /\ abandoned' = abandoned
    /\ p.pid = proc[s].pid /\ p.state \in {"user", "doomed"} /\ (p.state = "doomed" => p.at = 0)
    /\ p.dir = proc[s].dir \/ p.dir \in FreeDirs
\* What is left to show of such a step.
TablesAlone(s, p) ==
    ~panicked' /\ "misread" \notin blame' =>
      /\ Tables(p, pt', {p.dir}) /\ Sized(p, pt')
      /\ p.dir # proc[s].dir => pt'[proc[s].dir] = Clear
      /\ \A d \in Dirs : d # proc[s].dir /\ d # p.dir => pt'[d] = pt[d]
OrderAlone(p) == ~panicked' /\ "exec" \notin blame' => Ordered(p)
BytesAlone(s, p, f) ==
    ~panicked' /\ blame' = {} =>
      /\ \A d \in Dirs \ FreeDirs : d # proc[s].dir => ram'[d] = ram[d]
      /\ Held(p, pt', ram') /\ Saved(p, f)
      /\ buffer'.owner = p.pid /\ buffer'.va + 1 = p.at => buffer'.right
      /\ buffer' = buffer \/ buffer'.owner \in {0, p.pid}

(* A step of one process keeps the invariant of all.                       *)
LEMMA AloneInv ==
    ASSUME IInv, NEW s, NEW p, NEW f, Alone(s, p, f), TablesAlone(s, p), OrderAlone(p), BytesAlone(s, p, f)
    PROVE  IInv'
<1>1. TypeOK /\ IdInv /\ SwapFilesOwned /\ TablesInv /\ OrderInv /\ BytesInv
  BY DEF IInv
<1>2. /\ ~panicked /\ s \in Slots /\ proc[s].state \in {"user", "doomed"} /\ p \in Processes /\ f \in Files
      /\ proc \in [Slots -> Processes]
  BY <1>1 DEF Alone, Alive, TypeOK
<1>3. proc' \in [Slots -> Processes] /\ proc'[s] = p /\ \A q \in Slots : q # s => proc'[q] = proc[q]
  BY <1>2 DEF Alone
<1>4. Alive' = Alive /\ Used' = Used /\ s \in Used /\ Alive \in SUBSET Used /\ Alive \in SUBSET Slots
  BY <1>2, <1>3 DEF Alone, Alive, Used
<1>5. /\ proc[s].pid \in DOMAIN swap /\ swap'[proc[s].pid] = f /\ DOMAIN swap' = DOMAIN swap
      /\ \A n \in DOMAIN swap : n # proc[s].pid => swap'[n] = swap[n]
  BY <1>1 DEF Alone, With, SwapFilesOwned
<1>6. \A q \in Used : q # s => proc[q].dir # proc[s].dir /\ proc[q].pid # proc[s].pid
  BY <1>1, <1>4 DEF IdInv
<1>7. TypeOK'
  <2>1. swap' \in [DOMAIN swap' -> Files]
    BY <1>1, <1>2, <1>5 DEF TypeOK, Alone, With
  <2> QED
    BY <1>1, <1>3, <2>1 DEF TypeOK, Alone
<1>8. p.dir \in Dirs /\ \A q \in Used : q # s => proc[q].dir # p.dir
  <2>1. proc[s].dir \in Dirs
    BY <1>1, <1>4 DEF IdInv
  <2>2. p.dir \in FreeDirs => p.dir \in Dirs /\ \A q \in Slots : proc[q].dir # p.dir
    BY DEF FreeDirs
  <2> QED
    BY <1>6, <2>1, <2>2 DEF Alone, Used
<1>9. IdInv'
  <2>1. \A q \in Used : /\ proc'[q].dir \in Dirs /\ proc'[q].pid \in 1 .. nextpid - 1 /\ proc'[q].pid \notin abandoned
    BY <1>1, <1>3, <1>4, <1>8 DEF IdInv, Alone, Used
  <2>2. \A r, q \in Used : r # q => proc'[r].dir # proc'[q].dir /\ proc'[r].pid # proc'[q].pid
    <3> SUFFICES ASSUME NEW r \in Used, NEW q \in Used, r # q
                 PROVE  proc'[r].dir # proc'[q].dir /\ proc'[r].pid # proc'[q].pid
      OBVIOUS
    <3>0. r \in Slots /\ q \in Slots /\ p.pid = proc[s].pid
      BY DEF Used, Alone
    <3>1. CASE r = s
      BY <1>3, <1>6, <1>8, <3>0, <3>1
    <3>2. CASE q = s
      BY <1>3, <1>6, <1>8, <3>0, <3>2
    <3>3. CASE r # s /\ q # s
      BY <1>1, <1>3, <3>0, <3>3 DEF IdInv
    <3> QED
      BY <3>1, <3>2, <3>3
  <2>3. \A q \in Slots : /\ proc'[q].state = "doomed" => proc'[q].at = 0
                         /\ proc'[q].state = "unused" => proc'[q].dir = 0
    <3>1. p.state \in {"user", "doomed"} /\ (p.state = "doomed" => p.at = 0)
      BY DEF Alone
    <3>2. \A q \in Slots : /\ proc[q].state = "doomed" => proc[q].at = 0
                           /\ proc[q].state = "unused" => proc[q].dir = 0
      BY <1>1 DEF IdInv
    <3> QED
      BY <1>3, <3>1, <3>2
  <2>4. \A n \in abandoned : n < nextpid
    BY <1>1 DEF IdInv
  <2> QED
    BY <1>4, <2>1, <2>2, <2>3, <2>4 DEF IdInv, Alone
<1>10. SwapFilesOwned'
  <2>1. \A q \in Slots : proc'[q].pid = proc[q].pid
    BY <1>3 DEF Alone
  <2> QED
    BY <1>1, <1>4, <1>5, <2>1 DEF SwapFilesOwned, Alone
<1>11. "misread" \in blame => "misread" \in blame'
  BY DEF Alone
<1>13. \A d \in FreeDirs' : d # p.dir /\ (d = proc[s].dir \/ d \in FreeDirs)
  <2> SUFFICES ASSUME NEW d \in FreeDirs' PROVE d # p.dir /\ (d = proc[s].dir \/ d \in FreeDirs)
    OBVIOUS
  <2>1. d \in Dirs /\ \A q \in Slots : d # proc'[q].dir
    BY DEF FreeDirs
  <2>2. d # p.dir /\ \A q \in Slots : q # s => d # proc[q].dir
    BY <1>2, <1>3, <2>1
  <2> QED
    BY <2>1, <2>2 DEF FreeDirs
<1>14. TablesInv'
  <2> SUFFICES ASSUME ~panicked', "misread" \notin blame'
               PROVE  /\ \A d \in FreeDirs' : pt'[d] = Clear
                      /\ \A q \in Alive : Tables(proc'[q], pt', {proc'[q].dir}) /\ Sized(proc'[q], pt')
    BY <1>4 DEF TablesInv
  <2>1. /\ Tables(p, pt', {p.dir}) /\ Sized(p, pt')
        /\ p.dir # proc[s].dir => pt'[proc[s].dir] = Clear
        /\ \A d \in Dirs : d # proc[s].dir /\ d # p.dir => pt'[d] = pt[d]
    BY DEF TablesAlone
  <2>2. /\ \A d \in FreeDirs : pt[d] = Clear
        /\ \A q \in Alive : Tables(proc[q], pt, {proc[q].dir}) /\ Sized(proc[q], pt)
    BY <1>1, <1>2, <1>11 DEF TablesInv
  <2>3. \A d \in FreeDirs' : pt'[d] = Clear
    <3>1. \A d \in FreeDirs : d \in Dirs
      BY DEF FreeDirs
    <3> QED
      BY <1>13, <2>1, <2>2, <3>1
  <2>4. ASSUME NEW q \in Alive PROVE Tables(proc'[q], pt', {proc'[q].dir}) /\ Sized(proc'[q], pt')
    <3>1. CASE q = s
      BY <1>3, <2>1, <3>1
    <3>2. CASE q # s
      <4>1. proc'[q] = proc[q] /\ proc[q].dir \in Dirs /\ proc[q].dir # proc[s].dir /\ proc[q].dir # p.dir
        BY <1>1, <1>3, <1>4, <1>6, <1>8, <3>2 DEF IdInv
      <4>2. pt'[proc[q].dir] = pt[proc[q].dir]
        BY <2>1, <4>1
      <4>3. Tables(proc[q], pt, {proc[q].dir}) /\ Sized(proc[q], pt)
        BY <2>2
      <4>4. Tables(proc[q], pt', {proc[q].dir}) /\ Sized(proc[q], pt')
        BY <4>2, <4>3 DEF Tables, Sized
      <4> QED
        BY <4>1, <4>4
    <3> QED
      BY <3>1, <3>2
  <2> QED
    BY <2>3, <2>4
<1>15. OrderInv'
  <2>1. "misread" \in blame' => "exec" \in blame'
    BY DEF Alone
  <2>2. ASSUME ~panicked', "exec" \notin blame', NEW q \in Alive PROVE Ordered(proc'[q])
    <3>1. CASE q = s
      BY <1>3, <2>2, <3>1 DEF OrderAlone
    <3>2. CASE q # s
      <4>1. "exec" \notin blame /\ proc'[q] = proc[q]
        BY <1>3, <1>4, <2>2, <3>2 DEF Alone
      <4> QED
        BY <1>1, <1>2, <4>1 DEF OrderInv
    <3> QED
      BY <3>1, <3>2
  <2> QED
    BY <1>4, <2>1, <2>2 DEF OrderInv
<1>16. BytesInv'
  <2> SUFFICES ASSUME ~panicked', blame' = {}, NEW q \in Alive
               PROVE  /\ Held(proc'[q], pt', ram') /\ Saved(proc'[q], swap'[proc'[q].pid])
                      /\ buffer'.owner = proc'[q].pid /\ buffer'.va + 1 = proc'[q].at => buffer'.right
    BY <1>4 DEF BytesInv
  <2>1. blame = {} /\ "misread" \notin blame'
    BY DEF Alone
  <2>2. /\ \A d \in Dirs \ FreeDirs : d # proc[s].dir => ram'[d] = ram[d]
        /\ Held(p, pt', ram') /\ Saved(p, f)
        /\ buffer'.owner = p.pid /\ buffer'.va + 1 = p.at => buffer'.right
        /\ buffer' = buffer \/ buffer'.owner \in {0, p.pid}
        /\ p.pid = proc[s].pid
    BY DEF BytesAlone, Alone
  <2>3. CASE q = s
    BY <1>3, <1>5, <2>2, <2>3
  <2>4. CASE q # s
    <3>1. /\ proc'[q] = proc[q] /\ proc[q].dir \in Dirs /\ proc[q].dir # proc[s].dir /\ proc[q].dir # p.dir
          /\ proc[q].pid # proc[s].pid /\ proc[q].pid # 0
      BY <1>1, <1>3, <1>4, <1>6, <1>8, <2>4 DEF IdInv
    <3>2. proc[q].dir \notin FreeDirs
      BY <1>4 DEF FreeDirs
    <3>3. pt'[proc[q].dir] = pt[proc[q].dir] /\ ram'[proc[q].dir] = ram[proc[q].dir]
      BY <2>1, <2>2, <3>1, <3>2 DEF TablesAlone
    <3>4. /\ Held(proc[q], pt, ram) /\ Saved(proc[q], swap[proc[q].pid])
          /\ buffer.owner = proc[q].pid /\ buffer.va + 1 = proc[q].at => buffer.right
      BY <1>1, <1>2, <2>1 DEF BytesInv
    <3>5. Held(proc[q], pt', ram')
      BY <3>3, <3>4 DEF Held
    <3>6. swap'[proc[q].pid] = swap[proc[q].pid]
      <4>1. proc[q].pid \in DOMAIN swap
        BY <1>1 DEF SwapFilesOwned
      <4> QED
        BY <1>5, <3>1, <4>1
    <3>7. buffer'.owner = proc[q].pid => buffer' = buffer
      BY <2>2, <3>1
    <3> QED
      BY <3>1, <3>4, <3>5, <3>6, <3>7
  <2> QED
    BY <2>3, <2>4
<1> QED
  BY <1>7, <1>9, <1>10, <1>14, <1>15, <1>16 DEF IInv

(* Tables is about the two tables.                                         *)
LEMMA TablesOnly ==
    ASSUME NEW p, NEW q, NEW tab, NEW D, Tables(q, tab, D), p.phys = q.phys, p.disc = q.disc
    PROVE  Tables(p, tab, D)
BY DEF Tables

(* What the invariant says of a process at a call.                         *)
LEMMA OfIs ==
    ASSUME IInv, ~panicked, NEW s \in Alive
    PROVE  /\ Of(s) \in Calls /\ Of(s).ok /\ ~Of(s).panic
           /\ Of(s).p = proc[s] /\ Of(s).pt = pt /\ Of(s).ram = ram /\ Of(s).file = swap[proc[s].pid]
           /\ s \in Slots /\ proc[s] \in Processes /\ proc[s].dir \in Dirs /\ proc[s].dir \notin FreeDirs
           /\ "misread" \notin blame =>
                /\ Tables(proc[s], pt, {proc[s].dir}) /\ Sized(proc[s], pt) /\ OwnDisc(proc[s])
                /\ \A d \in FreeDirs : pt[d] = Clear
           /\ "exec" \notin blame => "misread" \notin blame /\ Ordered(proc[s])
           /\ blame = {} => /\ Saved(proc[s], swap[proc[s].pid])
                            /\ proc[s].at = 0 => RightIn(Of(s), proc[s].dir)
<1>1. TypeOK /\ IdInv /\ SwapFilesOwned /\ TablesInv /\ OrderInv /\ BytesInv
  BY DEF IInv
<1>2. s \in Slots /\ s \in Used /\ proc[s] \in Processes
  BY <1>1 DEF Alive, Used, TypeOK
<1>3. proc[s].dir \in Dirs /\ proc[s].dir \notin FreeDirs
  BY <1>1, <1>2 DEF IdInv, FreeDirs
<1>4. swap[proc[s].pid] \in Files
  BY <1>1 DEF TypeOK, SwapFilesOwned
<1>5. /\ Of(s).p = proc[s] /\ Of(s).pt = pt /\ Of(s).ram = ram /\ Of(s).file = swap[proc[s].pid]
      /\ Of(s).ok = TRUE /\ Of(s).panic = FALSE
  BY DEF Of
<1>6. Of(s) \in Calls
  BY <1>1, <1>2, <1>4 DEF TypeOK, Calls, Of
<1>7. ASSUME "misread" \notin blame
      PROVE  /\ Tables(proc[s], pt, {proc[s].dir}) /\ Sized(proc[s], pt) /\ OwnDisc(proc[s])
             /\ \A d \in FreeDirs : pt[d] = Clear
  <2>1. /\ Tables(proc[s], pt, {proc[s].dir}) /\ Sized(proc[s], pt)
        /\ \A d \in FreeDirs : pt[d] = Clear
    BY <1>1, <1>7 DEF TablesInv
  <2> QED
    BY <2>1 DEF Tables, OwnDisc
<1>8. "exec" \notin blame => "misread" \notin blame /\ Ordered(proc[s])
  BY <1>1 DEF OrderInv
<1>9. ASSUME blame = {} PROVE Saved(proc[s], swap[proc[s].pid]) /\ (proc[s].at = 0 => RightIn(Of(s), proc[s].dir))
  <2>1. Saved(proc[s], swap[proc[s].pid]) /\ Held(proc[s], pt, ram)
    BY <1>1, <1>9 DEF BytesInv
  <2>2. proc[s].at = 0 => \A v \in Pages : proc[s].at # v + 1
    BY Numbers
  <2> QED
    BY <1>5, <2>1, <2>2 DEF RightIn, Held
<1> QED
  BY <1>2, <1>3, <1>5, <1>6, <1>7, <1>8, <1>9

(* sbrk.                                                                   *)
LEMMA GrowInv == ASSUME IInv, NEW s \in Slots, Grow(s) PROVE IInv'
<1>1. /\ Runs(s) /\ proc[s].sz < MaxPages /\ UNCHANGED <<buffer, nextpid, abandoned, blame>>
      /\ s \in Alive /\ ~panicked /\ proc[s].state = "user" /\ proc[s].at = 0
  BY DEF Grow, Runs, Alive
<1> DEFINE o == Of(s)
           d == proc[s].dir
           v == proc[s].sz
<1>2. PICK t \in Victims(o) :
        LET x == AllocPage(o, d, v, t) IN
        /\ x.ok
        /\ Commit(s, [x EXCEPT !.p.sz = @ + 1], proc)
        /\ swap' = With(swap, proc[s].pid, x.file)
  BY DEF Grow
<1> DEFINE x == AllocPage(o, d, v, t)
           p == [x.p EXCEPT !.sz = @ + 1]
           f == x.file
<1>3. /\ o \in Calls /\ o.ok /\ ~o.panic /\ o.p = proc[s] /\ o.pt = pt /\ o.ram = ram /\ o.file = swap[proc[s].pid]
      /\ d \in Dirs /\ d \notin FreeDirs /\ o.p.dir = d /\ proc[s] \in Processes
  BY <1>1, OfIs
<1>4. v \in Pages /\ v \in Nat
  BY <1>1, <1>3, Numbers DEF Processes
<1>5. x \in Calls /\ Same(o, x) /\ x.ok
  BY <1>2, <1>3, <1>4, AllocIs
<1>6. ~x.panic /\ "misread" \notin blame =>
           /\ Tables(x.p, x.pt, {d})
           /\ \A c \in Dirs \ {d} : x.pt[c] = o.pt[c] /\ x.ram[c] = o.ram[c]
           /\ x.pt[d][v] # "none"
           /\ \A c \in Dirs, w \in Pages : ~(c = d /\ w = v) => (x.pt[c][w] = "none" <=> o.pt[c][w] = "none")
           /\ \A c \in Dirs : RightIn(o, c) => RightIn(x, c)
           /\ Ordered(o.p) => Ordered(x.p)
           /\ RightIn(o, d) /\ Saved(o.p, o.file) => Saved(x.p, x.file)
           /\ Sized(o.p, o.pt)
  <2> SUFFICES ASSUME "misread" \notin blame, ~x.panic
    PROVE  /\ Tables(x.p, x.pt, {d})
           /\ \A c \in Dirs \ {d} : x.pt[c] = o.pt[c] /\ x.ram[c] = o.ram[c]
           /\ x.pt[d][v] # "none"
           /\ \A c \in Dirs, w \in Pages : ~(c = d /\ w = v) => (x.pt[c][w] = "none" <=> o.pt[c][w] = "none")
           /\ \A c \in Dirs : RightIn(o, c) => RightIn(x, c)
           /\ Ordered(o.p) => Ordered(x.p)
           /\ RightIn(o, d) /\ Saved(o.p, o.file) => Saved(x.p, x.file)
           /\ Sized(o.p, o.pt)
    OBVIOUS
  <2>1. Tables(o.p, o.pt, {d}) /\ Sized(o.p, o.pt) /\ OwnDisc(o.p)
    BY <1>1, <1>3, OfIs
  <2>2. o.pt[d][v] = "none"
    BY <1>3, <1>4, <2>1 DEF Sized
  <2>3. {d} \in SUBSET Dirs /\ d \in {d} /\ o.p.at = 0
    BY <1>1, <1>3
  <2>4. t \in Victims(o) /\ x.ok /\ ~x.panic
    BY <1>5
  <2> HIDE DEF o, d, v
  <2>5. /\ Tables(x.p, x.pt, {d})
        /\ \A c \in Dirs \ {d} : x.pt[c] = o.pt[c] /\ x.ram[c] = o.ram[c]
        /\ x.pt[d][v] # "none"
        /\ \A c \in Dirs, w \in Pages : ~(c = d /\ w = v) => (x.pt[c][w] = "none" <=> o.pt[c][w] = "none")
        /\ \A c \in Dirs : RightIn(o, c) => RightIn(x, c)
        /\ OwnDisc(o.p) /\ Ordered(o.p) => Ordered(x.p)
        /\ OwnDisc(o.p) /\ o.p.at = 0 /\ RightIn(o, o.p.dir) /\ Saved(o.p, o.file) => Saved(x.p, x.file)
    BY ONLY <1>3, <1>4, <2>1, <2>2, <2>3, <2>4, AllocTables
  <2> QED
    BY ONLY <1>3, <2>1, <2>3, <2>5
<1>7. Commit(s, [x EXCEPT !.p.sz = @ + 1], proc) /\ swap' = With(swap, proc[s].pid, f)
  BY <1>2
<1> HIDE DEF x, o, d, v
<1>8. proc' = [proc EXCEPT ![s] = p] /\ pt' = x.pt /\ ram' = x.ram /\ panicked' = x.panic
  BY <1>5, <1>7 DEF Commit, Calls
<1>9. /\ x.p \in Processes /\ p \in Processes /\ f \in Files /\ p.sz = v + 1
      /\ p.dir = d /\ p.pid = proc[s].pid /\ p.state = "user" /\ p.at = 0 /\ p.phys = x.p.phys /\ p.disc = x.p.disc
  <2>1. x.p \in Processes /\ f \in Files
    BY <1>5 DEF Calls
  <2>2. /\ x.p.sz = v /\ x.p.dir = d /\ x.p.pid = proc[s].pid /\ x.p.state = "user" /\ x.p.at = 0
        /\ x.p.sz + 1 \in 0 .. MaxPages
    BY <1>1, <1>3, <1>4, <1>5, Numbers DEF Same, v
  <2> QED
    BY <2>1, <2>2 DEF Processes
<1> HIDE DEF p
<1>10. Alone(s, p, f)
  <2>1. TypeOK /\ OrderInv
    BY DEF IInv
  <2>2. x.pt \in [Dirs -> PTEs] /\ x.ram \in [Dirs -> [Pages -> BOOLEAN]] /\ x.panic \in BOOLEAN
    BY <1>5 DEF Calls
  <2> QED
    BY <1>1, <1>7, <1>8, <1>9, <2>1, <2>2 DEF Alone, TypeOK, OrderInv, d
<1>11. TablesAlone(s, p)
  <2> SUFFICES ASSUME ~panicked', "misread" \notin blame
               PROVE  /\ Tables(p, pt', {p.dir}) /\ Sized(p, pt') /\ p.dir = proc[s].dir
                      /\ \A c \in Dirs : c # proc[s].dir => pt'[c] = pt[c]
    BY <1>1 DEF TablesAlone
  <2>1. Tables(p, pt', {d})
    BY <1>6, <1>8, <1>9 DEF Tables
  <2>2. Sized(p, pt')
    <3>1. \A w \in Pages : o.pt[d][w] # "none" <=> w < v
      BY <1>3, <1>6, <1>8 DEF Sized, v
    <3>2. \A w \in Pages : x.pt[d][w] # "none" <=> w < v \/ w = v
      BY <1>3, <1>6, <1>8, <3>1
    <3>3. \A w \in Pages : w < v \/ w = v <=> w < v + 1
      BY <1>4, Numbers
    <3> QED
      BY <1>8, <1>9, <3>2, <3>3 DEF Sized
  <2> QED
    BY <1>3, <1>6, <1>8, <1>9, <2>1, <2>2 DEF d
<1>12. OrderAlone(p)
  <2> SUFFICES ASSUME ~panicked', "exec" \notin blame PROVE Ordered(p)
    BY <1>1 DEF OrderAlone
  <2>1. "misread" \notin blame /\ Ordered(o.p)
    BY <1>1, <1>3, OfIs
  <2>2. Ordered(x.p) /\ x.p.dir = d
    BY <1>3, <1>5, <1>6, <1>8, <2>1 DEF Same
  <2> QED
    BY <1>9, <2>2 DEF Ordered
<1>13. BytesAlone(s, p, f)
  <2> SUFFICES ASSUME ~panicked', blame = {}
               PROVE  /\ \A c \in Dirs : c # proc[s].dir => ram'[c] = ram[c]
                      /\ Held(p, pt', ram') /\ Saved(p, f)
                      /\ buffer'.owner = p.pid /\ buffer'.va + 1 = p.at => buffer'.right
                      /\ buffer' = buffer
    BY <1>1 DEF BytesAlone
  <2>1. Saved(o.p, o.file) /\ RightIn(o, d) /\ "misread" \notin blame
    BY <1>1, <1>3, OfIs DEF o, d
  <2>2. RightIn(x, d) /\ Saved(x.p, x.file) /\ x.p.dir = d
    BY <1>3, <1>5, <1>6, <1>8, <2>1 DEF Same
  <2>3. Held(p, pt', ram')
    BY <1>8, <1>9, <2>2 DEF Held, RightIn
  <2>4. Saved(p, f)
    BY <1>9, <2>2 DEF Saved
  <2>5. buffer'.va \in Nat /\ buffer' = buffer
    BY <1>1, Numbers DEF IInv, TypeOK
  <2> QED
    BY <1>3, <1>6, <1>8, <1>9, <2>1, <2>3, <2>4, <2>5 DEF d
<1> QED
  BY <1>10, <1>11, <1>12, <1>13, AloneInv

(* retrievePage for a page that the search finds.                          *)
LEMMA PageInTables ==
    ASSUME NEW x \in Calls, x.ok, x.p.dir \in Dirs, NEW v \in Pages, Tables(x.p, x.pt, {x.p.dir}),
           x.pt[x.p.dir][v] = "PG", ~Misread(x, v), PageIn(x, v).ok
    PROVE  LET y == PageIn(x, v) IN
           /\ Tables(y.p, y.pt, {x.p.dir})
           /\ \A c \in Dirs : c # x.p.dir => y.pt[c] = x.pt[c] /\ y.ram[c] = x.ram[c]
           /\ \A w \in Pages : y.pt[x.p.dir][w] = "none" <=> x.pt[x.p.dir][w] = "none"
           /\ Ordered(x.p) => Ordered(y.p)
           /\ Saved(x.p, x.file) => Saved(y.p, y.file)
           /\ RightIn(x, x.p.dir) /\ Saved(x.p, x.file) => RightIn(y, x.p.dir)
           /\ y.pt[x.p.dir][v] = "P"
<1> DEFINE y == PageIn(x, v)
<1>1. /\ y \in Calls /\ Same(x, y) /\ y.file = x.file
      /\ \E j \in DiscIx : Fetched(x, y, v, j)
  BY PageInIs
<1> HIDE DEF y
<1>2. PICK j \in DiscIx : Fetched(x, y, v, j)
  BY <1>1
<1>3. y.p.dir = x.p.dir
  BY <1>1 DEF Same
<1> QED
  BY <1>1, <1>2, <1>3, FetchedTables DEF y

(* A page fault with room in memory.                                       *)
LEMMA FaultInInv == ASSUME IInv, NEW s \in Slots, NEW v \in Pages, FaultIn(s, v) PROVE IInv'
<1> DEFINE x == Of(s)
           y == PageIn(x, v)
           d == proc[s].dir
           f == swap[proc[s].pid]
<1>1. /\ proc[s].state = "user" /\ proc[s].at = 0 /\ ~panicked /\ pt[d][v] = "PG" /\ s \in Alive
      /\ IF y.ok THEN Commit(s, y, proc) ELSE Killed(s) /\ UNCHANGED <<pt, ram, panicked>>
      /\ blame' = (IF Misread(x, v) THEN blame \cup {"misread"} ELSE blame)
      /\ UNCHANGED <<swap, buffer, nextpid, calls, abandoned>>
  BY DEF FaultIn, Faults, Alive
<1>2. /\ x \in Calls /\ x.ok /\ ~x.panic /\ x.p = proc[s] /\ x.pt = pt /\ x.ram = ram /\ x.file = f
      /\ d \in Dirs /\ d \notin FreeDirs /\ x.p.dir = d /\ proc[s] \in Processes
  BY <1>1, OfIs
<1>3. /\ y \in Calls /\ Same(x, y) /\ y.panic = x.panic /\ y.file = f
      /\ ~y.ok => Kept(x, y)
  BY <1>2, PageInIs
<1>4. "exec" \notin blame => ~Misread(x, v)
  BY <1>1, <1>2, OfIs, Found
<1>5. "misread" \notin blame' =>
      /\ blame' = blame /\ ~Misread(x, v) /\ Tables(proc[s], pt, {d}) /\ Sized(proc[s], pt)
      /\ y.ok =>
           /\ Tables(y.p, y.pt, {d})
           /\ \A c \in Dirs : c # d => y.pt[c] = pt[c] /\ y.ram[c] = ram[c]
           /\ \A w \in Pages : y.pt[d][w] = "none" <=> pt[d][w] = "none"
           /\ Ordered(x.p) => Ordered(y.p)
           /\ Saved(x.p, x.file) => Saved(y.p, y.file)
           /\ RightIn(x, d) /\ Saved(x.p, x.file) => RightIn(y, d)
  <2>1. "misread" \notin blame' => "misread" \notin blame /\ blame' = blame /\ ~Misread(x, v)
    BY <1>1
  <2>2. "misread" \notin blame => Tables(proc[s], pt, {d}) /\ Sized(proc[s], pt)
    BY <1>1, OfIs
  <2> HIDE DEF x, d
  <2> QED
    BY <1>1, <1>2, <2>1, <2>2, PageInTables
<1> DEFINE p == IF y.ok THEN y.p ELSE [proc[s] EXCEPT !.state = "doomed"]
<1> HIDE DEF x, y, d
<1>6. /\ proc' = [proc EXCEPT ![s] = p] /\ panicked' = FALSE
      /\ pt' = (IF y.ok THEN y.pt ELSE pt) /\ ram' = IF y.ok THEN y.ram ELSE ram
  BY <1>1, <1>2, <1>3 DEF Commit, Killed
<1>7. /\ p \in Processes /\ p.pid = proc[s].pid /\ p.dir = d /\ p.at = 0 /\ p.sz = proc[s].sz
      /\ p.state \in {"user", "doomed"}
      /\ p.phys = (IF y.ok THEN y.p.phys ELSE proc[s].phys) /\ p.disc = IF y.ok THEN y.p.disc ELSE proc[s].disc
  <2>1. CASE y.ok
    BY <1>1, <1>2, <1>3, <2>1 DEF Calls, Same, d
  <2>2. CASE ~y.ok
    BY <1>1, <1>2, <2>2 DEF Processes, d
  <2> QED
    BY <2>1, <2>2
<1> HIDE DEF p
<1>8. /\ f \in Files /\ proc[s].pid \in DOMAIN swap /\ swap = With(swap, proc[s].pid, f)
  <2>1. proc[s].pid \in DOMAIN swap /\ swap \in [DOMAIN swap -> Files]
    BY <1>1 DEF IInv, TypeOK, SwapFilesOwned
  <2>2. DOMAIN swap \cup {proc[s].pid} = DOMAIN swap
    BY <2>1
  <2>3. swap = [k \in DOMAIN swap |-> IF k = proc[s].pid THEN f ELSE swap[k]]
    BY <2>1
  <2> QED
    BY <2>1, <2>2, <2>3 DEF With
<1>9. Alone(s, p, f)
  <2>1. TypeOK /\ OrderInv
    BY DEF IInv
  <2>2. pt' \in [Dirs -> PTEs] /\ ram' \in [Dirs -> [Pages -> BOOLEAN]]
    BY <1>3, <1>6, <2>1 DEF Calls, TypeOK
  <2>3. blame' \in SUBSET {"misread", "buffer", "fork", "exec"} /\ blame \in SUBSET blame'
    BY <1>1, <2>1 DEF TypeOK
  <2>4. "misread" \in blame' => "exec" \in blame'
    BY <1>1, <1>4, <2>1 DEF OrderInv
  <2> QED
    BY <1>1, <1>6, <1>7, <1>8, <2>1, <2>2, <2>3, <2>4 DEF Alone, TypeOK, d
<1>10. TablesAlone(s, p)
  <2> SUFFICES ASSUME "misread" \notin blame'
               PROVE  /\ Tables(p, pt', {d}) /\ Sized(p, pt') /\ p.dir = d
                      /\ \A c \in Dirs : c # d => pt'[c] = pt[c]
    BY <1>7 DEF TablesAlone, d
  <2>1. Tables(p, pt', {d})
    <3>1. CASE y.ok
      <4>1. Tables(y.p, y.pt, {d}) /\ p.phys = y.p.phys /\ p.disc = y.p.disc /\ pt' = y.pt
        BY <1>5, <1>6, <1>7, <3>1
      <4> QED
        BY <4>1 DEF Tables
    <3>2. CASE ~y.ok
      <4>1. Tables(proc[s], pt, {d}) /\ p.phys = proc[s].phys /\ p.disc = proc[s].disc /\ pt' = pt
        BY <1>5, <1>6, <1>7, <3>2
      <4> QED
        BY <4>1 DEF Tables
    <3> QED
      BY <3>1, <3>2
  <2>2. \A w \in Pages : pt'[d][w] = "none" <=> pt[d][w] = "none"
    BY <1>5, <1>6
  <2>3. Sized(p, pt')
    BY <1>5, <1>7, <2>2 DEF Sized, d
  <2> QED
    BY <1>5, <1>6, <1>7, <2>1, <2>3
<1>11. OrderAlone(p)
  <2> SUFFICES ASSUME "exec" \notin blame' PROVE Ordered(p)
    BY DEF OrderAlone
  <2>1. "exec" \notin blame
    BY <1>1
  <2>2. Ordered(proc[s]) /\ "misread" \notin blame'
    BY <1>1, <1>4, <2>1, OfIs
  <2>3. y.ok => Ordered(y.p) /\ y.p.dir = d
    BY <1>2, <1>3, <1>5, <2>2 DEF Same
  <2> QED
    BY <1>7, <2>2, <2>3 DEF Ordered, d
<1>12. BytesAlone(s, p, f)
  <2> SUFFICES ASSUME blame' = {}
               PROVE  /\ \A c \in Dirs : c # d => ram'[c] = ram[c]
                      /\ Held(p, pt', ram') /\ Saved(p, f)
                      /\ buffer'.owner = p.pid /\ buffer'.va + 1 = p.at => buffer'.right
                      /\ buffer' = buffer
    BY DEF BytesAlone, d
  <2>1. blame = {} /\ "misread" \notin blame'
    BY <1>1
  <2>2. Saved(x.p, x.file) /\ RightIn(x, d)
    BY <1>1, <1>2, <2>1, OfIs DEF x, d
  <2>3. y.ok => RightIn(y, d) /\ Saved(y.p, f) /\ y.p.dir = d
    BY <1>2, <1>3, <1>5, <2>1, <2>2 DEF Same
  <2>4. Held(p, pt', ram')
    BY <1>2, <1>6, <1>7, <2>2, <2>3 DEF Held, RightIn
  <2>5. Saved(p, f)
    BY <1>2, <1>7, <2>2, <2>3 DEF Saved
  <2>6. buffer'.va \in Nat /\ buffer' = buffer
    BY <1>1, Numbers DEF IInv, TypeOK
  <2> QED
    BY <1>5, <1>6, <1>7, <2>1, <2>4, <2>5, <2>6
<1> QED
  BY <1>9, <1>10, <1>11, <1>12, AloneInv

(* An eviction that does not panic, in a process with only its own pages.  *)
LEMMA EvictTables ==
    ASSUME NEW x \in Calls, x.ok, ~x.panic, x.p.dir \in Dirs, NEW t \in x.p.phys, Tables(x.p, x.pt, {x.p.dir}),
           x.p.at = 0, ~reallocatePageInDisk(x, t).panic
    PROVE  LET e == reallocatePageInDisk(x, t) IN
           /\ Tables(e.p, e.pt, {x.p.dir})
           /\ \A c \in Dirs : c # x.p.dir => e.pt[c] = x.pt[c]
           /\ e.ram = x.ram
           /\ \A w \in Pages : /\ e.pt[x.p.dir][w] = "none" <=> x.pt[x.p.dir][w] = "none"
                               /\ x.pt[x.p.dir][w] = "PG" => e.pt[x.p.dir][w] = "PG"
           /\ Ordered(x.p) => Ordered(e.p)
           /\ RightIn(x, x.p.dir) /\ Saved(x.p, x.file) => RightIn(e, x.p.dir) /\ Saved(e.p, e.file)
<1> DEFINE e == reallocatePageInDisk(x, t)
           d == x.p.dir
<1>1. /\ e \in Calls /\ Same(x, e) /\ ~e.panic
      /\ ~e.ok => Kept(x, e)
      /\ e.ok => \E j \in DiscIx : Moved(x, e, t, j)
  BY EvictIs
<1> HIDE DEF e
<1>2. CASE Kept(x, e)
  BY <1>2 DEF Kept, RightIn, e
<1>3. CASE \E j \in DiscIx : Moved(x, e, t, j)
  <2>1. PICK j \in DiscIx : Moved(x, e, t, j)
    BY <1>3
  <2>2. OwnDisc(x.p)
    BY DEF Tables, OwnDisc
  <2>3. {d} \in SUBSET Dirs /\ d \in {d}
    OBVIOUS
  <2>4. /\ Tables(e.p, e.pt, {d})
        /\ \A c \in Dirs \ {d} : e.pt[c] = x.pt[c]
        /\ \A c \in Dirs, w \in Pages : e.pt[c][w] = "none" <=> x.pt[c][w] = "none"
    BY <1>1, <2>1, <2>3, MovedTables
  <2>5. /\ Ordered(x.p) => Ordered(e.p)
        /\ Held(x.p, x.pt, x.ram) /\ Saved(x.p, x.file) => Saved(e.p, e.file)
    BY <1>1, <2>1, <2>2, <2>3, MovedBytes
  <2>6. RightIn(x, d) => Held(x.p, x.pt, x.ram) /\ RightIn(e, d)
    <3>1. RightIn(x, d) => Held(x.p, x.pt, x.ram)
      BY DEF RightIn, Held
    <3> QED
      BY <1>1, <2>1, <3>1, MovedRight
  <2>7. e.ram = x.ram /\ \A w \in Pages : x.pt[d][w] = "PG" => e.pt[d][w] = "PG"
    BY <1>1, <2>1, MovedIs
  <2> QED
    BY <2>4, <2>5, <2>6, <2>7 DEF e
<1> QED
  BY <1>1, <1>2, <1>3

(* A page fault with memory full, up to the read into the buffer, when an  *)
(* eviction and the read succeed.                                          *)
LEMMA FaultReadHit ==
    ASSUME IInv, NEW s \in Slots, NEW v \in Pages, Faults(s, v), NEW t \in proc[s].phys,
           NEW e, e = reallocatePageInDisk(Of(s), t), NEW y, y = PageIn(e, v), e.ok, y.ok, ~e.panic,
           Commit(s, [y EXCEPT !.p.at = v + 1, !.ram[y.p.dir][v] = FALSE], proc),
           swap' = With(swap, proc[s].pid, y.file),
           buffer' = [owner |-> proc[s].pid, va |-> v, right |-> y.ram[y.p.dir][v]],
           blame' = IF Misread(e, v) THEN blame \cup {"misread"} ELSE blame,
           UNCHANGED <<nextpid, abandoned>>
    PROVE  IInv'
<1> DEFINE x == Of(s)
           d == proc[s].dir
           p == [y.p EXCEPT !.at = v + 1]
           f == y.file
<1>1. /\ proc[s].state = "user" /\ proc[s].at = 0 /\ ~panicked /\ pt[d][v] = "PG" /\ s \in Alive
  BY DEF Faults, Alive
<1>2. /\ x \in Calls /\ x.ok /\ ~x.panic /\ x.p = proc[s] /\ x.pt = pt /\ x.ram = ram /\ x.file = swap[proc[s].pid]
      /\ d \in Dirs /\ d \notin FreeDirs /\ x.p.dir = d /\ proc[s] \in Processes
  BY <1>1, OfIs
<1>3. e \in Calls /\ Same(x, e)
  BY <1>2, EvictIs
<1>4. e.p.dir = d /\ e.p.at = 0 /\ e.p.state = "user" /\ e.p.pid = proc[s].pid /\ e.p.sz = proc[s].sz
  BY <1>1, <1>2, <1>3 DEF Same
<1>5. y \in Calls /\ Same(e, y) /\ y.panic = e.panic /\ y.file = e.file
  BY <1>2, <1>3, <1>4, PageInIs
<1>6. "misread" \notin blame =>
      /\ Tables(x.p, x.pt, {d}) /\ Sized(x.p, x.pt)
      /\ Tables(e.p, e.pt, {d})
      /\ \A c \in Dirs : c # d => e.pt[c] = x.pt[c]
      /\ e.ram = x.ram
      /\ \A w \in Pages : e.pt[d][w] = "none" <=> x.pt[d][w] = "none"
      /\ e.pt[d][v] = "PG"
      /\ Ordered(x.p) => Ordered(e.p)
      /\ RightIn(x, d) /\ Saved(x.p, x.file) => RightIn(e, d) /\ Saved(e.p, e.file)
  <2>1. "misread" \notin blame => Tables(x.p, x.pt, {d}) /\ Sized(x.p, x.pt)
    BY <1>1, <1>2, OfIs
  <2> HIDE DEF x, d
  <2>2. x.p.at = 0 /\ t \in x.p.phys /\ e = reallocatePageInDisk(x, t) /\ x.pt[d][v] = "PG"
    BY <1>1, <1>2 DEF x, d
  <2> QED
    BY <1>2, <2>1, <2>2, EvictTables
<1>7. "exec" \notin blame => ~Misread(e, v)
  <2> SUFFICES ASSUME "exec" \notin blame PROVE ~Misread(e, v)
    OBVIOUS
  <2>1. "misread" \notin blame /\ Ordered(x.p)
    BY <1>1, <1>2, OfIs
  <2> HIDE DEF x, d
  <2>2. /\ e \in Calls /\ e.p.dir \in Dirs /\ Tables(e.p, e.pt, {e.p.dir}) /\ e.pt[e.p.dir][v] = "PG"
        /\ Ordered(e.p)
    BY <1>2, <1>3, <1>4, <1>6, <2>1
  <2> QED
    BY <2>2, Found
<1>8. "misread" \notin blame' =>
      /\ blame' = blame /\ "misread" \notin blame
      /\ Tables(y.p, y.pt, {d})
      /\ \A c \in Dirs : c # d => y.pt[c] = e.pt[c] /\ y.ram[c] = e.ram[c]
      /\ \A w \in Pages : y.pt[d][w] = "none" <=> e.pt[d][w] = "none"
      /\ Ordered(e.p) => Ordered(y.p)
      /\ Saved(e.p, e.file) => Saved(y.p, y.file)
      /\ RightIn(e, d) /\ Saved(e.p, e.file) => RightIn(y, d)
      /\ y.pt[d][v] = "P"
  <2>1. "misread" \notin blame' => "misread" \notin blame /\ blame' = blame /\ ~Misread(e, v)
    OBVIOUS
  <2> HIDE DEF x, d
  <2> SUFFICES ASSUME "misread" \notin blame'
      PROVE /\ Tables(y.p, y.pt, {d})
            /\ \A c \in Dirs : c # d => y.pt[c] = e.pt[c] /\ y.ram[c] = e.ram[c]
            /\ \A w \in Pages : y.pt[d][w] = "none" <=> e.pt[d][w] = "none"
            /\ Ordered(e.p) => Ordered(y.p)
            /\ Saved(e.p, e.file) => Saved(y.p, y.file)
            /\ RightIn(e, d) /\ Saved(e.p, e.file) => RightIn(y, d)
            /\ y.pt[d][v] = "P"
    BY <2>1
  <2>2. /\ e \in Calls /\ e.ok /\ e.p.dir \in Dirs /\ Tables(e.p, e.pt, {e.p.dir}) /\ e.pt[e.p.dir][v] = "PG"
        /\ ~Misread(e, v) /\ PageIn(e, v).ok
    BY <1>2, <1>3, <1>4, <1>6, <2>1
  <2> QED
    BY <1>4, <2>2, PageInTables
<1> HIDE DEF x, d
<1>9. y.p.dir = d /\ y.p.state = "user" /\ y.p.pid = proc[s].pid /\ y.p.sz = proc[s].sz /\ y.p \in Processes
  BY <1>4, <1>5 DEF Same, Calls
<1>10. /\ proc' = [proc EXCEPT ![s] = p] /\ pt' = y.pt /\ ram' = [y.ram EXCEPT ![d][v] = FALSE]
       /\ panicked' = FALSE
  BY <1>5, <1>9 DEF Commit, Calls
<1>11. /\ p \in Processes /\ p.at = v + 1 /\ p.dir = d /\ p.state = "user" /\ p.pid = proc[s].pid /\ p.sz = proc[s].sz
       /\ p.phys = y.p.phys /\ p.disc = y.p.disc
  <2>1. v + 1 \in 0 .. MaxPages
    BY Numbers
  <2> QED
    BY <1>9, <2>1 DEF Processes
<1> HIDE DEF p
<1>12. y.pt \in [Dirs -> PTEs] /\ y.ram \in [Dirs -> [Pages -> BOOLEAN]] /\ f \in Files
  BY <1>5 DEF Calls
<1>13. ram' \in [Dirs -> [Pages -> BOOLEAN]] /\ \A c \in Dirs : c # d => ram'[c] = y.ram[c]
  BY <1>2, <1>10, <1>12
<1>14. \A w \in Pages : w # v => ram'[d][w] = y.ram[d][w]
  <2>1. ram' = [y.ram EXCEPT ![d] = [y.ram[d] EXCEPT ![v] = FALSE]]
    BY <1>10
  <2>2. ram'[d] = [y.ram[d] EXCEPT ![v] = FALSE] /\ y.ram[d] \in [Pages -> BOOLEAN]
    BY <1>2, <1>12, <2>1
  <2> QED
    BY <2>2, Zenon
<1>15. buffer' \in [owner : Nat, va : Pages, right : BOOLEAN] /\ buffer'.owner = p.pid /\ buffer'.right = y.ram[d][v]
  <2>1. proc[s].pid \in Nat /\ y.ram[d][v] \in BOOLEAN
    BY <1>2, <1>12 DEF Processes
  <2> QED
    BY <1>9, <1>11, <2>1
<1>16. Alone(s, p, f)
  <2>1. TypeOK /\ OrderInv
    BY DEF IInv
  <2>2. blame' \in SUBSET {"misread", "buffer", "fork", "exec"} /\ blame \in SUBSET blame'
    BY <2>1 DEF TypeOK
  <2>3. "misread" \in blame' => "exec" \in blame'
    BY <1>7, <2>1 DEF OrderInv
  <2> QED
    BY <1>1, <1>10, <1>11, <1>12, <1>13, <1>15, <2>2, <2>3 DEF Alone, d
<1>17. TablesAlone(s, p)
  <2> SUFFICES ASSUME "misread" \notin blame'
               PROVE  /\ Tables(p, pt', {d}) /\ Sized(p, pt') /\ p.dir = d
                      /\ \A c \in Dirs : c # d => pt'[c] = pt[c]
    BY <1>11 DEF TablesAlone, d
  <2>1. Tables(p, pt', {d})
    <3>1. Tables(y.p, y.pt, {d}) /\ p.phys = y.p.phys /\ p.disc = y.p.disc /\ pt' = y.pt
      BY <1>8, <1>10, <1>11
    <3> QED
      BY <3>1, TablesOnly
  <2>2. Sized(p, pt')
    <3>1. \A w \in Pages : y.pt[d][w] = "none" <=> pt[d][w] = "none"
      BY <1>2, <1>6, <1>8
    <3> QED
      BY <1>2, <1>6, <1>8, <1>10, <1>11, <3>1 DEF Sized
  <2> QED
    BY <1>2, <1>6, <1>8, <1>10, <1>11, <2>1, <2>2
<1>18. OrderAlone(p)
  <2> SUFFICES ASSUME "exec" \notin blame' PROVE Ordered(p)
    BY DEF OrderAlone
  <2>1. "exec" \notin blame
    OBVIOUS
  <2>2. "misread" \notin blame' /\ Ordered(x.p)
    BY <1>1, <1>2, <1>7, <2>1, OfIs
  <2>3. Ordered(y.p)
    BY <1>6, <1>8, <2>2
  <2> QED
    BY <1>9, <1>11, <2>3 DEF Ordered
<1>19. BytesAlone(s, p, f)
  <2> SUFFICES ASSUME blame' = {}
               PROVE  /\ \A c \in Dirs : c # d => ram'[c] = ram[c]
                      /\ Held(p, pt', ram') /\ Saved(p, f) /\ buffer'.right
    BY <1>15 DEF BytesAlone, d
  <2>1. blame = {} /\ "misread" \notin blame'
    OBVIOUS
  <2>2. Saved(x.p, x.file) /\ RightIn(x, d)
    BY <1>1, <1>2, <2>1, OfIs DEF x, d
  <2>3. RightIn(y, d) /\ Saved(y.p, f) /\ y.pt[d][v] = "P"
    BY <1>6, <1>8, <2>1, <2>2
  <2>4. Held(p, pt', ram')
    BY <1>10, <1>11, <1>14, <2>3 DEF Held, RightIn
  <2>5. Saved(p, f)
    BY <1>9, <1>11, <2>3 DEF Saved
  <2>6. buffer'.right
    BY <1>15, <2>3 DEF RightIn
  <2> QED
    BY <1>2, <1>6, <1>8, <1>13, <2>1, <2>4, <2>5, <2>6
<1> QED
  BY <1>16, <1>17, <1>18, <1>19, AloneInv

(* The same fault when the eviction or the read fails: the process is      *)
(* killed with the tables as the eviction left them, or the kernel panics. *)
LEMMA FaultReadFails ==
    ASSUME IInv, NEW s \in Slots, NEW v \in Pages, Faults(s, v), NEW t \in proc[s].phys,
           NEW e, e = reallocatePageInDisk(Of(s), t), NEW y, y = PageIn(e, v), ~(e.ok /\ y.ok /\ ~e.panic),
           NEW z, z = IF e.ok THEN y ELSE e,
           Commit(s, [z EXCEPT !.p.state = "doomed"], proc),
           swap' = With(swap, proc[s].pid, z.file), UNCHANGED <<buffer, blame, nextpid, abandoned>>
    PROVE  IInv'
<1> DEFINE x == Of(s)
           d == proc[s].dir
           p == [z.p EXCEPT !.state = "doomed"]
           f == z.file
<1>1. /\ proc[s].state = "user" /\ proc[s].at = 0 /\ ~panicked /\ s \in Alive
  BY DEF Faults, Alive
<1>2. /\ x \in Calls /\ x.ok /\ ~x.panic /\ x.p = proc[s] /\ x.pt = pt /\ x.ram = ram /\ x.file = swap[proc[s].pid]
      /\ d \in Dirs /\ d \notin FreeDirs /\ x.p.dir = d /\ proc[s] \in Processes
  BY <1>1, OfIs
<1>3. e \in Calls /\ Same(x, e) /\ (~e.ok => ~e.panic)
  BY <1>2, EvictIs
<1>4. e.p.dir = d /\ e.p.at = 0 /\ e.p.state = "user" /\ e.p.pid = proc[s].pid /\ e.p.sz = proc[s].sz
  BY <1>1, <1>2, <1>3 DEF Same
<1>5. e.ok => y \in Calls /\ Same(e, y) /\ y.panic = e.panic /\ (~y.ok => Kept(e, y))
  BY <1>2, <1>3, <1>4, PageInIs
<1>6. z \in Calls /\ Same(e, z) /\ z.panic = e.panic /\ (~z.panic => Kept(e, z))
  <2>1. Same(e, e) /\ Kept(e, e)
    BY DEF Same, Kept
  <2> QED
    BY <1>3, <1>5, <2>1
<1>7. "misread" \notin blame /\ ~e.panic =>
      /\ Tables(x.p, x.pt, {d}) /\ Sized(x.p, x.pt)
      /\ Tables(e.p, e.pt, {d})
      /\ \A c \in Dirs : c # d => e.pt[c] = x.pt[c]
      /\ e.ram = x.ram
      /\ \A w \in Pages : e.pt[d][w] = "none" <=> x.pt[d][w] = "none"
      /\ Ordered(x.p) => Ordered(e.p)
      /\ RightIn(x, d) /\ Saved(x.p, x.file) => RightIn(e, d) /\ Saved(e.p, e.file)
  <2>1. "misread" \notin blame => Tables(x.p, x.pt, {d}) /\ Sized(x.p, x.pt)
    BY <1>1, <1>2, OfIs
  <2> HIDE DEF x, d
  <2>2. x.p.at = 0 /\ t \in x.p.phys /\ e = reallocatePageInDisk(x, t)
    BY <1>1, <1>2 DEF x, d
  <2> QED
    BY <1>2, <2>1, <2>2, EvictTables
<1> HIDE DEF x, d
<1>8. z.p.dir = d /\ z.p.at = 0 /\ z.p.pid = proc[s].pid /\ z.p.sz = proc[s].sz /\ z.p \in Processes
  BY <1>4, <1>6 DEF Same, Calls
<1>9. proc' = [proc EXCEPT ![s] = p] /\ pt' = z.pt /\ ram' = z.ram /\ panicked' = z.panic
  BY <1>6 DEF Commit, Calls
<1>10. /\ p \in Processes /\ p.at = 0 /\ p.dir = d /\ p.state = "doomed" /\ p.pid = proc[s].pid /\ p.sz = proc[s].sz
       /\ p.phys = z.p.phys /\ p.disc = z.p.disc
  BY <1>8 DEF Processes
<1> HIDE DEF p
<1>11. z.pt \in [Dirs -> PTEs] /\ z.ram \in [Dirs -> [Pages -> BOOLEAN]] /\ f \in Files /\ z.panic \in BOOLEAN
  BY <1>6 DEF Calls
<1>12. ~panicked' => /\ ~e.panic /\ p.phys = e.p.phys /\ p.disc = e.p.disc /\ pt' = e.pt /\ ram' = e.ram /\ f = e.file
  BY <1>6, <1>9, <1>10 DEF Kept
<1>13. Alone(s, p, f)
  <2>1. TypeOK /\ OrderInv
    BY DEF IInv
  <2>2. blame' \in SUBSET {"misread", "buffer", "fork", "exec"} /\ blame \in SUBSET blame'
    BY <2>1 DEF TypeOK
  <2>3. "misread" \in blame' => "exec" \in blame'
    BY <2>1 DEF OrderInv
  <2>4. buffer' \in [owner : Nat, va : Pages, right : BOOLEAN]
    BY <2>1 DEF TypeOK
  <2> QED
    BY <1>1, <1>9, <1>10, <1>11, <2>2, <2>3, <2>4 DEF Alone, d
<1>14. TablesAlone(s, p)
  <2> SUFFICES ASSUME ~panicked', "misread" \notin blame
               PROVE  /\ Tables(p, pt', {d}) /\ Sized(p, pt') /\ p.dir = d
                      /\ \A c \in Dirs : c # d => pt'[c] = pt[c]
    BY <1>10 DEF TablesAlone, d
  <2>1. Tables(p, pt', {d})
    BY <1>7, <1>12, TablesOnly
  <2>2. Sized(p, pt')
    BY <1>2, <1>7, <1>10, <1>12 DEF Sized
  <2> QED
    BY <1>2, <1>7, <1>10, <1>12, <2>1, <2>2
<1>15. OrderAlone(p)
  <2> SUFFICES ASSUME ~panicked', "exec" \notin blame PROVE Ordered(p)
    BY DEF OrderAlone
  <2>1. "misread" \notin blame /\ Ordered(x.p)
    BY <1>1, <1>2, OfIs
  <2>2. Ordered(e.p)
    BY <1>7, <1>12, <2>1
  <2> QED
    BY <1>4, <1>10, <1>12, <2>2 DEF Ordered
<1>16. BytesAlone(s, p, f)
  <2> SUFFICES ASSUME ~panicked', blame = {}
               PROVE  /\ \A c \in Dirs : c # d => ram'[c] = ram[c]
                      /\ Held(p, pt', ram') /\ Saved(p, f)
                      /\ ~(buffer.va + 1 = p.at)
    BY DEF BytesAlone, d
  <2>1. Saved(x.p, x.file) /\ RightIn(x, d) /\ "misread" \notin blame
    BY <1>1, <1>2, OfIs DEF x, d
  <2>2. RightIn(e, d) /\ Saved(e.p, f)
    BY <1>7, <1>12, <2>1
  <2>3. Held(p, pt', ram')
    BY <1>10, <1>12, <2>2 DEF Held, RightIn
  <2>4. Saved(p, f)
    BY <1>4, <1>10, <1>12, <2>2 DEF Saved
  <2>5. buffer.va \in Nat
    BY Numbers DEF IInv, TypeOK
  <2> QED
    BY <1>2, <1>7, <1>10, <1>12, <2>1, <2>3, <2>4, <2>5
<1> QED
  BY <1>13, <1>14, <1>15, <1>16, AloneInv

(* A page fault with memory full, up to the read into the buffer.          *)
LEMMA FaultReadInv == ASSUME IInv, NEW s \in Slots, NEW v \in Pages, FaultRead(s, v) PROVE IInv'
<1>1. /\ Faults(s, v) /\ UNCHANGED <<nextpid, abandoned>>
      /\ \E t \in proc[s].phys :
         LET e == reallocatePageInDisk(Of(s), t) y == PageIn(e, v) IN
         IF e.ok /\ y.ok /\ ~e.panic
         THEN /\ Commit(s, [y EXCEPT !.p.at = v + 1, !.ram[y.p.dir][v] = FALSE], proc)
              /\ swap' = With(swap, proc[s].pid, y.file)
              /\ buffer' = [owner |-> proc[s].pid, va |-> v, right |-> y.ram[y.p.dir][v]]
              /\ blame' = IF Misread(e, v) THEN blame \cup {"misread"} ELSE blame
         ELSE \E z \in {IF e.ok THEN y ELSE e} :
              /\ Commit(s, [z EXCEPT !.p.state = "doomed"], proc)
              /\ swap' = With(swap, proc[s].pid, z.file) /\ UNCHANGED <<buffer, blame>>
  BY DEF FaultRead
<1>2. PICK t \in proc[s].phys :
         LET e == reallocatePageInDisk(Of(s), t) y == PageIn(e, v) IN
         IF e.ok /\ y.ok /\ ~e.panic
         THEN /\ Commit(s, [y EXCEPT !.p.at = v + 1, !.ram[y.p.dir][v] = FALSE], proc)
              /\ swap' = With(swap, proc[s].pid, y.file)
              /\ buffer' = [owner |-> proc[s].pid, va |-> v, right |-> y.ram[y.p.dir][v]]
              /\ blame' = IF Misread(e, v) THEN blame \cup {"misread"} ELSE blame
         ELSE \E z \in {IF e.ok THEN y ELSE e} :
              /\ Commit(s, [z EXCEPT !.p.state = "doomed"], proc)
              /\ swap' = With(swap, proc[s].pid, z.file) /\ UNCHANGED <<buffer, blame>>
  BY <1>1
<1> DEFINE e == reallocatePageInDisk(Of(s), t)
           y == PageIn(e, v)
           z == IF e.ok THEN y ELSE e
<1>3. CASE e.ok /\ y.ok /\ ~e.panic
  <2>1. /\ Commit(s, [y EXCEPT !.p.at = v + 1, !.ram[y.p.dir][v] = FALSE], proc)
        /\ swap' = With(swap, proc[s].pid, y.file)
        /\ buffer' = [owner |-> proc[s].pid, va |-> v, right |-> y.ram[y.p.dir][v]]
        /\ blame' = IF Misread(e, v) THEN blame \cup {"misread"} ELSE blame
    BY <1>2, <1>3
  <2> QED
    BY <1>1, <1>3, <2>1, FaultReadHit
<1>4. CASE ~(e.ok /\ y.ok /\ ~e.panic)
  <2>1. /\ Commit(s, [z EXCEPT !.p.state = "doomed"], proc)
        /\ swap' = With(swap, proc[s].pid, z.file) /\ UNCHANGED <<buffer, blame>>
    BY <1>2, <1>4
  <2> QED
    BY <1>1, <1>4, <2>1, FaultReadFails
<1> QED
  BY <1>3, <1>4

(* A file written with what it has.                                        *)
LEMMA SameFile == IInv => \A s \in Alive : /\ proc[s].pid \in DOMAIN swap /\ swap[proc[s].pid] \in Files
                                           /\ swap = With(swap, proc[s].pid, swap[proc[s].pid])
<1> SUFFICES ASSUME IInv, NEW s \in Alive
             PROVE  /\ proc[s].pid \in DOMAIN swap /\ swap[proc[s].pid] \in Files
                    /\ swap = With(swap, proc[s].pid, swap[proc[s].pid])
  OBVIOUS
<1>1. proc[s].pid \in DOMAIN swap /\ swap \in [DOMAIN swap -> Files]
  BY DEF IInv, TypeOK, SwapFilesOwned
<1>2. DOMAIN swap \cup {proc[s].pid} = DOMAIN swap
  BY <1>1
<1>3. swap = [k \in DOMAIN swap |-> IF k = proc[s].pid THEN swap[proc[s].pid] ELSE swap[k]]
  BY <1>1
<1> QED
  BY <1>1, <1>2, <1>3 DEF With

(* The end of a page fault with memory full: the copy out of the buffer.   *)
LEMMA FaultCopyInv == ASSUME IInv, NEW s \in Slots, FaultCopy(s) PROVE IInv'
<1> DEFINE v == proc[s].at - 1
           d == proc[s].dir
           mine == buffer.owner = proc[s].pid /\ buffer.va = v
           r == mine /\ buffer.right
           p == [proc[s] EXCEPT !.at = 0]
           f == swap[proc[s].pid]
<1>1. /\ proc[s].state = "user" /\ proc[s].at # 0 /\ ~panicked /\ s \in Alive
      /\ ram' = [ram EXCEPT ![d][v] = r]
      /\ proc' = [proc EXCEPT ![s].at = 0]
      /\ blame' = (IF mine THEN blame ELSE blame \cup {"buffer"})
      /\ buffer' = buffer \/ buffer' = Empty
      /\ UNCHANGED <<pt, swap, nextpid, calls, panicked, abandoned>>
  BY DEF FaultCopy, Alive
<1>2. TypeOK /\ OrderInv /\ proc \in [Slots -> Processes] /\ proc[s] \in Processes /\ d \in Dirs
  BY <1>1, OfIs DEF IInv, TypeOK
<1>3. v \in Pages /\ v + 1 = proc[s].at
  BY <1>1, <1>2, Numbers DEF Processes
<1>4. /\ p \in Processes /\ p.at = 0 /\ p.dir = d /\ p.state = "user" /\ p.pid = proc[s].pid /\ p.sz = proc[s].sz
      /\ p.phys = proc[s].phys /\ p.disc = proc[s].disc
  <2>1. 0 \in 0 .. MaxPages
    BY Numbers
  <2> QED
    BY <1>1, <1>2, <2>1 DEF Processes
<1>5. proc' = [proc EXCEPT ![s] = p]
  BY <1>1
<1>6. r \in BOOLEAN /\ buffer \in [owner : Nat, va : Pages, right : BOOLEAN]
  BY <1>2 DEF TypeOK
<1>7. buffer' \in [owner : Nat, va : Pages, right : BOOLEAN] /\ (buffer' = buffer \/ buffer'.owner = 0)
  <2>1. Empty \in [owner : Nat, va : Pages, right : BOOLEAN] /\ Empty.owner = 0
    BY Numbers DEF Empty
  <2> QED
    BY <1>1, <1>6, <2>1
<1>8. ram \in [Dirs -> [Pages -> BOOLEAN]] /\ pt \in [Dirs -> PTEs]
  BY <1>2 DEF TypeOK
<1> HIDE DEF p, v, r, mine
<1>9. ram' \in [Dirs -> [Pages -> BOOLEAN]] /\ \A c \in Dirs : c # d => ram'[c] = ram[c]
  BY <1>1, <1>2, <1>6, <1>8
<1>10. ram'[d][v] = r /\ \A w \in Pages : w # v => ram'[d][w] = ram[d][w]
  <2>1. ram' = [ram EXCEPT ![d] = [ram[d] EXCEPT ![v] = r]]
    BY <1>1
  <2>2. ram'[d] = [ram[d] EXCEPT ![v] = r] /\ ram[d] \in [Pages -> BOOLEAN]
    BY <1>2, <1>8, <2>1
  <2> QED
    BY <1>3, <2>2, Zenon
<1>11. Alone(s, p, f)
  <2>1. blame' \in SUBSET {"misread", "buffer", "fork", "exec"} /\ blame \in SUBSET blame'
    BY <1>1, <1>2 DEF TypeOK
  <2>2. "misread" \in blame' => "exec" \in blame'
    BY <1>1, <1>2 DEF OrderInv
  <2>3. f \in Files /\ swap' = With(swap, proc[s].pid, f)
    BY <1>1, SameFile
  <2>4. nextpid' = nextpid /\ abandoned' = abandoned /\ panicked' \in BOOLEAN /\ pt' \in [Dirs -> PTEs]
    BY <1>1, <1>2, <1>8 DEF TypeOK
  <2> HIDE DEF f
  <2> QED
    BY <1>1, <1>4, <1>5, <1>7, <1>9, <2>1, <2>2, <2>3, <2>4 DEF Alone
<1>12. TablesAlone(s, p)
  <2> SUFFICES ASSUME "misread" \notin blame
               PROVE  Tables(p, pt, {d}) /\ Sized(p, pt)
    BY <1>1, <1>4 DEF TablesAlone
  <2>1. Tables(proc[s], pt, {d}) /\ Sized(proc[s], pt)
    BY <1>1, OfIs
  <2>2. Tables(p, pt, {d})
    BY <1>4, <2>1, TablesOnly
  <2> QED
    BY <1>4, <2>1, <2>2 DEF Sized
<1>13. OrderAlone(p)
  <2> SUFFICES ASSUME "exec" \notin blame PROVE Ordered(p)
    BY <1>1 DEF OrderAlone
  <2>1. Ordered(proc[s])
    BY <1>1, OfIs
  <2> QED
    BY <1>4, <2>1 DEF Ordered
<1>14. BytesAlone(s, p, f)
  <2> SUFFICES ASSUME blame' = {}
               PROVE  Held(p, pt, ram') /\ Saved(p, f) /\ ~(buffer'.va + 1 = p.at)
    BY <1>1, <1>4, <1>7, <1>9 DEF BytesAlone
  <2>1. blame = {} /\ mine
    BY <1>1
  <2>2. /\ Held(proc[s], pt, ram) /\ Saved(proc[s], f)
        /\ buffer.owner = proc[s].pid /\ buffer.va + 1 = proc[s].at => buffer.right
    BY <1>1, <2>1 DEF IInv, BytesInv
  <2>3. r
    BY <1>3, <2>1, <2>2 DEF mine, r
  <2>4. \A w \in Pages : w # v => proc[s].at # w + 1
    BY <1>3, Numbers
  <2>5. Held(p, pt, ram')
    <3> SUFFICES ASSUME NEW w \in Pages, pt[d][w] = "P" PROVE ram'[d][w]
      BY <1>4 DEF Held
    <3>1. CASE w = v
      BY <1>10, <2>3, <3>1
    <3>2. CASE w # v
      BY <1>10, <2>2, <2>4, <3>2 DEF Held
    <3> QED
      BY <3>1, <3>2
  <2>6. Saved(p, f)
    BY <1>4, <2>2 DEF Saved
  <2>7. buffer'.va \in Nat
    BY <1>7, Numbers
  <2> QED
    BY <1>4, <2>5, <2>6, <2>7
<1> QED
  BY <1>11, <1>12, <1>13, <1>14, AloneInv

(* fork that fails after allocproc.                                        *)
LEMMA ForkFailsInv == ASSUME IInv, NEW s \in Slots, ForkFails(s) PROVE IInv'
<1>1. /\ swap' = With(swap, nextpid, <<>>) /\ abandoned' = abandoned \cup {nextpid}
      /\ nextpid' = nextpid + 1
      /\ UNCHANGED <<proc, pt, ram, buffer, calls, panicked, blame>>
  BY DEF ForkFails
<1>2. TypeOK /\ IdInv /\ SwapFilesOwned /\ TablesInv /\ OrderInv /\ BytesInv
  BY DEF IInv
<1>3. nextpid \in Nat \ {0} /\ abandoned \in SUBSET Nat /\ proc \in [Slots -> Processes]
  BY <1>2 DEF TypeOK
<1>4. Alive' = Alive /\ Used' = Used /\ FreeDirs' = FreeDirs /\ Alive \in SUBSET Used
  BY <1>1 DEF Alive, Used, FreeDirs
<1>5. \A q \in Used : proc[q].pid \in Nat /\ proc[q].pid < nextpid /\ proc[q].pid # nextpid
  BY <1>2, <1>3 DEF IdInv
<1>6. /\ DOMAIN swap' = DOMAIN swap \cup {nextpid} /\ swap' \in [DOMAIN swap' -> Files]
      /\ \A n \in DOMAIN swap : n # nextpid => swap'[n] = swap[n]
  <2>1. <<>> \in Files
    BY DEF Files
  <2> QED
    BY <1>1, <1>2, <2>1 DEF With, TypeOK
<1>7. TypeOK'
  BY <1>1, <1>2, <1>3, <1>6 DEF TypeOK
<1>8. IdInv'
  <2>1. \A q \in Used : proc[q].pid \in 1 .. nextpid' - 1 /\ proc[q].pid \notin abandoned'
    BY <1>1, <1>2, <1>3, <1>5 DEF IdInv
  <2>2. \A n \in abandoned' : n < nextpid'
    BY <1>1, <1>2, <1>3 DEF IdInv
  <2> QED
    BY <1>1, <1>2, <1>4, <2>1, <2>2 DEF IdInv
<1>9. SwapFilesOwned'
  BY <1>1, <1>2, <1>4, <1>6 DEF SwapFilesOwned
<1>10. TablesInv' /\ OrderInv'
  BY <1>1, <1>2, <1>4 DEF TablesInv, OrderInv
<1>11. BytesInv'
  <2>1. \A q \in Alive : swap'[proc[q].pid] = swap[proc[q].pid]
    BY <1>2, <1>4, <1>5, <1>6 DEF SwapFilesOwned
  <2> QED
    BY <1>1, <1>2, <1>4, <2>1 DEF BytesInv
<1> QED
  BY <1>7, <1>8, <1>9, <1>10, <1>11 DEF IInv

(* exit removes the swap file and clears the tables.                       *)
LEMMA ExitInv == ASSUME IInv, NEW s \in Slots, exit(s) PROVE IInv'
<1> DEFINE gone == [Unused EXCEPT !.state = "zombie", !.pid = proc[s].pid, !.parent = proc[s].parent,
                                  !.dir = proc[s].dir]
           n == proc[s].pid
<1>1. /\ ~panicked /\ s \in Alive /\ swap' = Cut(swap, n)
      /\ proc' = [q \in Slots |-> IF q = s THEN gone
                                  ELSE IF proc[q].parent = s THEN [proc[q] EXCEPT !.parent = 0] ELSE proc[q]]
      /\ UNCHANGED <<pt, ram, buffer, nextpid, calls, panicked, abandoned, blame>>
  BY DEF exit, Removed, Runs, Alive
<1>2. TypeOK /\ IdInv /\ SwapFilesOwned /\ TablesInv /\ OrderInv /\ BytesInv
  BY DEF IInv
<1>3. proc \in [Slots -> Processes] /\ proc[s] \in Processes
  BY <1>2 DEF TypeOK
<1>4. /\ gone \in Processes /\ gone.state = "zombie" /\ gone.pid = n /\ gone.dir = proc[s].dir
  <2>1. [j \in DiscIx |-> Free(0)] \in Discs
    BY Fields, Numbers DEF Discs
  <2>2. 0 \in 0 .. MaxPages /\ {} \in SUBSET Entries
    BY Numbers
  <2> QED
    BY <1>3, <2>1, <2>2 DEF Unused, Processes
<1> HIDE DEF gone
<1>5. proc'[s] = gone /\ \A q \in Slots : q # s =>
        /\ proc'[q] \in Processes /\ proc'[q].state = proc[q].state /\ proc'[q].pid = proc[q].pid
        /\ proc'[q].dir = proc[q].dir /\ proc'[q].sz = proc[q].sz /\ proc'[q].at = proc[q].at
        /\ proc'[q].phys = proc[q].phys /\ proc'[q].disc = proc[q].disc
  <2>1. proc'[s] = gone
    BY <1>1
  <2>2. ASSUME NEW q \in Slots, q # s
        PROVE  /\ proc'[q] \in Processes /\ proc'[q].state = proc[q].state /\ proc'[q].pid = proc[q].pid
               /\ proc'[q].dir = proc[q].dir /\ proc'[q].sz = proc[q].sz /\ proc'[q].at = proc[q].at
               /\ proc'[q].phys = proc[q].phys /\ proc'[q].disc = proc[q].disc
    <3>1. proc'[q] = (IF proc[q].parent = s THEN [proc[q] EXCEPT !.parent = 0] ELSE proc[q]) /\ proc[q] \in Processes
      BY <1>1, <1>3, <2>2
    <3> QED
      BY <3>1 DEF Processes
  <2> QED
    BY <2>1, <2>2
<1>6. proc' \in [Slots -> Processes]
  BY <1>1, <1>4, <1>5
<1>7. /\ Alive' = Alive \ {s} /\ Used' = Used /\ s \in Used /\ Alive \in SUBSET Used /\ Used \in SUBSET Slots
  <2>1. proc[s].state \in {"user", "doomed"} /\ proc'[s].state = "zombie"
    BY <1>1, <1>4, <1>5 DEF Alive
  <2> QED
    BY <1>5, <2>1 DEF Alive, Used
<1>8. \A q \in Slots : proc'[q].dir = proc[q].dir /\ proc'[q].pid = proc[q].pid
  BY <1>4, <1>5
<1>9. FreeDirs' = FreeDirs
  BY <1>8 DEF FreeDirs
<1>10. /\ DOMAIN swap' = DOMAIN swap \ {n} /\ swap' \in [DOMAIN swap' -> Files]
       /\ \A m \in DOMAIN swap : m # n => swap'[m] = swap[m]
  BY <1>1, <1>2 DEF Cut, TypeOK
<1>11. \A q \in Used : q # s => proc[q].pid # n
  BY <1>2, <1>7 DEF IdInv
<1>12. n \notin abandoned
  BY <1>2, <1>7 DEF IdInv
<1>13. TypeOK'
  BY <1>1, <1>2, <1>6, <1>10 DEF TypeOK
<1>14. IdInv'
  <2>1. \A q \in Slots : /\ proc'[q].state = "doomed" => proc'[q].at = 0
                         /\ proc'[q].state = "unused" => proc'[q].dir = 0
    BY <1>2, <1>4, <1>5 DEF IdInv
  <2> QED
    BY <1>1, <1>2, <1>7, <1>8, <2>1 DEF IdInv
<1>15. SwapFilesOwned'
  <2>1. {proc'[q].pid : q \in Alive'} = {proc[q].pid : q \in Alive} \ {n}
    <3>1. \A q \in Alive \ {s} : proc'[q].pid = proc[q].pid /\ proc[q].pid # n
      BY <1>7, <1>8, <1>11
    <3> QED
      BY <1>7, <3>1
  <2> QED
    BY <1>1, <1>2, <1>10, <1>12, <2>1 DEF SwapFilesOwned
<1>16. TablesInv'
  <2> SUFFICES ASSUME ~panicked, "misread" \notin blame
               PROVE  /\ \A d \in FreeDirs : pt[d] = Clear
                      /\ \A q \in Alive' : Tables(proc'[q], pt, {proc'[q].dir}) /\ Sized(proc'[q], pt)
    BY <1>1, <1>9 DEF TablesInv
  <2>1. /\ \A d \in FreeDirs : pt[d] = Clear
        /\ \A q \in Alive : Tables(proc[q], pt, {proc[q].dir}) /\ Sized(proc[q], pt)
    BY <1>2 DEF TablesInv
  <2>2. ASSUME NEW q \in Alive' PROVE Tables(proc'[q], pt, {proc'[q].dir}) /\ Sized(proc'[q], pt)
    <3>1. q \in Alive /\ q # s /\ q \in Slots
      BY <1>7
    <3>2. Tables(proc'[q], pt, {proc[q].dir})
      BY <1>5, <2>1, <3>1, TablesOnly
    <3> QED
      BY <1>5, <2>1, <3>1, <3>2 DEF Sized
  <2> QED
    BY <2>1, <2>2
<1>17. OrderInv'
  <2>1. \A q \in Alive' : Ordered(proc[q]) => Ordered(proc'[q])
    BY <1>5, <1>7 DEF Ordered
  <2> QED
    BY <1>1, <1>2, <1>7, <2>1 DEF OrderInv
<1>18. BytesInv'
  <2> SUFFICES ASSUME ~panicked, blame = {}, NEW q \in Alive'
               PROVE  /\ Held(proc'[q], pt, ram) /\ Saved(proc'[q], swap'[proc'[q].pid])
                      /\ buffer.owner = proc'[q].pid /\ buffer.va + 1 = proc'[q].at => buffer.right
    BY <1>1 DEF BytesInv
  <2>1. q \in Alive /\ q # s /\ q \in Slots /\ q \in Used
    BY <1>7
  <2>2. /\ Held(proc[q], pt, ram) /\ Saved(proc[q], swap[proc[q].pid])
        /\ buffer.owner = proc[q].pid /\ buffer.va + 1 = proc[q].at => buffer.right
    BY <1>2, <2>1 DEF BytesInv
  <2>3. swap'[proc[q].pid] = swap[proc[q].pid]
    <3>1. proc[q].pid \in DOMAIN swap
      BY <1>2, <2>1 DEF SwapFilesOwned
    <3> QED
      BY <1>10, <1>11, <2>1, <3>1
  <2>4. Held(proc'[q], pt, ram)
    BY <1>5, <2>1, <2>2 DEF Held
  <2>5. Saved(proc'[q], swap'[proc[q].pid])
    BY <1>5, <2>1, <2>2, <2>3 DEF Saved
  <2> QED
    BY <1>5, <2>1, <2>2, <2>4, <2>5
<1> QED
  BY <1>13, <1>14, <1>15, <1>16, <1>17, <1>18 DEF IInv

\* The slot and the directory of zombie q are free again, and every other
\* process is as it was, or at least the same process.
Reaped(q) ==
    /\ proc' \in [Slots -> Processes] /\ proc'[q] = Unused
    /\ \A r \in Slots : r # q =>
         /\ proc'[r].state = proc[r].state /\ proc'[r].pid = proc[r].pid
         /\ proc'[r].dir = proc[r].dir /\ proc'[r].sz = proc[r].sz /\ proc'[r].at = proc[r].at
         /\ "misread" \notin blame => proc'[r] = proc[r]
    /\ pt' \in [Dirs -> PTEs] /\ ram' \in [Dirs -> [Pages -> BOOLEAN]]
    /\ pt'[proc[q].dir] = Clear
    /\ \A c \in Dirs : c # proc[q].dir => pt'[c] = pt[c] /\ ram'[c] = ram[c]
    /\ panicked' = FALSE

(* A free slot of the process table is one of the type.                    *)
LEMMA UnusedIs == Unused \in Processes /\ Unused.state = "unused" /\ Unused.dir = 0
<1>1. [j \in DiscIx |-> Free(0)] \in Discs
  BY Fields, Numbers DEF Discs
<1>2. 0 \in 0 .. MaxPages /\ {} \in SUBSET Entries
  BY Numbers
<1> QED
  BY <1>1, <1>2 DEF Unused, Processes

(* wait leaves the parent's own tables alone, although freevm works on     *)
(* them.                                                                   *)
LEMMA WaitIs == ASSUME IInv, NEW q \in Slots, wait(q) PROVE Reaped(q)
<1> DEFINE s == proc[q].parent
           d == proc[q].dir
           none == [v \in Pages |-> FALSE]
           g == freevm(Of(s), d)
           gone == [proc EXCEPT ![q] = Unused]
<1>1. /\ proc[q].state = "zombie" /\ ~panicked
      /\ s = 0 => proc' = gone /\ pt' = [pt EXCEPT ![d] = Clear] /\ ram' = [ram EXCEPT ![d] = none] /\ UNCHANGED panicked
      /\ s # 0 => Runs(s) /\ Commit(s, g, gone)
  BY DEF wait
<1>2. TypeOK /\ IdInv
  BY DEF IInv
<1>3. /\ proc \in [Slots -> Processes] /\ proc[q] \in Processes /\ d \in Dirs
      /\ pt \in [Dirs -> PTEs] /\ ram \in [Dirs -> [Pages -> BOOLEAN]]
  BY <1>1, <1>2 DEF TypeOK, IdInv, Used
<1>4. Clear \in PTEs /\ none \in [Pages -> BOOLEAN]
  BY DEF Clear, PTEs
<1>5. gone \in [Slots -> Processes] /\ gone[q] = Unused /\ \A r \in Slots : r # q => gone[r] = proc[r]
  BY <1>3, UnusedIs
<1>6. CASE s = 0
  <2>1. proc' = gone /\ pt' = [pt EXCEPT ![d] = Clear] /\ ram' = [ram EXCEPT ![d] = none] /\ panicked' = FALSE
    BY <1>1, <1>2, <1>6 DEF TypeOK
  <2> HIDE DEF gone, none
  <2>2. /\ pt' \in [Dirs -> PTEs] /\ ram' \in [Dirs -> [Pages -> BOOLEAN]] /\ pt'[d] = Clear
        /\ \A c \in Dirs : c # d => pt'[c] = pt[c] /\ ram'[c] = ram[c]
    BY <1>3, <1>4, <2>1
  <2> QED
    BY <1>5, <2>1, <2>2 DEF Reaped
<1>7. CASE s # 0
  <2>1. Runs(s) /\ proc' = [gone EXCEPT ![s] = g.p] /\ pt' = g.pt /\ ram' = g.ram /\ panicked' = g.panic
    BY <1>1, <1>7 DEF Commit
  <2>2. s \in Slots /\ s \in Alive /\ s # q
    BY <1>1, <1>3, <1>7, <2>1 DEF Processes, Runs, Alive
  <2>3. /\ Of(s) \in Calls /\ ~Of(s).panic /\ Of(s).p = proc[s] /\ Of(s).pt = pt /\ Of(s).ram = ram
        /\ "misread" \notin blame => Tables(proc[s], pt, {proc[s].dir})
        /\ proc[s].dir \in Dirs
    BY <1>1, <2>2, OfIs
  <2>4. /\ g \in Calls /\ Same(Of(s), g) /\ g.panic = Of(s).panic /\ g.pt[d] = Clear
        /\ \A c \in Dirs : c # d => g.pt[c] = pt[c] /\ g.ram[c] = ram[c]
    BY <1>3, <2>3, FreedIs
  <2>5. "misread" \notin blame => g.p = proc[s]
    <3>1. d # proc[s].dir
      BY <1>1, <1>2, <2>2 DEF IdInv, Used, Alive
    <3>2. {proc[s].dir} \in SUBSET Dirs /\ d \notin {proc[s].dir}
      BY <2>3, <3>1
    <3> SUFFICES ASSUME "misread" \notin blame PROVE g.p = Of(s).p
      BY <2>3
    <3>3. Of(s) \in Calls /\ Tables(Of(s).p, Of(s).pt, {proc[s].dir})
      BY <2>3
    <3> QED
      BY <1>3, <3>2, <3>3, FreedTables
  <2> HIDE DEF g, gone
  <2>6. g.p \in Processes /\ g.pt \in [Dirs -> PTEs] /\ g.ram \in [Dirs -> [Pages -> BOOLEAN]] /\ g.panic = FALSE
    BY <2>3, <2>4 DEF Calls
  <2>7. proc' \in [Slots -> Processes] /\ proc'[s] = g.p /\ \A r \in Slots : r # s => proc'[r] = gone[r]
    BY <1>5, <2>1, <2>2, <2>6
  <2>8. \A r \in Slots : r # q =>
         /\ proc'[r].state = proc[r].state /\ proc'[r].pid = proc[r].pid
         /\ proc'[r].dir = proc[r].dir /\ proc'[r].sz = proc[r].sz /\ proc'[r].at = proc[r].at
         /\ "misread" \notin blame => proc'[r] = proc[r]
    <3>1. g.p.state = proc[s].state /\ g.p.pid = proc[s].pid /\ g.p.dir = proc[s].dir /\ g.p.sz = proc[s].sz /\ g.p.at = proc[s].at
      BY <2>3, <2>4 DEF Same
    <3> QED
      BY <1>5, <2>5, <2>7, <3>1
  <2>9. proc'[q] = Unused
    BY <1>5, <2>2, <2>7
  <2> QED
    BY <2>1, <2>4, <2>6, <2>7, <2>8, <2>9 DEF Reaped
<1> QED
  BY <1>6, <1>7

(* wait.                                                                   *)
LEMMA WaitInv == ASSUME IInv, NEW q \in Slots, wait(q) PROVE IInv'
<1>1. Reaped(q) /\ UNCHANGED <<swap, buffer, nextpid, calls, abandoned, blame>> /\ proc[q].state = "zombie" /\ ~panicked
  BY WaitIs DEF wait
<1>2. TypeOK /\ IdInv /\ SwapFilesOwned /\ TablesInv /\ OrderInv /\ BytesInv
  BY DEF IInv
<1> DEFINE d == proc[q].dir
<1>3. /\ proc' \in [Slots -> Processes] /\ proc'[q] = Unused /\ proc'[q].state = "unused" /\ proc'[q].dir = 0
      /\ \A r \in Slots : r # q =>
         /\ proc'[r].state = proc[r].state /\ proc'[r].pid = proc[r].pid
         /\ proc'[r].dir = proc[r].dir /\ proc'[r].sz = proc[r].sz /\ proc'[r].at = proc[r].at
         /\ "misread" \notin blame => proc'[r] = proc[r]
      /\ pt' \in [Dirs -> PTEs] /\ ram' \in [Dirs -> [Pages -> BOOLEAN]]
      /\ pt'[d] = Clear
      /\ \A c \in Dirs : c # d => pt'[c] = pt[c] /\ ram'[c] = ram[c]
      /\ panicked' = FALSE
  BY <1>1, UnusedIs DEF Reaped
<1>4. /\ Alive' = Alive /\ Used' = Used \ {q} /\ q \in Used /\ q \notin Alive
      /\ Alive \in SUBSET (Used \ {q}) /\ Used \in SUBSET Slots
  BY <1>1, <1>3 DEF Alive, Used
<1>5. \A r \in Used \ {q} : proc[r].dir \in Dirs /\ proc[r].dir # d
  BY <1>2, <1>4 DEF IdInv
<1>6. TypeOK'
  BY <1>1, <1>2, <1>3 DEF TypeOK
<1>7. IdInv'
  <2>1. \A r \in Slots : /\ proc'[r].state = "doomed" => proc'[r].at = 0
                         /\ proc'[r].state = "unused" => proc'[r].dir = 0
    BY <1>2, <1>3 DEF IdInv
  <2> QED
    BY <1>1, <1>2, <1>3, <1>4, <2>1 DEF IdInv
<1>8. SwapFilesOwned'
  <2>1. \A r \in Alive : proc'[r].pid = proc[r].pid
    BY <1>3, <1>4
  <2> QED
    BY <1>1, <1>2, <1>4, <2>1 DEF SwapFilesOwned
<1>9. TablesInv'
  <2> SUFFICES ASSUME "misread" \notin blame
               PROVE  /\ \A c \in FreeDirs' : pt'[c] = Clear
                      /\ \A r \in Alive : Tables(proc'[r], pt', {proc'[r].dir}) /\ Sized(proc'[r], pt')
    BY <1>1, <1>4 DEF TablesInv
  <2>1. /\ \A c \in FreeDirs : pt[c] = Clear
        /\ \A r \in Alive : Tables(proc[r], pt, {proc[r].dir}) /\ Sized(proc[r], pt)
    BY <1>1, <1>2 DEF TablesInv
  <2>2. \A c \in FreeDirs' : c \in Dirs /\ (c = d \/ c \in FreeDirs)
    <3> SUFFICES ASSUME NEW c \in FreeDirs' PROVE c \in Dirs /\ (c = d \/ c \in FreeDirs)
      OBVIOUS
    <3>1. c \in Dirs /\ \A r \in Slots : c # proc'[r].dir
      BY DEF FreeDirs
    <3>2. \A r \in Slots : r # q => c # proc[r].dir
      BY <1>3, <3>1
    <3> QED
      BY <3>1, <3>2 DEF FreeDirs
  <2>3. \A c \in FreeDirs' : pt'[c] = Clear
    BY <1>3, <2>1, <2>2
  <2>4. ASSUME NEW r \in Alive PROVE Tables(proc'[r], pt', {proc'[r].dir}) /\ Sized(proc'[r], pt')
    <3>1. proc'[r] = proc[r] /\ proc[r].dir \in Dirs /\ proc[r].dir # d
      BY <1>3, <1>4, <1>5
    <3>2. pt'[proc[r].dir] = pt[proc[r].dir]
      BY <1>3, <3>1
    <3>3. Tables(proc[r], pt', {proc[r].dir}) /\ Sized(proc[r], pt')
      BY <2>1, <3>2 DEF Tables, Sized
    <3> QED
      BY <3>1, <3>3
  <2> QED
    BY <2>3, <2>4
<1>10. OrderInv'
  <2>1. "exec" \notin blame => \A r \in Alive : proc'[r] = proc[r] /\ Ordered(proc[r])
    BY <1>1, <1>2, <1>3, <1>4 DEF OrderInv
  <2> QED
    BY <1>1, <1>2, <1>4, <2>1 DEF OrderInv
<1>11. BytesInv'
  <2> SUFFICES ASSUME blame = {}, NEW r \in Alive
               PROVE  /\ Held(proc'[r], pt', ram') /\ Saved(proc'[r], swap[proc'[r].pid])
                      /\ buffer.owner = proc'[r].pid /\ buffer.va + 1 = proc'[r].at => buffer.right
    BY <1>1, <1>4 DEF BytesInv
  <2>1. proc'[r] = proc[r] /\ proc[r].dir \in Dirs /\ proc[r].dir # d
    BY <1>3, <1>4, <1>5
  <2>2. /\ Held(proc[r], pt, ram) /\ Saved(proc[r], swap[proc[r].pid])
        /\ buffer.owner = proc[r].pid /\ buffer.va + 1 = proc[r].at => buffer.right
    BY <1>1, <1>2 DEF BytesInv
  <2>3. pt'[proc[r].dir] = pt[proc[r].dir] /\ ram'[proc[r].dir] = ram[proc[r].dir]
    BY <1>3, <2>1
  <2>4. Held(proc[r], pt', ram')
    BY <2>2, <2>3 DEF Held
  <2> QED
    BY <2>1, <2>2, <2>4
<1> QED
  BY <1>6, <1>7, <1>8, <1>9, <1>10, <1>11 DEF IInv

(* The copy of a table entry is about the same page of the new directory.  *)
LEMMA CopiedIs ==
    ASSUME NEW d \in Dirs
    PROVE  /\ \A t \in Entries : Copied(t, d) \in Entries /\ Copied(t, d).isUsed /\ Copied(t, d).dir = d /\ Copied(t, d).va = t.va
           /\ \A t \in Frees : Copied(t, d) = t
<1>1. ASSUME NEW t \in Entries PROVE Copied(t, d) = Entry(d, t.va) /\ t.va \in Pages
  <2>1. t.isUsed /\ t.va \in Pages /\ t = Entry(t.dir, t.va)
    BY Fields
  <2> DEFINE yes == TRUE
  <2>2. t = [isUsed |-> yes, dir |-> t.dir, va |-> t.va] /\ Entry(d, t.va) = [isUsed |-> yes, dir |-> d, va |-> t.va]
    BY <2>1 DEF Entry
  <2> HIDE DEF yes
  <2>3. \A a, w : [[isUsed |-> yes, dir |-> a, va |-> w] EXCEPT !.dir = d] = [isUsed |-> yes, dir |-> d, va |-> w]
    OBVIOUS
  <2>4. [t EXCEPT !.dir = d] = Entry(d, t.va)
    BY <2>2, <2>3
  <2> QED
    BY <2>1, <2>4 DEF Copied
<1>2. \A t \in Frees : Copied(t, d) = t
  BY Fields DEF Copied
<1> QED
  BY <1>1, <1>2, Fields

\* The child that fork makes of p.
Child(p, n, s, d) == [p EXCEPT !.pid = n, !.parent = s, !.dir = d,
                               !.phys = {Copied(t, d) : t \in @},
                               !.disc = [j \in DiscIx |-> Copied(@[j], d)]]

(* The child's tables are the parent's, about the child's directory.       *)
LEMMA ChildIs ==
    ASSUME NEW p \in Processes, NEW n \in Nat, NEW s \in Slots, NEW d \in Dirs
    PROVE  LET c == Child(p, n, s, d) IN
           /\ c \in Processes /\ c.state = p.state /\ c.pid = n /\ c.dir = d /\ c.sz = p.sz /\ c.at = p.at
           /\ \A u \in c.phys : \E t \in p.phys : u.dir = d /\ u.va = t.va
           /\ \A j \in DiscIx : /\ c.disc[j].isUsed <=> p.disc[j].isUsed
                                /\ c.disc[j].va = p.disc[j].va
                                /\ c.disc[j].isUsed => c.disc[j].dir = d
<1> DEFINE c == Child(p, n, s, d)
           ph == {Copied(t, d) : t \in p.phys}
           di == [j \in DiscIx |-> Copied(p.disc[j], d)]
<1>1. p.phys \in SUBSET Entries /\ p.disc \in Discs
  BY DEF Processes
<1>2. \A j \in DiscIx : p.disc[j] \in Entries \/ p.disc[j] \in Frees
  BY <1>1 DEF Discs
<1>3. ph \in SUBSET Entries /\ di \in Discs
  <2>1. ph \in SUBSET Entries
    BY <1>1, CopiedIs
  <2>2. \A j \in DiscIx : Copied(p.disc[j], d) \in Entries \cup Frees
    BY <1>2, CopiedIs
  <2> QED
    BY <2>1, <2>2 DEF Discs
<1>4. c = [p EXCEPT !.pid = n, !.parent = s, !.dir = d, !.phys = ph, !.disc = di]
  BY DEF Child
<1>5. \A u \in ph : \E t \in p.phys : u.dir = d /\ u.va = t.va
  BY <1>1, CopiedIs
<1>6. ASSUME NEW j \in DiscIx
      PROVE  /\ di[j].isUsed <=> p.disc[j].isUsed
             /\ di[j].va = p.disc[j].va
             /\ di[j].isUsed => di[j].dir = d
  <2>1. di[j] = Copied(p.disc[j], d)
    OBVIOUS
  <2> HIDE DEF di
  <2>2. CASE p.disc[j] \in Entries
    BY <2>1, <2>2, CopiedIs, Fields
  <2>3. CASE p.disc[j] \in Frees
    BY <2>1, <2>3, CopiedIs, Fields
  <2> QED
    BY <1>2, <2>2, <2>3
<1> HIDE DEF c, ph, di
<1>7. /\ c \in Processes /\ c.state = p.state /\ c.pid = n /\ c.dir = d /\ c.sz = p.sz /\ c.at = p.at
      /\ c.phys = ph /\ c.disc = di
  BY <1>3, <1>4 DEF Processes
<1> QED
  BY <1>5, <1>6, <1>7 DEF c

(* copySwapFile gives the child a file.                                    *)
LEMMA CopiedFileIs == ASSUME IInv, ~panicked, NEW s \in Alive PROVE CopiedFile(s) \in Files
<1> DEFINE k == Cardinality(DiscIx \ FreeDisc(Of(s)))
           g == swap[proc[s].pid]
<1>1. g \in Files /\ Len(g) \in Nat
  BY SameFile DEF Files
<1>2. k \in Nat
  <2>1. IsFiniteSet(DiscIx)
    BY FS_Interval, PagesAssumption DEF DiscIx
  <2>2. IsFiniteSet(DiscIx \ FreeDisc(Of(s)))
    BY <2>1, FS_Subset
  <2> QED
    BY <2>2, FS_CardinalityType
<1> HIDE DEF k
<1>3. Min({k, Len(g)}) \in Nat /\ Min({k, Len(g)}) <= Len(g)
  BY <1>1, <1>2, MinIs
<1> DEFINE m == Min({k, Len(g)})
<1>4. CopiedFile(s) = SubSeq(g, 1, m)
  BY DEF CopiedFile, k
<1> HIDE DEF g, m
<1>5. SubSeq(g, 1, m) \in Files
  <2>1. m \in Nat /\ m <= Len(g)
    BY <1>3 DEF m
  <2>2. CASE m = 0
    BY <1>1, <2>1, <2>2 DEF Files
  <2>3. CASE m # 0
    <3>1. 1 \in 1 .. Len(g) /\ m \in 1 .. Len(g)
      BY <1>1, <2>1, <2>3
    <3> QED
      BY <1>1, <3>1, SubSeqProperties DEF Files
  <2> QED
    BY <2>2, <2>3
<1> QED
  BY <1>4, <1>5

(* The tables of the child agree with its copy of the page table.          *)
LEMMA ChildTables ==
    ASSUME NEW p \in Processes, NEW n \in Nat, NEW s \in Slots, NEW d \in Dirs, NEW tab, NEW new,
           new[d] = tab[p.dir], Tables(p, tab, {p.dir})
    PROVE  LET c == Child(p, n, s, d) IN
           /\ Tables(c, new, {d})
           /\ Sized(p, tab) => Sized(c, new)
           /\ Ordered(p) => Ordered(c)
<1> DEFINE c == Child(p, n, s, d)
<1>1. /\ c.dir = d /\ c.sz = p.sz
      /\ \A u \in c.phys : \E t \in p.phys : u.dir = d /\ u.va = t.va
      /\ \A j \in DiscIx : /\ c.disc[j].isUsed <=> p.disc[j].isUsed
                           /\ c.disc[j].va = p.disc[j].va
                           /\ c.disc[j].isUsed => c.disc[j].dir = d
  BY ChildIs
<1> HIDE DEF c
<1>2. /\ \A t \in p.phys : t.dir = p.dir /\ tab[p.dir][t.va] = "P"
      /\ \A j \in DiscIx : p.disc[j].isUsed => p.disc[j].dir = p.dir /\ tab[p.dir][p.disc[j].va] = "PG"
      /\ \A v \in Pages : tab[p.dir][v] = "PG" => \E j \in DiscIx : p.disc[j].isUsed /\ p.disc[j].va = v
      /\ \A i, j \in DiscIx : p.disc[i].isUsed /\ p.disc[j].isUsed /\ p.disc[i].va = p.disc[j].va => i = j
  BY DEF Tables
<1>3. \A u \in c.phys : u.dir \in {d} /\ new[u.dir][u.va] = "P"
  <2> SUFFICES ASSUME NEW u \in c.phys PROVE u.dir = d /\ new[d][u.va] = "P"
    BY <1>1
  <2>1. PICK t \in p.phys : u.dir = d /\ u.va = t.va
    BY <1>1
  <2> QED
    BY <1>2, <2>1
<1>4. \A j \in DiscIx : c.disc[j].isUsed => c.disc[j].dir \in {d} /\ new[c.disc[j].dir][c.disc[j].va] = "PG"
  BY <1>1, <1>2
<1>5. \A b \in {d}, v \in Pages : new[b][v] = "PG" =>
        \E j \in DiscIx : c.disc[j].isUsed /\ c.disc[j].dir = b /\ c.disc[j].va = v
  BY <1>1, <1>2
<1>6. \A i, j \in DiscIx : c.disc[i].isUsed /\ c.disc[j].isUsed /\ c.disc[i].dir = c.disc[j].dir
                              /\ c.disc[i].va = c.disc[j].va => i = j
  BY <1>1, <1>2
<1>7. Tables(c, new, {d})
  BY <1>3, <1>4, <1>5, <1>6 DEF Tables
<1>8. Sized(p, tab) => Sized(c, new)
  BY <1>1 DEF Sized
<1>9. Ordered(p) => Ordered(c)
  BY <1>1, <1>2 DEF Ordered
<1> QED
  BY <1>7, <1>8, <1>9 DEF c

(* fork.                                                                   *)
LEMMA ForkInv == ASSUME IInv, NEW s \in Slots, fork(s) PROVE IInv'
<1> DEFINE q == Min({r \in Slots : proc[r].state = "unused"})
           d == NewDir
           c == Child(proc[s], nextpid, s, d)
           b == proc[s].dir
<1>1. /\ Runs(s) /\ (\E r \in Slots : proc[r].state = "unused")
      /\ proc' = [proc EXCEPT ![q] = c]
      /\ pt' = [pt EXCEPT ![d] = pt[b]] /\ ram' = [ram EXCEPT ![d] = ram[b]]
      /\ swap' = With(swap, nextpid, CopiedFile(s))
      /\ blame' = (IF FreeDisc(Of(s)) = DiscIx THEN blame ELSE blame \cup {"fork"})
      /\ nextpid' = nextpid + 1 /\ UNCHANGED <<buffer, calls, panicked, abandoned>>
  BY DEF fork, Child
<1>2. proc[s].state = "user" /\ proc[s].at = 0 /\ ~panicked /\ s \in Alive
  BY <1>1 DEF Runs, Alive
<1>3. TypeOK /\ IdInv /\ SwapFilesOwned /\ TablesInv /\ OrderInv /\ BytesInv
  BY DEF IInv
<1>4. q \in Slots /\ proc[q].state = "unused" /\ proc[q].dir = 0
  <2>1. {r \in Slots : proc[r].state = "unused"} \in SUBSET Nat
    BY SlotsAssumption
  <2>2. {r \in Slots : proc[r].state = "unused"} # {}
    BY <1>1
  <2>3. q \in {r \in Slots : proc[r].state = "unused"}
    BY <2>1, <2>2, MinIs
  <2> HIDE DEF q
  <2> QED
    BY <1>3, <2>3 DEF IdInv
<1>5. d \in FreeDirs /\ d \in Dirs /\ \A r \in Slots : proc[r].dir # d
  BY <1>3, NewDirFree
<1> HIDE DEF q, d
<1>6. /\ proc \in [Slots -> Processes] /\ proc[s] \in Processes /\ b \in Dirs /\ nextpid \in Nat \ {0}
      /\ pt \in [Dirs -> PTEs] /\ ram \in [Dirs -> [Pages -> BOOLEAN]] /\ abandoned \in SUBSET Nat
  BY <1>2, <1>3, OfIs DEF TypeOK
<1>7. c \in Processes /\ c.state = "user" /\ c.pid = nextpid /\ c.dir = d /\ c.sz = proc[s].sz /\ c.at = 0
  BY <1>2, <1>5, <1>6, ChildIs
<1>8. \A j \in DiscIx : c.disc[j].isUsed <=> proc[s].disc[j].isUsed
  BY <1>5, <1>6, ChildIs
<1> HIDE DEF c
<1>9. proc' \in [Slots -> Processes] /\ proc'[q] = c /\ \A r \in Slots : r # q => proc'[r] = proc[r]
  BY <1>1, <1>4, <1>6, <1>7
<1>10. /\ pt' \in [Dirs -> PTEs] /\ ram' \in [Dirs -> [Pages -> BOOLEAN]]
       /\ pt'[d] = pt[b] /\ ram'[d] = ram[b]
       /\ \A a \in Dirs : a # d => pt'[a] = pt[a] /\ ram'[a] = ram[a]
  BY <1>1, <1>5, <1>6
<1>11. /\ Alive' = Alive \cup {q} /\ Used' = Used \cup {q} /\ q \notin Used /\ q \notin Alive
       /\ Alive \in SUBSET Used /\ Used \in SUBSET Slots
  BY <1>4, <1>7, <1>9 DEF Alive, Used
<1>12. \A r \in Used : proc[r].pid \in Nat /\ proc[r].pid < nextpid /\ proc[r].pid # nextpid
  BY <1>3, <1>6 DEF IdInv
<1>13. /\ DOMAIN swap' = DOMAIN swap \cup {nextpid} /\ swap' \in [DOMAIN swap' -> Files]
       /\ \A n \in DOMAIN swap : n # nextpid => swap'[n] = swap[n]
  <2>1. CopiedFile(s) \in Files
    BY <1>2, CopiedFileIs
  <2> QED
    BY <1>1, <1>3, <2>1 DEF With, TypeOK
<1>14. blame' \in SUBSET {"misread", "buffer", "fork", "exec"} /\ blame \in SUBSET blame'
       /\ ("misread" \in blame' <=> "misread" \in blame) /\ ("exec" \in blame' <=> "exec" \in blame)
  BY <1>1, <1>3 DEF TypeOK
<1>15. TypeOK'
  BY <1>1, <1>3, <1>6, <1>9, <1>10, <1>13, <1>14 DEF TypeOK
<1>16. IdInv'
  <2>1. \A r \in Used : /\ proc'[r] = proc[r] /\ proc[r].dir # d /\ proc[r].pid \in 1 .. nextpid' - 1
                        /\ proc[r].pid \notin abandoned
    BY <1>1, <1>3, <1>5, <1>6, <1>9, <1>11 DEF IdInv
  <2>2. nextpid \in 1 .. nextpid' - 1 /\ nextpid \notin abandoned /\ \A n \in abandoned' : n < nextpid'
    BY <1>1, <1>3, <1>6 DEF IdInv
  <2>3. \A r \in Used' : proc'[r].dir \in Dirs /\ proc'[r].pid \in 1 .. nextpid' - 1 /\ proc'[r].pid \notin abandoned'
    BY <1>1, <1>3, <1>5, <1>7, <1>9, <1>11, <2>1, <2>2 DEF IdInv
  <2>4. \A r, u \in Used' : r # u => proc'[r].dir # proc'[u].dir /\ proc'[r].pid # proc'[u].pid
    <3>1. \A r, u \in Used : r # u => proc'[r].dir # proc'[u].dir /\ proc'[r].pid # proc'[u].pid
      BY <1>3, <2>1 DEF IdInv
    <3>2. \A r \in Used : proc'[r].dir # proc'[q].dir /\ proc'[r].pid # proc'[q].pid
      BY <1>7, <1>9, <1>12, <2>1
    <3> QED
      BY <1>11, <3>1, <3>2
  <2>5. \A r \in Slots : /\ proc'[r].state = "doomed" => proc'[r].at = 0
                         /\ proc'[r].state = "unused" => proc'[r].dir = 0
    BY <1>3, <1>7, <1>9 DEF IdInv
  <2> QED
    BY <2>2, <2>3, <2>4, <2>5 DEF IdInv
<1>17. SwapFilesOwned'
  <2>1. \A r \in Alive : proc'[r].pid = proc[r].pid
    BY <1>9, <1>11
  <2>2. {proc'[r].pid : r \in Alive'} = {proc[r].pid : r \in Alive} \cup {nextpid}
    BY <1>7, <1>9, <1>11, <2>1
  <2> QED
    BY <1>1, <1>3, <1>13, <2>2 DEF SwapFilesOwned
<1>18. ASSUME NEW r \in Alive
       PROVE  /\ r \in Slots /\ r # q /\ proc'[r] = proc[r] /\ proc[r].dir \in Dirs
              /\ pt'[proc[r].dir] = pt[proc[r].dir] /\ ram'[proc[r].dir] = ram[proc[r].dir]
  BY <1>3, <1>5, <1>9, <1>10, <1>11 DEF IdInv
<1>19. "misread" \notin blame =>
         /\ Tables(proc[s], pt, {b}) /\ Sized(proc[s], pt)
         /\ Tables(c, pt', {d}) /\ Sized(c, pt') /\ (Ordered(proc[s]) => Ordered(c))
  <2>1. "misread" \notin blame => Tables(proc[s], pt, {b}) /\ Sized(proc[s], pt)
    BY <1>2, OfIs
  <2> QED
    BY <1>5, <1>6, <1>10, <2>1, ChildTables DEF c
<1>20. TablesInv'
  <2> SUFFICES ASSUME "misread" \notin blame
               PROVE  /\ \A a \in FreeDirs' : pt'[a] = Clear
                      /\ \A r \in Alive' : Tables(proc'[r], pt', {proc'[r].dir}) /\ Sized(proc'[r], pt')
    BY <1>14 DEF TablesInv
  <2>1. /\ \A a \in FreeDirs : pt[a] = Clear
        /\ \A r \in Alive : Tables(proc[r], pt, {proc[r].dir}) /\ Sized(proc[r], pt)
    BY <1>2, <1>3 DEF TablesInv
  <2>2. \A a \in FreeDirs' : a \in FreeDirs /\ a # d /\ a \in Dirs
    <3> SUFFICES ASSUME NEW a \in FreeDirs' PROVE a \in FreeDirs /\ a # d /\ a \in Dirs
      OBVIOUS
    <3>1. a \in Dirs /\ \A r \in Slots : a # proc'[r].dir
      BY DEF FreeDirs
    <3>2. a # d /\ \A r \in Slots : a # proc[r].dir
      BY <1>4, <1>7, <1>9, <3>1, Numbers
    <3> QED
      BY <3>1, <3>2 DEF FreeDirs
  <2>3. \A a \in FreeDirs' : pt'[a] = Clear
    BY <1>10, <2>1, <2>2
  <2>4. ASSUME NEW r \in Alive PROVE Tables(proc'[r], pt', {proc'[r].dir}) /\ Sized(proc'[r], pt')
    <3>1. proc'[r] = proc[r] /\ pt'[proc[r].dir] = pt[proc[r].dir]
      BY <1>18
    <3>2. Tables(proc[r], pt, {proc[r].dir}) /\ Sized(proc[r], pt)
      BY <2>1
    <3>3. Tables(proc[r], pt', {proc[r].dir}) /\ Sized(proc[r], pt')
      BY <3>1, <3>2 DEF Tables, Sized
    <3> QED
      BY <3>1, <3>3
  <2>5. Tables(proc'[q], pt', {proc'[q].dir}) /\ Sized(proc'[q], pt')
    BY <1>7, <1>9, <1>19
  <2> QED
    BY <1>11, <2>3, <2>4, <2>5
<1>21. OrderInv'
  <2>1. ASSUME "exec" \notin blame, NEW r \in Alive' PROVE Ordered(proc'[r])
    <3>1. "misread" \notin blame /\ \A u \in Alive : Ordered(proc[u])
      BY <1>2, <1>3, <2>1 DEF OrderInv
    <3>2. CASE r = q
      BY <1>2, <1>9, <1>19, <3>1, <3>2
    <3>3. CASE r # q
      BY <1>11, <1>18, <3>1, <3>3
    <3> QED
      BY <3>2, <3>3
  <2> QED
    BY <1>3, <1>14, <2>1 DEF OrderInv
<1>22. BytesInv'
  <2> SUFFICES ASSUME blame' = {}, NEW r \in Alive'
               PROVE  /\ Held(proc'[r], pt', ram') /\ Saved(proc'[r], swap'[proc'[r].pid])
                      /\ buffer.owner = proc'[r].pid /\ buffer.va + 1 = proc'[r].at => buffer.right
    BY <1>1 DEF BytesInv
  <2>1. blame = {} /\ FreeDisc(Of(s)) = DiscIx
    BY <1>1
  <2>2. \A u \in Alive : /\ Held(proc[u], pt, ram) /\ Saved(proc[u], swap[proc[u].pid])
                         /\ buffer.owner = proc[u].pid /\ buffer.va + 1 = proc[u].at => buffer.right
    BY <1>2, <1>3, <2>1 DEF BytesInv
  <2>3. CASE r = q
    <3>1. \A j \in DiscIx : ~proc[s].disc[j].isUsed
      BY <2>1 DEF FreeDisc, Of
    <3>2. Saved(c, swap'[nextpid])
      BY <1>8, <3>1 DEF Saved
    <3>3. \A v \in Pages : proc[s].at # v + 1
      BY <1>2, Numbers
    <3>4. Held(c, pt', ram')
      BY <1>2, <1>7, <1>10, <2>2, <3>3 DEF Held
    <3>5. buffer.va \in Nat
      BY <1>3, Numbers DEF TypeOK
    <3> QED
      BY <1>7, <1>9, <2>3, <3>2, <3>4, <3>5
  <2>4. CASE r # q
    <3>1. r \in Alive /\ proc'[r] = proc[r] /\ pt'[proc[r].dir] = pt[proc[r].dir] /\ ram'[proc[r].dir] = ram[proc[r].dir]
      BY <1>11, <1>18, <2>4
    <3>2. swap'[proc[r].pid] = swap[proc[r].pid]
      <4>1. proc[r].pid \in DOMAIN swap
        BY <1>3, <3>1 DEF SwapFilesOwned
      <4> QED
        BY <1>11, <1>12, <1>13, <3>1, <4>1
    <3>3. Held(proc[r], pt', ram')
      BY <2>2, <3>1 DEF Held
    <3> QED
      BY <2>2, <3>1, <3>2, <3>3
  <2> QED
    BY <2>3, <2>4
<1> QED
  BY <1>15, <1>16, <1>17, <1>20, <1>21, <1>22 DEF IInv

-----------------------------------------------------------------------------
(* exec                                                                    *)

\* While exec builds an image in d, the process of o with directory b has
\* come to z.
Image(o, z, b, d) ==
    /\ Tables(z.p, z.pt, {b, d})
    /\ \A c \in Dirs : c # b /\ c # d => z.pt[c] = o.pt[c] /\ z.ram[c] = o.ram[c]
    /\ \A w \in Pages : z.pt[b][w] = "none" <=> o.pt[b][w] = "none"
    /\ RightIn(o, b) => RightIn(z, b)
    /\ RightIn(z, d)
    /\ RightIn(o, b) /\ Saved(o.p, o.file) => Saved(z.p, z.file)
    /\ Ordered(o.p) => Ordered(z.p)
\* No slot before that of page 0 is free.
ZeroFirst(p) == \A i, j \in DiscIx : p.disc[j].isUsed /\ p.disc[j].va = 0 /\ i < j => p.disc[i].isUsed
\* No page of the new image is in a slot before that of page 0 of the old one.
ZeroBefore(p, d) == \A i, j \in DiscIx :
                      p.disc[i].isUsed /\ p.disc[i].dir = d /\ p.disc[j].isUsed /\ p.disc[j].dir = p.dir
                        /\ p.disc[j].va = 0 => j <= i

(* One page of the new image.                                              *)
LEMMA ImageStep ==
    ASSUME NEW o, NEW x \in Calls, x.ok, ~x.panic, NEW d \in Dirs, NEW v \in Pages, NEW t \in Victims(x),
           NEW b \in Dirs, x.p.dir = b, x.p.at = 0, Image(o, x, b, d), b # d, OwnDisc(x.p), x.pt[d][v] = "none"
    PROVE  LET y == AllocPage(x, d, v, t) IN y.ok /\ ~y.panic =>
           /\ Image(o, y, b, d) /\ Filled(x, y, t)
           /\ y.pt[d][v] # "none"
           /\ \A w \in Pages : w # v => (y.pt[d][w] = "none" <=> x.pt[d][w] = "none")
           /\ (\A e \in x.p.phys : e.dir = b) => OwnDisc(y.p)
<1> DEFINE y == AllocPage(x, d, v, t)
<1> SUFFICES ASSUME y.ok, ~y.panic
    PROVE  /\ Image(o, y, b, d) /\ Filled(x, y, t)
           /\ y.pt[d][v] # "none"
           /\ \A w \in Pages : w # v => (y.pt[d][w] = "none" <=> x.pt[d][w] = "none")
           /\ (\A e \in x.p.phys : e.dir = b) => OwnDisc(y.p)
  OBVIOUS
<1>1. Tables(x.p, x.pt, {b, d}) /\ {b, d} \in SUBSET Dirs /\ d \in {b, d} /\ x.p.dir \in {b, d} /\ x.p.dir \in Dirs
  BY DEF Image
<1>2. /\ Tables(y.p, y.pt, {b, d}) /\ Filled(x, y, t)
      /\ \A c \in Dirs \ {b, d} : y.pt[c] = x.pt[c] /\ y.ram[c] = x.ram[c]
      /\ y.pt[d][v] # "none"
      /\ \A c \in Dirs, w \in Pages : ~(c = d /\ w = v) => (y.pt[c][w] = "none" <=> x.pt[c][w] = "none")
      /\ \A c \in Dirs : RightIn(x, c) => RightIn(y, c)
      /\ OwnDisc(x.p) /\ Ordered(x.p) => Ordered(y.p)
      /\ OwnDisc(x.p) /\ x.p.at = 0 /\ RightIn(x, x.p.dir) /\ Saved(x.p, x.file) => Saved(y.p, y.file)
      /\ OwnDisc(x.p) /\ (t \in x.p.phys => t.dir = x.p.dir) => OwnDisc(y.p)
  BY <1>1, AllocTables
<1> HIDE DEF y
<1>3. Image(o, y, b, d)
  <2>1. \A c \in Dirs : c # b /\ c # d => y.pt[c] = o.pt[c] /\ y.ram[c] = o.ram[c]
    BY <1>2 DEF Image
  <2>2. \A w \in Pages : y.pt[b][w] = "none" <=> o.pt[b][w] = "none"
    BY <1>2 DEF Image
  <2>3. (RightIn(o, b) => RightIn(y, b)) /\ RightIn(y, d)
    BY <1>2 DEF Image
  <2>4. RightIn(o, b) /\ Saved(o.p, o.file) => Saved(y.p, y.file)
    BY <1>2 DEF Image
  <2>5. Ordered(o.p) => Ordered(y.p)
    BY <1>2 DEF Image
  <2> QED
    BY <1>2, <2>1, <2>2, <2>3, <2>4, <2>5 DEF Image
<1> QED
  BY <1>2, <1>3

(* The page the new image moves out has a slot after that of page 0.       *)
LEMMA ZeroIs ==
    ASSUME NEW x, NEW y, NEW t, Filled(x, y, t), NEW d, x.p.dir # d, y.p.dir = x.p.dir, OwnDisc(x.p)
    PROVE  /\ (\A j \in DiscIx : ~(x.p.disc[j].isUsed /\ x.p.disc[j].va = 0)) => ZeroFirst(y.p)
           /\ ZeroFirst(x.p) => ZeroBefore(y.p, d)
<1>1. CASE y.p.disc = x.p.disc
  BY <1>1 DEF ZeroFirst, ZeroBefore, OwnDisc
<1>2. CASE \E j \in DiscIx : /\ ~x.p.disc[j].isUsed /\ \A i \in DiscIx : i < j => x.p.disc[i].isUsed
                             /\ y.p.disc[j] = t
                             /\ \A i \in DiscIx : i # j => y.p.disc[i] = x.p.disc[i]
  <2>1. PICK k \in DiscIx : /\ ~x.p.disc[k].isUsed /\ \A i \in DiscIx : i < k => x.p.disc[i].isUsed
                            /\ y.p.disc[k] = t
                            /\ \A i \in DiscIx : i # k => y.p.disc[i] = x.p.disc[i]
    BY <1>2
  <2>2. ASSUME \A j \in DiscIx : ~(x.p.disc[j].isUsed /\ x.p.disc[j].va = 0) PROVE ZeroFirst(y.p)
    <3> SUFFICES ASSUME NEW i \in DiscIx, NEW j \in DiscIx, y.p.disc[j].isUsed, y.p.disc[j].va = 0, i < j
                 PROVE  y.p.disc[i].isUsed
      BY DEF ZeroFirst
    <3>1. j = k
      BY <2>1, <2>2
    <3>2. i # k /\ x.p.disc[i].isUsed
      BY <2>1, <3>1, Numbers
    <3> QED
      BY <2>1, <3>2
  <2>3. ASSUME ZeroFirst(x.p) PROVE ZeroBefore(y.p, d)
    <3> SUFFICES ASSUME NEW i \in DiscIx, NEW j \in DiscIx, y.p.disc[i].isUsed, y.p.disc[i].dir = d,
                        y.p.disc[j].isUsed, y.p.disc[j].dir = y.p.dir, y.p.disc[j].va = 0
                 PROVE  j <= i
      BY DEF ZeroBefore
    <3>1. i = k
      BY <2>1 DEF OwnDisc
    <3>2. j # k /\ x.p.disc[j].isUsed /\ x.p.disc[j].va = 0
      BY <2>1, <3>1
    <3>3. ~(k < j)
      BY <2>1, <2>3, <3>2 DEF ZeroFirst
    <3> QED
      BY <3>1, <3>3, Numbers
  <2> QED
    BY <2>2, <2>3
<1> QED
  BY <1>1, <1>2 DEF Filled

(* The two pages of the new image, as far as exec got with them.           *)
LEMMA ExecImage ==
    ASSUME IInv, NEW s \in Slots, Runs(s), NEW d, d = NewDir, NEW t \in Victims(Of(s)),
           NEW x, x = AllocPage(Of(s), d, 0, t), NEW u \in Victims(x),
           NEW y, y = IF x.ok /\ ~x.panic THEN AllocPage(x, d, 1, u) ELSE x
    PROVE  /\ y \in Calls /\ Same(Of(s), y)
           /\ ~y.panic /\ "misread" \notin blame =>
                /\ Image(Of(s), y, proc[s].dir, d) /\ ZeroBefore(y.p, d)
                /\ y.ok => \A w \in Pages : y.pt[d][w] # "none" <=> w < 2
<1> DEFINE o == Of(s)
           b == proc[s].dir
<1>1. /\ proc[s].state = "user" /\ proc[s].at = 0 /\ ~panicked /\ s \in Alive /\ pt[b][0] = "P"
  BY DEF Runs, Alive
<1>2. /\ o \in Calls /\ o.ok /\ ~o.panic /\ o.p = proc[s] /\ o.pt = pt /\ o.ram = ram /\ o.file = swap[proc[s].pid]
      /\ b \in Dirs /\ o.p.dir = b /\ o.p.at = 0
  BY <1>1, OfIs
<1>3. d \in FreeDirs /\ d \in Dirs /\ d # b
  BY NewDirFree DEF IInv
<1>4. 0 \in Pages /\ 1 \in Pages
  BY Numbers
<1>5. x \in Calls /\ Same(o, x) /\ (~x.ok => Kept(o, x) /\ ~x.panic)
  BY <1>2, <1>3, <1>4, AllocIs
<1> HIDE DEF o, b
<1>6. x.p.dir = b /\ x.p.at = 0
  BY <1>2, <1>5 DEF Same
<1>7. y \in Calls /\ Same(x, y) /\ (x.ok /\ ~x.panic /\ ~y.ok => Kept(x, y)) /\ (~(x.ok /\ ~x.panic) => y = x)
  <2>1. CASE x.ok /\ ~x.panic
    BY <1>2, <1>3, <1>4, <1>5, <1>6, <2>1, AllocIs
  <2>2. CASE ~(x.ok /\ ~x.panic)
    BY <1>5, <2>2 DEF Same
  <2> QED
    BY <2>1, <2>2
<1>8. Same(o, y) /\ y.p.dir = b
  BY <1>5, <1>6, <1>7 DEF Same
<1>9. ASSUME ~y.panic, "misread" \notin blame
      PROVE  /\ Image(o, y, b, d) /\ ZeroBefore(y.p, d)
             /\ y.ok => \A w \in Pages : y.pt[d][w] # "none" <=> w < 2
  <2>1. Tables(o.p, o.pt, {b}) /\ OwnDisc(o.p) /\ o.pt[d] = Clear
    BY <1>1, <1>2, <1>3, <1>9, OfIs DEF o, b
  <2>2. \A w \in Pages : o.pt[d][w] = "none"
    BY <2>1 DEF Clear
  <2>3. Image(o, o, b, d)
    <3>1. Tables(o.p, o.pt, {b, d})
      BY <2>1, <2>2 DEF Tables
    <3>2. RightIn(o, d)
      BY <2>2 DEF RightIn
    <3> QED
      BY <3>1, <3>2 DEF Image
  <2>4. /\ \A e \in o.p.phys : e.dir = b
        /\ \A j \in DiscIx : ~(o.p.disc[j].isUsed /\ o.p.disc[j].va = 0)
    <3>1. o.pt[b][0] = "P"
      BY <1>1, <1>2 DEF b
    <3> QED
      BY <2>1, <3>1 DEF Tables
  <2>5. CASE ~x.ok
    <3>1. y = x /\ Kept(o, y)
      BY <1>5, <1>7, <2>5
    <3>2. Image(o, y, b, d)
      <4>1. RightIn(y, b) <=> RightIn(o, b)
        BY <3>1 DEF Kept, RightIn
      <4>2. RightIn(y, d) <=> RightIn(o, d)
        BY <3>1 DEF Kept, RightIn
      <4> QED
        BY <2>3, <3>1, <4>1, <4>2 DEF Image, Kept
    <3>3. ZeroBefore(y.p, d)
      BY <1>2, <1>3, <2>1, <3>1 DEF Kept, ZeroBefore, OwnDisc
    <3> QED
      BY <2>5, <3>1, <3>2, <3>3
  <2>6. CASE x.ok
    <3>0. ~x.panic
      BY <1>7, <1>9
    <3>1. /\ Image(o, x, b, d) /\ Filled(o, x, t)
          /\ x.pt[d][0] # "none"
          /\ \A w \in Pages : w # 0 => (x.pt[d][w] = "none" <=> o.pt[d][w] = "none")
          /\ OwnDisc(x.p)
      <4>1. /\ o \in Calls /\ o.ok /\ ~o.panic /\ t \in Victims(o) /\ x = AllocPage(o, d, 0, t) /\ o.p.dir = b /\ o.p.at = 0
            /\ o.pt[d][0] = "none" /\ OwnDisc(o.p)
        BY <1>2, <1>4, <2>1, <2>2 DEF o
      <4> QED
        BY <1>2, <1>3, <1>4, <2>3, <2>4, <2>6, <3>0, <4>1, ImageStep
    <3>2. x.pt[d][1] = "none" /\ \A w \in Pages : w # 0 => x.pt[d][w] = "none"
      BY <1>4, <2>2, <3>1
    <3>3. ZeroFirst(x.p)
      BY <1>2, <1>3, <1>6, <2>1, <2>4, <3>1, ZeroIs
    <3>4. CASE ~y.ok
      <4>1. Kept(x, y)
        BY <1>7, <2>6, <3>0, <3>4
      <4>2. Image(o, y, b, d)
        <5>1. RightIn(y, b) <=> RightIn(x, b)
          BY <4>1 DEF Kept, RightIn
        <5>2. RightIn(y, d) <=> RightIn(x, d)
          BY <4>1 DEF Kept, RightIn
        <5> QED
          BY <3>1, <4>1, <5>1, <5>2 DEF Image, Kept
      <4>3. ZeroBefore(y.p, d)
        BY <1>3, <1>6, <3>1, <4>1 DEF Kept, ZeroBefore, OwnDisc
      <4> QED
        BY <3>4, <4>2, <4>3
    <3>5. CASE y.ok
      <4>1. y = AllocPage(x, d, 1, u)
        BY <2>6, <3>0
      <4>2. /\ Image(o, y, b, d) /\ Filled(x, y, u)
            /\ y.pt[d][1] # "none"
            /\ \A w \in Pages : w # 1 => (y.pt[d][w] = "none" <=> x.pt[d][w] = "none")
        <5>1. /\ x \in Calls /\ x.ok /\ ~x.panic /\ d \in Dirs /\ 1 \in Pages /\ b \in Dirs /\ x.p.dir = b /\ x.p.at = 0
              /\ Image(o, x, b, d) /\ b # d /\ OwnDisc(x.p) /\ x.pt[d][1] = "none"
              /\ u \in Victims(x)
          BY <1>2, <1>3, <1>4, <1>5, <1>6, <2>6, <3>0, <3>1, <3>2
        <5>2. AllocPage(x, d, 1, u).ok /\ ~AllocPage(x, d, 1, u).panic
          BY <1>9, <3>5, <4>1
        <5>3. LET z == AllocPage(x, d, 1, u) IN
              /\ Image(o, z, b, d) /\ Filled(x, z, u)
              /\ z.pt[d][1] # "none"
              /\ \A w \in Pages : w # 1 => (z.pt[d][w] = "none" <=> x.pt[d][w] = "none")
          BY ONLY <5>1, <5>2, ImageStep
        <5> QED
          BY <4>1, <5>3
      <4>3. ZeroBefore(y.p, d)
        BY <1>3, <1>6, <1>8, <3>1, <3>3, <4>2, ZeroIs
      <4>4. \A w \in Pages : y.pt[d][w] # "none" <=> w = 0 \/ w = 1
        BY <1>4, <3>1, <3>2, <4>2
      <4>5. \A w \in Pages : w = 0 \/ w = 1 <=> w < 2
        BY Numbers
      <4> QED
        BY <4>2, <4>3, <4>4, <4>5
    <3> QED
      BY <3>4, <3>5
  <2> QED
    BY <2>5, <2>6
<1> QED
  BY <1>7, <1>8, <1>9 DEF o, b

(* exec that fails frees the image again; its pages leave the slots in     *)
(* order, although the entries about them now say page 0.                  *)
LEMMA ExecFails ==
    ASSUME IInv, NEW s \in Slots, Runs(s), NEW d, d = NewDir, NEW y \in Calls, Same(Of(s), y),
           ~y.panic /\ "misread" \notin blame => Image(Of(s), y, proc[s].dir, d) /\ ZeroBefore(y.p, d),
           NEW f, f = IF y.panic THEN y ELSE freevm(y, d),
           Commit(s, f, proc), swap' = With(swap, proc[s].pid, y.file),
           UNCHANGED <<blame, buffer, nextpid, abandoned>>
    PROVE  IInv'
<1> DEFINE o == Of(s)
           b == proc[s].dir
           p == f.p
<1>1. /\ proc[s].state = "user" /\ proc[s].at = 0 /\ ~panicked /\ s \in Alive
  BY DEF Runs, Alive
<1>2. /\ o \in Calls /\ o.ok /\ ~o.panic /\ o.p = proc[s] /\ o.pt = pt /\ o.ram = ram /\ o.file = swap[proc[s].pid]
      /\ b \in Dirs /\ o.p.dir = b /\ o.p.at = 0 /\ proc[s] \in Processes
  BY <1>1, OfIs
<1>3. d \in FreeDirs /\ d \in Dirs /\ d # b
  BY NewDirFree DEF IInv
<1>4. ~y.panic =>
      /\ f \in Calls /\ Same(y, f) /\ f.file = y.file /\ ~f.panic
      /\ \A i \in DiscIx : f.p.disc[i] = IF y.p.disc[i].isUsed /\ y.p.disc[i].dir = d THEN Free(0) ELSE y.p.disc[i]
      /\ f.pt[d] = Clear /\ \A c \in Dirs : c # d => f.pt[c] = y.pt[c] /\ f.ram[c] = y.ram[c]
  BY <1>3, FreedIs
<1>5. y.panic => f = y
  OBVIOUS
<1>6. f \in Calls /\ Same(y, f) /\ f.panic = y.panic /\ f.file = y.file
  <2>1. CASE y.panic
    BY <1>5, <2>1 DEF Same
  <2>2. CASE ~y.panic
    BY <1>4, <2>2 DEF Calls
  <2> QED
    BY <2>1, <2>2
<1> HIDE DEF o, b
<1>7. /\ y.p.dir = b /\ p.dir = b /\ p.at = 0 /\ p.state = "user" /\ p.pid = proc[s].pid /\ p.sz = proc[s].sz
      /\ p \in Processes /\ f.pt \in [Dirs -> PTEs] /\ f.ram \in [Dirs -> [Pages -> BOOLEAN]] /\ f.panic \in BOOLEAN
      /\ y.file \in Files
  <2>1. Same(o, y)
    BY DEF o
  <2> QED
    BY <1>1, <1>2, <1>6, <2>1 DEF Same, Calls
<1>8. proc' = [proc EXCEPT ![s] = p] /\ pt' = f.pt /\ ram' = f.ram /\ panicked' = y.panic
  BY <1>6 DEF Commit
<1>9. "misread" \notin blame /\ ~y.panic =>
      /\ Image(o, y, b, d) /\ ZeroBefore(y.p, d)
      /\ Tables(p, f.pt, {b}) /\ (Saved(y.p, y.file) => Saved(p, y.file))
      /\ Sized(proc[s], pt) /\ pt[d] = Clear
  <2> SUFFICES ASSUME "misread" \notin blame, ~y.panic
               PROVE  /\ Image(o, y, b, d) /\ ZeroBefore(y.p, d)
                      /\ Tables(p, f.pt, {b}) /\ (Saved(y.p, y.file) => Saved(p, y.file))
                      /\ Sized(proc[s], pt) /\ pt[d] = Clear
    OBVIOUS
  <2>1. Image(o, y, b, d) /\ ZeroBefore(y.p, d)
    BY DEF o, b
  <2>2. Tables(y.p, y.pt, {b, d}) /\ {b, d} \in SUBSET Dirs /\ {b, d} \ {d} = {b}
    BY <1>2, <1>3, <2>1 DEF Image
  <2>3. Tables(p, f.pt, {b, d} \ {d}) /\ (Saved(y.p, y.file) => Saved(p, y.file))
    <3>1. y \in Calls /\ d \in Dirs /\ {b, d} \in SUBSET Dirs /\ Tables(y.p, y.pt, {b, d}) /\ y.p.dir # d
      BY <1>3, <1>7, <2>2
    <3>2. LET g == freevm(y, d) IN Tables(g.p, g.pt, {b, d} \ {d}) /\ (Saved(y.p, y.file) => Saved(g.p, g.file))
      BY ONLY <3>1, FreedTables
    <3>3. f = freevm(y, d)
      OBVIOUS
    <3> QED
      BY <1>6, <3>2, <3>3
  <2>4. Sized(proc[s], pt) /\ pt[d] = Clear
    BY <1>1, <1>3, OfIs
  <2> QED
    BY <2>1, <2>2, <2>3, <2>4
<1> HIDE DEF p
<1>10. Alone(s, p, y.file)
  <2>1. TypeOK /\ OrderInv
    BY DEF IInv
  <2>2. blame' \in SUBSET {"misread", "buffer", "fork", "exec"} /\ blame \in SUBSET blame'
    BY <2>1 DEF TypeOK
  <2>3. "misread" \in blame' => "exec" \in blame'
    BY <2>1 DEF OrderInv
  <2>4. buffer' \in [owner : Nat, va : Pages, right : BOOLEAN]
    BY <2>1 DEF TypeOK
  <2>5. pt' \in [Dirs -> PTEs] /\ ram' \in [Dirs -> [Pages -> BOOLEAN]] /\ panicked' \in BOOLEAN
    BY <1>6, <1>7, <1>8
  <2>6. nextpid' = nextpid /\ abandoned' = abandoned /\ swap' = With(swap, proc[s].pid, y.file)
    OBVIOUS
  <2> QED
    BY ONLY <1>1, <1>7, <1>8, <2>2, <2>3, <2>4, <2>5, <2>6 DEF Alone, b
<1>11. TablesAlone(s, p)
  <2> SUFFICES ASSUME ~y.panic, "misread" \notin blame
               PROVE  /\ Tables(p, pt', {b}) /\ Sized(p, pt') /\ p.dir = b
                      /\ \A c \in Dirs : c # b => pt'[c] = pt[c]
    BY <1>7, <1>8 DEF TablesAlone, b
  <2>1. Sized(p, pt')
    <3>1. \A w \in Pages : y.pt[b][w] = "none" <=> pt[b][w] = "none"
      BY <1>2, <1>9 DEF Image
    <3>2. pt'[b] = y.pt[b]
      BY <1>2, <1>3, <1>4, <1>8
    <3>3. Sized(proc[s], pt)
      BY <1>9
    <3> QED
      BY ONLY <1>7, <3>1, <3>2, <3>3 DEF Sized, b
  <2>2. \A c \in Dirs : c # b => pt'[c] = pt[c]
    <3> SUFFICES ASSUME NEW c \in Dirs, c # b PROVE pt'[c] = pt[c]
      OBVIOUS
    <3>1. CASE c = d
      BY <1>4, <1>8, <1>9, <3>1
    <3>2. CASE c # d
      <4>1. y.pt[c] = pt[c]
        BY <1>2, <1>9, <3>2 DEF Image
      <4> QED
        BY <1>4, <1>8, <3>2, <4>1
    <3> QED
      BY <3>1, <3>2
  <2> QED
    BY <1>7, <1>8, <1>9, <2>1, <2>2
<1>12. OrderAlone(p)
  <2> SUFFICES ASSUME ~y.panic, "exec" \notin blame PROVE Ordered(p)
    BY <1>8 DEF OrderAlone
  <2>1. "misread" \notin blame /\ Ordered(o.p)
    BY <1>1, <1>2, OfIs
  <2>2. Ordered(y.p) /\ ZeroBefore(y.p, d)
    BY <1>9, <2>1 DEF Image
  <2>3. \A i \in DiscIx : p.disc[i] = IF y.p.disc[i].isUsed /\ y.p.disc[i].dir = d THEN Free(0) ELSE y.p.disc[i]
    BY <1>4 DEF p
  <2>4. ~Free(0).isUsed /\ Free(0).va = 0
    BY Fields
  <2> SUFFICES ASSUME NEW i \in DiscIx, NEW j \in DiscIx, p.disc[j].isUsed, p.disc[j].dir = p.dir,
                      p.disc[i].va = p.disc[j].va
               PROVE  j <= i
    BY DEF Ordered
  <2>5. p.disc[j] = y.p.disc[j] /\ y.p.disc[j].isUsed /\ y.p.disc[j].dir = y.p.dir
    BY <1>7, <2>3, <2>4
  <2>6. CASE y.p.disc[i].isUsed /\ y.p.disc[i].dir = d
    <3>1. y.p.disc[j].va = 0
      BY <2>3, <2>4, <2>5, <2>6
    <3> QED
      BY <2>2, <2>5, <2>6, <3>1 DEF ZeroBefore
  <2>7. CASE ~(y.p.disc[i].isUsed /\ y.p.disc[i].dir = d)
    <3>1. y.p.disc[i].va = y.p.disc[j].va
      BY <2>3, <2>5, <2>7
    <3> QED
      BY <2>2, <2>5, <3>1 DEF Ordered
  <2> QED
    BY <2>6, <2>7
<1>13. BytesAlone(s, p, y.file)
  <2> SUFFICES ASSUME ~y.panic, blame = {}
               PROVE  /\ \A c \in Dirs \ FreeDirs : c # b => ram'[c] = ram[c]
                      /\ Held(p, pt', ram') /\ Saved(p, y.file)
                      /\ ~(buffer.va + 1 = p.at)
    BY <1>8 DEF BytesAlone, b
  <2>1. Saved(o.p, o.file) /\ RightIn(o, b) /\ "misread" \notin blame
    BY <1>1, <1>2, OfIs DEF o, b
  <2>2. RightIn(y, b) /\ Saved(y.p, y.file) /\ Saved(p, y.file)
    BY <1>9, <2>1 DEF Image
  <2>3. Held(p, pt', ram')
    <3>1. pt'[b] = y.pt[b] /\ ram'[b] = y.ram[b]
      BY <1>2, <1>3, <1>4, <1>8
    <3> QED
      BY <1>7, <2>2, <3>1 DEF Held, RightIn
  <2>4. buffer.va \in Nat
    BY Numbers DEF IInv, TypeOK
  <2>5. \A c \in Dirs \ FreeDirs : c # b => ram'[c] = ram[c]
    <3> SUFFICES ASSUME NEW c \in Dirs \ FreeDirs, c # b PROVE ram'[c] = ram[c]
      OBVIOUS
    <3>1. c # d
      BY <1>3
    <3>2. y.ram[c] = ram[c]
      BY <1>2, <1>9, <2>1, <3>1 DEF Image
    <3> QED
      BY <1>4, <1>8, <3>1, <3>2
  <2> QED
    BY <1>7, <2>2, <2>3, <2>4, <2>5
<1> QED
  BY <1>10, <1>11, <1>12, <1>13, AloneInv

(* exec that succeeds: the process has the new directory, the old one is   *)
(* freed, and the swap file is new.                                        *)
LEMMA ExecDone ==
    ASSUME IInv, NEW s \in Slots, Runs(s), NEW d, d = NewDir, NEW y \in Calls, Same(Of(s), y), ~y.panic,
           "misread" \notin blame => /\ Image(Of(s), y, proc[s].dir, d)
                                     /\ \A w \in Pages : y.pt[d][w] # "none" <=> w < 2,
           NEW n, n = freevm([y EXCEPT !.p.dir = d, !.p.sz = 2], proc[s].dir),
           Commit(s, n, proc), swap' = With(swap, proc[s].pid, <<>>),
           blame' = IF \E j \in DiscIx : n.p.disc[j].isUsed THEN blame \cup {"exec"} ELSE blame,
           UNCHANGED <<buffer, nextpid, abandoned>>
    PROVE  IInv'
<1> DEFINE o == Of(s)
           b == proc[s].dir
           m == [y EXCEPT !.p.dir = d, !.p.sz = 2]
           p == n.p
<1>1. /\ proc[s].state = "user" /\ proc[s].at = 0 /\ ~panicked /\ s \in Alive
  BY DEF Runs, Alive
<1>2. /\ o.p = proc[s] /\ o.pt = pt /\ o.ram = ram /\ b \in Dirs
  BY <1>1, OfIs
<1>3. d \in FreeDirs /\ d \in Dirs /\ d # b
  BY NewDirFree DEF IInv
<1>4. /\ m.p = [y.p EXCEPT !.dir = d, !.sz = 2] /\ m.pt = y.pt /\ m.ram = y.ram /\ m.file = y.file
      /\ m.ok = y.ok /\ m.panic = y.panic /\ m.moved = y.moved
  BY DEF Calls
<1>5. /\ m.p \in Processes /\ m.p.dir = d /\ m.p.sz = 2 /\ m.p.phys = y.p.phys /\ m.p.disc = y.p.disc
      /\ m.p.state = y.p.state /\ m.p.pid = y.p.pid /\ m.p.at = y.p.at
  <2>1. y.p \in Processes /\ 2 \in 0 .. MaxPages /\ d \in Dirs
    BY <1>3, PagesAssumption DEF Calls
  <2>2. m.p = [y.p EXCEPT !.dir = d, !.sz = 2]
    BY <1>4
  <2> HIDE DEF m
  <2> QED
    BY ONLY <2>1, <2>2 DEF Processes
<1>6. m \in Calls
  BY <1>4, <1>5 DEF Calls
<1> HIDE DEF m
<1>7. /\ n \in Calls /\ Same(m, n) /\ n.panic = m.panic
      /\ n.pt[b] = Clear /\ \A c \in Dirs : c # b => n.pt[c] = m.pt[c] /\ n.ram[c] = m.ram[c]
  <2>1. n = freevm(m, b)
    BY DEF m
  <2>2. m \in Calls /\ b \in Dirs
    BY <1>2, <1>6
  <2>3. LET g == freevm(m, b) IN
        /\ g \in Calls /\ Same(m, g) /\ g.panic = m.panic
        /\ g.pt[b] = Clear /\ \A c \in Dirs : c # b => g.pt[c] = m.pt[c] /\ g.ram[c] = m.ram[c]
    BY ONLY <2>2, FreedIs
  <2> QED
    BY <2>1, <2>3
<1>8. "misread" \notin blame => Tables(p, n.pt, {d})
  <2> SUFFICES ASSUME "misread" \notin blame PROVE Tables(p, n.pt, {d})
    OBVIOUS
  <2>1. n = freevm(m, b)
    BY DEF m
  <2>2. Tables(y.p, y.pt, {b, d})
    BY DEF Image
  <2>3. Tables(m.p, m.pt, {b, d})
    BY <1>4, <1>5, <2>2, TablesOnly
  <2>4. m \in Calls /\ b \in Dirs /\ {b, d} \in SUBSET Dirs /\ {b, d} \ {b} = {d}
    BY <1>2, <1>3, <1>6
  <2>5. LET g == freevm(m, b) IN Tables(g.p, g.pt, {b, d} \ {b})
    BY ONLY <2>3, <2>4, FreedTables
  <2> QED
    BY <2>1, <2>4, <2>5
<1>9. "misread" \notin blame =>
      /\ Image(o, y, b, d) /\ \A w \in Pages : y.pt[d][w] # "none" <=> w < 2
  OBVIOUS
<1> HIDE DEF o
<1>10. Same(o, y)
  BY DEF o
<1> HIDE DEF b
<1>11. /\ p.dir = d /\ p.at = 0 /\ p.state = "user" /\ p.pid = proc[s].pid /\ p.sz = 2
       /\ p \in Processes /\ n.pt \in [Dirs -> PTEs] /\ n.ram \in [Dirs -> [Pages -> BOOLEAN]] /\ ~n.panic
       /\ n.pt[d] = y.pt[d] /\ n.ram[d] = y.ram[d]
  BY <1>1, <1>2, <1>3, <1>4, <1>5, <1>7, <1>10 DEF Same, Calls
<1>12. proc' = [proc EXCEPT ![s] = p] /\ pt' = n.pt /\ ram' = n.ram /\ panicked' = FALSE
  <2>1. n.panic = FALSE
    BY <1>7, <1>11 DEF Calls
  <2> QED
    BY <2>1 DEF Commit
<1> HIDE DEF p
<1>13. Alone(s, p, <<>>)
  <2>1. TypeOK /\ OrderInv
    BY DEF IInv
  <2>2. blame' \in SUBSET {"misread", "buffer", "fork", "exec"} /\ blame \in SUBSET blame'
    BY <2>1 DEF TypeOK
  <2>3. "misread" \in blame' => "exec" \in blame'
    BY <2>1 DEF OrderInv
  <2>4. buffer' \in [owner : Nat, va : Pages, right : BOOLEAN]
    BY <2>1 DEF TypeOK
  <2>5. <<>> \in Files
    BY DEF Files
  <2>6. nextpid' = nextpid /\ abandoned' = abandoned /\ swap' = With(swap, proc[s].pid, <<>>)
    OBVIOUS
  <2> QED
    BY ONLY <1>1, <1>3, <1>11, <1>12, <2>2, <2>3, <2>4, <2>5, <2>6 DEF Alone
<1>14. TablesAlone(s, p)
  <2> SUFFICES ASSUME "misread" \notin blame'
               PROVE  /\ Tables(p, pt', {d}) /\ Sized(p, pt') /\ p.dir = d /\ pt'[b] = Clear
                      /\ \A c \in Dirs : c # b /\ c # d => pt'[c] = pt[c]
    BY <1>11 DEF TablesAlone, b
  <2>0. "misread" \notin blame
    OBVIOUS
  <2>1. Tables(p, pt', {d})
    BY <1>8, <1>12, <2>0
  <2>2. Sized(p, pt')
    BY <1>9, <1>11, <1>12, <2>0 DEF Sized
  <2>3. \A c \in Dirs : c # b /\ c # d => pt'[c] = pt[c]
    <3>1. \A c \in Dirs : c # b /\ c # d => y.pt[c] = pt[c]
      BY <1>2, <1>9, <2>0 DEF Image
    <3> QED
      BY <1>4, <1>7, <1>12, <3>1
  <2> QED
    BY <1>7, <1>11, <1>12, <2>1, <2>2, <2>3
<1>15. "exec" \notin blame' => \A j \in DiscIx : ~p.disc[j].isUsed
  BY DEF p
<1>16. OrderAlone(p)
  BY <1>15 DEF OrderAlone, Ordered
<1>17. BytesAlone(s, p, <<>>)
  <2> SUFFICES ASSUME blame' = {}
               PROVE  /\ \A c \in Dirs \ FreeDirs : c # b => ram'[c] = ram[c]
                      /\ Held(p, pt', ram') /\ Saved(p, <<>>)
                      /\ ~(buffer.va + 1 = p.at)
    BY DEF BytesAlone, b
  <2>1. "misread" \notin blame
    OBVIOUS
  <2>2. RightIn(y, d)
    BY <1>9, <2>1 DEF Image
  <2>3. Held(p, pt', ram')
    BY <1>11, <1>12, <2>2 DEF Held, RightIn
  <2>4. Saved(p, <<>>)
    BY <1>15 DEF Saved
  <2>5. buffer.va \in Nat
    BY Numbers DEF IInv, TypeOK
  <2>6. \A c \in Dirs \ FreeDirs : c # b => ram'[c] = ram[c]
    <3> SUFFICES ASSUME NEW c \in Dirs \ FreeDirs, c # b PROVE ram'[c] = ram[c]
      OBVIOUS
    <3>1. c # d
      BY <1>3
    <3>2. y.ram[c] = ram[c]
      BY <1>2, <1>9, <2>1, <3>1 DEF Image
    <3> QED
      BY <1>4, <1>7, <1>12, <3>1, <3>2
  <2> QED
    BY <1>11, <2>3, <2>4, <2>5, <2>6
<1> QED
  BY <1>13, <1>14, <1>16, <1>17, AloneInv

(* exec.                                                                   *)
LEMMA ExecInv == ASSUME IInv, NEW s \in Slots, exec(s) PROVE IInv'
<1> DEFINE d == NewDir
           X(t) == AllocPage(Of(s), d, 0, t)
           Y(t, u) == IF X(t).ok /\ ~X(t).panic THEN AllocPage(X(t), d, 1, u) ELSE X(t)
           N(t, u) == freevm([Y(t, u) EXCEPT !.p.dir = d, !.p.sz = 2], proc[s].dir)
<1>1. /\ Runs(s) /\ UNCHANGED <<buffer, nextpid, abandoned>>
      /\ \E bad \in BOOLEAN : \E t \in Victims(Of(s)) : \E u \in Victims(X(t)) :
           IF Y(t, u).panic \/ bad \/ ~Y(t, u).ok
           THEN /\ Commit(s, IF Y(t, u).panic THEN Y(t, u) ELSE freevm(Y(t, u), d), proc)
                /\ swap' = With(swap, proc[s].pid, Y(t, u).file) /\ UNCHANGED blame
           ELSE /\ Commit(s, N(t, u), proc)
                /\ swap' = With(swap, proc[s].pid, <<>>)
                /\ blame' = IF \E j \in DiscIx : N(t, u).p.disc[j].isUsed THEN blame \cup {"exec"} ELSE blame
  BY DEF exec
<1>2. PICK bad \in BOOLEAN : \E t \in Victims(Of(s)) : \E u \in Victims(X(t)) :
           IF Y(t, u).panic \/ bad \/ ~Y(t, u).ok
           THEN /\ Commit(s, IF Y(t, u).panic THEN Y(t, u) ELSE freevm(Y(t, u), d), proc)
                /\ swap' = With(swap, proc[s].pid, Y(t, u).file) /\ UNCHANGED blame
           ELSE /\ Commit(s, N(t, u), proc)
                /\ swap' = With(swap, proc[s].pid, <<>>)
                /\ blame' = IF \E j \in DiscIx : N(t, u).p.disc[j].isUsed THEN blame \cup {"exec"} ELSE blame
  BY <1>1
<1>3. PICK t \in Victims(Of(s)) : \E u \in Victims(X(t)) :
           IF Y(t, u).panic \/ bad \/ ~Y(t, u).ok
           THEN /\ Commit(s, IF Y(t, u).panic THEN Y(t, u) ELSE freevm(Y(t, u), d), proc)
                /\ swap' = With(swap, proc[s].pid, Y(t, u).file) /\ UNCHANGED blame
           ELSE /\ Commit(s, N(t, u), proc)
                /\ swap' = With(swap, proc[s].pid, <<>>)
                /\ blame' = IF \E j \in DiscIx : N(t, u).p.disc[j].isUsed THEN blame \cup {"exec"} ELSE blame
  BY <1>2
<1>4. PICK u \in Victims(X(t)) :
           IF Y(t, u).panic \/ bad \/ ~Y(t, u).ok
           THEN /\ Commit(s, IF Y(t, u).panic THEN Y(t, u) ELSE freevm(Y(t, u), d), proc)
                /\ swap' = With(swap, proc[s].pid, Y(t, u).file) /\ UNCHANGED blame
           ELSE /\ Commit(s, N(t, u), proc)
                /\ swap' = With(swap, proc[s].pid, <<>>)
                /\ blame' = IF \E j \in DiscIx : N(t, u).p.disc[j].isUsed THEN blame \cup {"exec"} ELSE blame
  BY <1>3
<1> DEFINE y == Y(t, u)
<1>5. /\ y \in Calls /\ Same(Of(s), y)
      /\ ~y.panic /\ "misread" \notin blame =>
           /\ Image(Of(s), y, proc[s].dir, d) /\ ZeroBefore(y.p, d)
           /\ y.ok => \A w \in Pages : y.pt[d][w] # "none" <=> w < 2
  BY <1>1, ExecImage
<1>6. CASE y.panic \/ bad \/ ~y.ok
  <2>1. /\ Commit(s, IF y.panic THEN y ELSE freevm(y, d), proc)
        /\ swap' = With(swap, proc[s].pid, y.file) /\ UNCHANGED blame
    BY <1>4, <1>6
  <2> HIDE DEF y
  <2> QED
    BY <1>1, <1>5, <2>1, ExecFails
<1>7. CASE ~(y.panic \/ bad \/ ~y.ok)
  <2>1. /\ Commit(s, N(t, u), proc) /\ swap' = With(swap, proc[s].pid, <<>>)
        /\ blame' = IF \E j \in DiscIx : N(t, u).p.disc[j].isUsed THEN blame \cup {"exec"} ELSE blame
    BY <1>4, <1>7
  <2>2. N(t, u) = freevm([y EXCEPT !.p.dir = d, !.p.sz = 2], proc[s].dir)
    OBVIOUS
  <2> HIDE DEF y, N
  <2> QED
    BY <1>1, <1>5, <1>7, <2>1, <2>2, ExecDone
<1> QED
  BY <1>6, <1>7

-----------------------------------------------------------------------------
(* The invariant of the whole.                                             *)

(* The first process: two pages in memory, an empty swap file.             *)
LEMMA InitInv == SwapInit => IInv
<1> SUFFICES ASSUME SwapInit PROVE IInv
  OBVIOUS
<1> DEFINE d == Min(Dirs)
           s == Min(Slots)
           p == [Unused EXCEPT !.state = "user", !.pid = 3, !.dir = d, !.sz = 2,
                               !.phys = {Entry(d, 0), Entry(d, 1)}]
<1>1. d \in Dirs /\ s \in Slots
  <2>1. Dirs # {}
    <3>1. Dirs = {} => Cardinality(Dirs) = 0
      BY FS_EmptySet
    <3>2. Cardinality(Slots) \in Nat
      BY FS_CardinalityType, SlotsAssumption
    <3> QED
      BY <3>1, <3>2, DirsAssumption
  <2> QED
    BY <2>1, MinIs, SlotsAssumption, DirsAssumption
<1>2. /\ proc = [q \in Slots |-> IF q # s THEN Unused ELSE p]
      /\ pt = [x \in Dirs |-> [v \in Pages |-> IF x = d /\ v < 2 THEN "P" ELSE "none"]]
      /\ ram = [x \in Dirs |-> [v \in Pages |-> x = d /\ v < 2]]
      /\ swap = [n \in {3} |-> <<>>] /\ nextpid = 4
      /\ buffer = Empty
      /\ panicked = FALSE /\ abandoned = {} /\ blame = {}
  BY DEF SwapInit
<1> HIDE DEF d, s
<1>3. Unused \in Processes /\ Unused.state = "unused" /\ Unused.dir = 0 /\ Unused.at = 0
      /\ Unused.disc = [j \in DiscIx |-> Free(0)]
  BY UnusedIs DEF Unused
<1>4. /\ p \in Processes /\ p.state = "user" /\ p.pid = 3 /\ p.dir = d /\ p.sz = 2 /\ p.at = 0
      /\ p.phys = {Entry(d, 0), Entry(d, 1)} /\ p.disc = Unused.disc
  <2>1. 2 \in 0 .. MaxPages /\ {Entry(d, 0), Entry(d, 1)} \in SUBSET Entries
    BY <1>1, Fields, Numbers, PagesAssumption
  <2> DEFINE two == {Entry(d, 0), Entry(d, 1)}
  <2> HIDE DEF two
  <2>2. p = [Unused EXCEPT !.state = "user", !.pid = 3, !.dir = d, !.sz = 2, !.phys = two] /\ two \in SUBSET Entries
    BY <2>1 DEF two
  <2> HIDE DEF p
  <2>3. /\ p \in Processes /\ p.state = "user" /\ p.pid = 3 /\ p.dir = d /\ p.sz = 2 /\ p.at = 0
        /\ p.phys = two /\ p.disc = Unused.disc
    BY <1>1, <1>3, <2>1, <2>2 DEF Processes
  <2> QED
    BY <2>3 DEF two
<1> HIDE DEF p
<1>5. proc \in [Slots -> Processes] /\ proc[s] = p /\ \A q \in Slots : q # s => proc[q] = Unused
  BY <1>1, <1>2, <1>3, <1>4
<1>6. Alive = {s} /\ Used = {s}
  BY <1>1, <1>3, <1>4, <1>5 DEF Alive, Used
<1>7. /\ \A x \in Dirs, v \in Pages : pt[x][v] = IF x = d /\ v < 2 THEN "P" ELSE "none"
      /\ \A v \in Pages : v < 2 => ram[d][v]
  BY <1>1, <1>2
<1>8. TypeOK
  <2>1. pt \in [Dirs -> PTEs] /\ ram \in [Dirs -> [Pages -> BOOLEAN]]
    BY <1>2 DEF PTEs
  <2>2. swap \in [DOMAIN swap -> Files]
    BY <1>2 DEF Files
  <2>3. buffer \in [owner : Nat, va : Pages, right : BOOLEAN]
    BY <1>2, Numbers DEF Empty
  <2>4. nextpid \in Nat \ {0}
    BY <1>2
  <2>5. panicked \in BOOLEAN /\ abandoned \in SUBSET Nat
    BY <1>2
  <2>6. blame = {}
    BY <1>2
  <2>7. proc \in [Slots -> Processes]
    BY <1>5
  <2>8. DOMAIN swap \in SUBSET Nat
    BY <1>2
  <2> QED
    BY ONLY <2>1, <2>2, <2>3, <2>4, <2>5, <2>6, <2>7, <2>8 DEF TypeOK
<1>9. IdInv
  BY <1>1, <1>2, <1>3, <1>4, <1>5, <1>6 DEF IdInv
<1>10. SwapFilesOwned
  BY <1>2, <1>4, <1>5, <1>6 DEF SwapFilesOwned
<1>11. \A j \in DiscIx : ~p.disc[j].isUsed
  BY <1>3, <1>4, Fields
<1>12. TablesInv
  <2>1. \A x \in FreeDirs : pt[x] = Clear
    <3>1. \A x \in FreeDirs : x \in Dirs /\ x # d
      BY <1>1, <1>4, <1>5 DEF FreeDirs
    <3> QED
      BY <1>2, <3>1 DEF Clear
  <2>2. Tables(p, pt, {d})
    <3>1. \A t \in p.phys : t.dir = d /\ t.va \in Pages /\ t.va < 2
      BY <1>4, Fields, Numbers
    <3>2. \A t \in p.phys : t.dir \in {d} /\ pt[t.dir][t.va] = "P"
      BY <1>1, <1>7, <3>1
    <3> QED
      BY <1>1, <1>7, <1>11, <3>2 DEF Tables
  <2>3. Sized(p, pt)
    BY <1>1, <1>4, <1>7 DEF Sized
  <2> QED
    BY <1>4, <1>5, <1>6, <2>1, <2>2, <2>3 DEF TablesInv
<1>13. OrderInv
  BY <1>2, <1>5, <1>6, <1>11 DEF OrderInv, Ordered
<1>14. BytesInv
  <2>1. Held(p, pt, ram)
    BY <1>1, <1>4, <1>7 DEF Held
  <2>2. Saved(p, swap[p.pid])
    BY <1>11 DEF Saved
  <2>3. buffer.owner = 0
    BY <1>2 DEF Empty
  <2> QED
    BY <1>4, <1>5, <1>6, <2>1, <2>2, <2>3 DEF BytesInv
<1> QED
  BY <1>8, <1>9, <1>10, <1>12, <1>13, <1>14 DEF IInv

(* A step of any process keeps the invariant.                              *)
LEMMA NextInv == IInv /\ [SwapNext]_swapVars => IInv'
<1> SUFFICES ASSUME IInv, [SwapNext]_swapVars PROVE IInv'
  OBVIOUS
<1>1. CASE UNCHANGED swapVars
  <2>1. /\ proc' = proc /\ pt' = pt /\ ram' = ram /\ swap' = swap /\ buffer' = buffer /\ nextpid' = nextpid
        /\ calls' = calls /\ panicked' = panicked /\ abandoned' = abandoned /\ blame' = blame
    BY <1>1 DEF swapVars
  <2>2. Used' = Used /\ Alive' = Alive /\ FreeDirs' = FreeDirs
    BY ONLY <2>1 DEF Used, Alive, FreeDirs
  <2>3. TypeOK'
    BY ONLY IInv, <2>1 DEF IInv, TypeOK
  <2>4. IdInv'
    BY ONLY IInv, <2>1, <2>2 DEF IInv, IdInv
  <2>5. SwapFilesOwned'
    BY ONLY IInv, <2>1, <2>2 DEF IInv, SwapFilesOwned
  <2>6. TablesInv'
    BY ONLY IInv, <2>1, <2>2 DEF IInv, TablesInv
  <2>7. OrderInv'
    BY ONLY IInv, <2>1, <2>2 DEF IInv, OrderInv
  <2>8. BytesInv'
    BY ONLY IInv, <2>1, <2>2 DEF IInv, BytesInv
  <2> QED
    BY ONLY <2>3, <2>4, <2>5, <2>6, <2>7, <2>8 DEF IInv
<1>2. CASE SwapNext
  <2>1. PICK s \in Slots : \/ Grow(s) \/ fork(s) \/ ForkFails(s) \/ exec(s) \/ exit(s) \/ wait(s)
                           \/ (\E v \in Pages : FaultIn(s, v) \/ FaultRead(s, v))
                           \/ FaultCopy(s)
    BY <1>2 DEF SwapNext
  <2>2. CASE Grow(s)
    BY <2>2, GrowInv
  <2>3. CASE fork(s)
    BY <2>3, ForkInv
  <2>4. CASE ForkFails(s)
    BY <2>4, ForkFailsInv
  <2>5. CASE exec(s)
    BY <2>5, ExecInv
  <2>6. CASE exit(s)
    BY <2>6, ExitInv
  <2>7. CASE wait(s)
    BY <2>7, WaitInv
  <2>8. CASE \E v \in Pages : FaultIn(s, v) \/ FaultRead(s, v)
    BY <2>8, FaultInInv, FaultReadInv
  <2>9. CASE FaultCopy(s)
    BY <2>9, FaultCopyInv
  <2> QED
    BY <2>1, <2>2, <2>3, <2>4, <2>5, <2>6, <2>7, <2>8, <2>9
<1> QED
  BY <1>1, <1>2

(* The inductive invariant holds in every state: pids and directories are  *)
(* used once, the tables agree with the page tables, a search by address   *)
(* finds the slot in use until exec loses pages, and bytes are right until *)
(* one of the known causes.                                                *)
THEOREM Invariance == SwapSpec => []IInv
BY InitInv, NextInv, PTL DEF SwapSpec

(* What the invariant says of one process: the bytes of its pages.         *)
LEMMA AllRightIs == ASSUME IInv, ~panicked, blame = {}, NEW s \in Alive PROVE AllRight(s)
<1> DEFINE d == proc[s].dir
           f == swap[proc[s].pid]
<1>1. /\ Of(s) \in Calls /\ Of(s).p = proc[s] /\ Of(s).pt = pt /\ proc[s] \in Processes /\ d \in Dirs
      /\ Tables(proc[s], pt, {d}) /\ Sized(proc[s], pt) /\ Ordered(proc[s]) /\ Saved(proc[s], f)
  BY OfIs
<1>2. Held(proc[s], pt, ram)
  BY DEF IInv, BytesInv
<1>3. ASSUME NEW v \in 0 .. proc[s].sz - 1
      PROVE  CASE pt[d][v] = "P"  -> ram[d][v] \/ proc[s].at = v + 1
               [] pt[d][v] = "PG" -> Right(f, SlotOf(Of(s), v), v)
               [] OTHER -> FALSE
  <2>1. proc[s].sz \in 0 .. MaxPages
    BY <1>1 DEF Processes
  <2>2. v \in Pages /\ v < proc[s].sz
    BY <2>1, Numbers
  <2>3. pt[d][v] # "none"
    BY <1>1, <2>2 DEF Sized
  <2>4. pt[d][v] \in {"none", "P", "PG"}
    BY <1>1, <2>2 DEF IInv, TypeOK, PTEs
  <2>5. CASE pt[d][v] = "P"
    BY <1>2, <2>2, <2>5 DEF Held
  <2>6. CASE pt[d][v] = "PG"
    <3> DEFINE j == SlotOf(Of(s), v)
    <3>1. j \in DiscIx /\ proc[s].disc[j].isUsed /\ proc[s].disc[j].va = v /\ proc[s].disc[j].dir = d
      BY <1>1, <2>2, <2>6, Found
    <3> HIDE DEF j
    <3>2. Right(f, j, v)
      BY <1>1, <3>1 DEF Saved
    <3> QED
      BY <2>6, <3>2 DEF j
  <2> QED
    BY <2>3, <2>4, <2>5, <2>6
<1> QED
  BY <1>3 DEF AllRight

(* fork, exec, exit, wait, sbrk and page faults, in any order and any      *)
(* number of processes: the swap files are those of the living processes   *)
(* (and of failed forks), the tables of a process are about its own pages  *)
(* and agree with its page table, and pages keep their bytes but for the   *)
(* four known causes.                                                      *)
THEOREM SwapIsPrivate == SwapSpec => []SwapPrivate
<1>1. IInv => SwapPrivate
  <2> SUFFICES ASSUME IInv PROVE SwapPrivate
    OBVIOUS
  <2>1. SwapFilesOwned
    BY DEF IInv
  <2>2. TablesOwn
    <3> SUFFICES ASSUME ~panicked, "misread" \notin blame, NEW s \in Alive
                 PROVE  LET p == proc[s] IN
                   /\ \A t \in p.phys : t.dir = p.dir /\ pt[p.dir][t.va] = "P"
                   /\ \A j \in DiscIx : p.disc[j].isUsed => p.disc[j].dir = p.dir /\ pt[p.dir][p.disc[j].va] = "PG"
                   /\ \A v \in Pages : pt[p.dir][v] = "PG" => \E j \in DiscIx : p.disc[j].isUsed /\ p.disc[j].va = v
      BY DEF TablesOwn
    <3>1. Tables(proc[s], pt, {proc[s].dir})
      BY OfIs
    <3> QED
      BY <3>1 DEF Tables
  <2>3. WrongBytesExplained
    BY AllRightIs DEF WrongBytesExplained
  <2> QED
    BY <2>1, <2>2, <2>3 DEF SwapPrivate
<1> QED
  BY <1>1, Invariance, PTL

(* retrievePage's search by address stops at a slot no longer in use only  *)
(* after an exec that lost pages of its new image: no order of evictions,  *)
(* faults, forks and failing execs alone gets there.                       *)
MisreadNeedsExec == "misread" \in blame => "exec" \in blame

(* In no run of any number of processes is a misread the first cause.      *)
THEOREM MisreadOnlyAfterExec == SwapSpec => []MisreadNeedsExec
<1>1. IInv => MisreadNeedsExec
  BY DEF IInv, OrderInv, MisreadNeedsExec
<1> QED
  BY <1>1, Invariance, PTL
=============================================================================
