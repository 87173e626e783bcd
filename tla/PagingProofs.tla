---------------------------- MODULE PagingProofs ----------------------------
(***************************************************************************)
(* Proofs about paging, for any number of frames, swap slots and pages and *)
(* every replacement algorithm: page table, metadata tables and swap file  *)
(* agree, no page loses its bytes, retrievePage's search finds the page's  *)
(* own slot, and a fault kills only when nothing can be moved out.         *)
(*                                                                         *)
(* Agree says that five tables fit together; each thing the code does to   *)
(* the tables (moving a page out, mapping one, bringing one in, giving     *)
(* some back) is a lemma about Agree, and an action is one or two of them. *)
(***************************************************************************)
EXTENDS Paging, SetLemmas, FiniteSetTheorems, TLAPS

\* The tables of the code, as far as their types matter to Agree.
Tables(pt, ph, di, da, sw) ==
    /\ pt \in [PageNos -> {"none", "P", "PG"}]
    /\ DOMAIN ph = PhysSlots /\ \A i \in PhysSlots : ph[i].va \in PageNos
    /\ DOMAIN di = DiscSlots /\ \A i \in DiscSlots : di[i].va \in PageNos
    /\ DOMAIN da = PageNos
    /\ DOMAIN sw = DiscSlots

\* A used slot of RAM is a present page's and no other slot is; a used slot of
\* the swap file is a paged-out page's, with its bytes, and slots left behind
\* with the same address come after it (page 0 aside, the address that cleared
\* slots have); every paged-out page has one; present pages have their bytes.
Agree(pt, ph, di, da, sw) ==
    /\ \A i \in PhysSlots : ph[i].isUsed => pt[ph[i].va] = "P"
    /\ \A i, j \in PhysSlots : ph[i].isUsed /\ ph[j].isUsed /\ ph[i].va = ph[j].va => i = j
    /\ \A i \in DiscSlots : di[i].isUsed => pt[di[i].va] = "PG" /\ sw[i] = di[i].va
    /\ \A i, j \in DiscSlots : di[i].isUsed /\ di[j].isUsed /\ di[i].va = di[j].va => i = j
    /\ \A i, j \in DiscSlots : di[i].isUsed /\ di[i].va = di[j].va /\ di[i].va # CodePage => i <= j
    /\ \A v \in PageNos : pt[v] = "PG" => \E i \in DiscSlots : di[i].isUsed /\ di[i].va = v
    /\ \A v \in PageNos : pt[v] = "P" => da[v] = v

\* The first page that is not mapped.
End == IF a = NoPage THEN sz ELSE a

TableInv ==
    ~misread => /\ Agree(pte, phys, disc, data, swapFile)
                /\ \A v \in PageNos : v >= End => pte[v] = "none"

\* allocuvm's loop stays within what growproc asked for, and the timer within
\* its bound.
GrowInv == a # NoPage => sz <= a /\ a <= newsz /\ timer + (newsz - a) <= MaxTimer

\* The swap file has no holes: used slots are within it, so the first free one
\* is at most at its end.  Timers start at 1, so that LIFO finds a page.
FileInv ==
    /\ \A i \in DiscSlots : disc[i].isUsed => i < fsize
    /\ timer >= 1
    /\ \A i \in PhysSlots : phys[i].isUsed => phys[i].timer >= 1

\* The inductive invariant.
IInv ==
    /\ TypeOK
    /\ GrowInv
    /\ FileInv
    /\ TableInv
    /\ FatalOnlyIfFull

-----------------------------------------------------------------------------
(* What the code does to the tables.                                       *)

(* reallocatePageInDisk: the page of slot i of RAM goes to the first free  *)
(* slot j of the swap file.                                                *)
LEMMA AgreeEvict ==
    ASSUME NEW pt, NEW ph, NEW di, NEW da, NEW sw,
           Tables(pt, ph, di, da, sw), Agree(pt, ph, di, da, sw),
           NEW i \in PhysSlots, ph[i].isUsed,
           NEW j \in DiscSlots, ~di[j].isUsed, \A k \in DiscSlots : ~di[k].isUsed => j <= k,
           NEW ph2, DOMAIN ph2 = PhysSlots, ~ph2[i].isUsed, ph2[i].va \in PageNos,
           \A k \in PhysSlots \ {i} : ph2[k] = ph[k]
    PROVE  LET pt2 == [pt EXCEPT ![ph[i].va] = "PG"]
               di2 == [di EXCEPT ![j] = [isUsed |-> TRUE, va |-> ph[i].va]]
               sw2 == [sw EXCEPT ![j] = da[ph[i].va]]
           IN  Tables(pt2, ph2, di2, da, sw2) /\ Agree(pt2, ph2, di2, da, sw2)
<1> DEFINE w == ph[i].va
           pt2 == [pt EXCEPT ![w] = "PG"]
           di2 == [di EXCEPT ![j] = [isUsed |-> TRUE, va |-> w]]
           sw2 == [sw EXCEPT ![j] = da[w]]
<1>1. w \in PageNos /\ pt[w] = "P" /\ da[w] = w
  BY DEF Tables, Agree
<1>2. /\ pt2 \in [PageNos -> {"none", "P", "PG"}]
      /\ \A v \in PageNos : pt2[v] = IF v = w THEN "PG" ELSE pt[v]
  BY <1>1 DEF Tables
<1>3. /\ DOMAIN di2 = DiscSlots
      /\ di2[j].isUsed /\ di2[j].va = w
      /\ \A k \in DiscSlots \ {j} : di2[k] = di[k]
  BY DEF Tables
<1>4. DOMAIN sw2 = DiscSlots /\ sw2[j] = w /\ \A k \in DiscSlots \ {j} : sw2[k] = sw[k]
  BY <1>1 DEF Tables
<1> HIDE DEF pt2, di2, sw2
<1>5. Tables(pt2, ph2, di2, da, sw2)
  BY <1>1, <1>2, <1>3, <1>4 DEF Tables
<1>6. \A k \in PhysSlots : ph2[k].isUsed => ph2[k] = ph[k] /\ k # i /\ ph[k].va # w
  BY DEF Agree
<1>7. \A k \in DiscSlots \ {j} : di[k].isUsed => di[k].va # w
  BY <1>1 DEF Agree
<1>8. \A k \in PhysSlots : ph2[k].isUsed => pt2[ph2[k].va] = "P"
  BY <1>2, <1>6 DEF Agree, Tables
<1>9. \A k, l \in PhysSlots : ph2[k].isUsed /\ ph2[l].isUsed /\ ph2[k].va = ph2[l].va => k = l
  BY <1>6 DEF Agree
<1>10. \A k \in DiscSlots : di2[k].isUsed => pt2[di2[k].va] = "PG" /\ sw2[k] = di2[k].va
  BY <1>1, <1>2, <1>3, <1>4 DEF Agree, Tables
<1>11. \A k, l \in DiscSlots : di2[k].isUsed /\ di2[l].isUsed /\ di2[k].va = di2[l].va => k = l
  BY <1>3, <1>7 DEF Agree
<1>12. ASSUME NEW k \in DiscSlots, NEW l \in DiscSlots,
              di2[k].isUsed, di2[k].va = di2[l].va, di2[k].va # CodePage
       PROVE  k <= l
  <2>1. k \in Int /\ l \in Int
    BY DEF DiscSlots
  <2>2. CASE k = j /\ l # j
    <3>1. ~di[l].isUsed
      BY <1>3, <1>7, <1>12, <2>2
    <3> QED
      BY <2>2, <3>1
  <2>3. CASE k # j /\ l # j
    BY <1>3, <1>12, <2>3 DEF Agree
  <2>4. CASE k # j /\ l = j
    BY <1>3, <1>7, <1>12, <2>4
  <2> QED
    BY <2>1, <2>2, <2>3, <2>4
<1>13. \A v \in PageNos : pt2[v] = "PG" => \E k \in DiscSlots : di2[k].isUsed /\ di2[k].va = v
  <2> SUFFICES ASSUME NEW v \in PageNos, pt2[v] = "PG" PROVE \E k \in DiscSlots : di2[k].isUsed /\ di2[k].va = v
    OBVIOUS
  <2>1. CASE v = w
    BY <1>3, <2>1
  <2>2. CASE v # w
    <3>1. PICK k \in DiscSlots : di[k].isUsed /\ di[k].va = v
      BY <1>2, <2>2 DEF Agree
    <3> QED
      BY <1>3, <3>1
  <2> QED
    BY <2>1, <2>2
<1>14. \A v \in PageNos : pt2[v] = "P" => da[v] = v
  BY <1>2 DEF Agree
<1>15. Agree(pt2, ph2, di2, da, sw2)
  BY <1>8, <1>9, <1>10, <1>11, <1>12, <1>13, <1>14 DEF Agree
<1> QED
  BY <1>5, <1>15 DEF pt2, di2, sw2

(* allocuvm: a new page v is mapped, and put in a free slot of RAM or in   *)
(* none.                                                                   *)
LEMMA AgreeMap ==
    ASSUME NEW pt, NEW ph, NEW di, NEW da, NEW sw,
           Tables(pt, ph, di, da, sw), Agree(pt, ph, di, da, sw),
           NEW v \in PageNos, pt[v] = "none",
           NEW ph2,
           \/ ph2 = ph
           \/ \E r \in PhysSlots : /\ ~ph[r].isUsed /\ ph2[r].va = v
                                   /\ \A k \in PhysSlots \ {r} : ph2[k] = ph[k]
    PROVE  Agree([pt EXCEPT ![v] = "P"], ph2, di, [da EXCEPT ![v] = v], sw)
<1> DEFINE pt2 == [pt EXCEPT ![v] = "P"]
           da2 == [da EXCEPT ![v] = v]
<1>1. \A u \in PageNos : pt2[u] = (IF u = v THEN "P" ELSE pt[u]) /\ da2[u] = (IF u = v THEN v ELSE da[u])
  BY DEF Tables
<1> HIDE DEF pt2, da2
<1>2. \A k \in PhysSlots : ph[k].isUsed => ph[k].va # v
  BY DEF Agree
<1>3. \A k \in DiscSlots : di[k].isUsed => di[k].va # v
  BY DEF Agree
<1>4. /\ \A k \in PhysSlots : ph2[k].isUsed => pt2[ph2[k].va] = "P"
      /\ \A k, l \in PhysSlots : ph2[k].isUsed /\ ph2[l].isUsed /\ ph2[k].va = ph2[l].va => k = l
  <2>1. CASE ph2 = ph
    BY <1>1, <1>2, <2>1 DEF Agree, Tables
  <2>2. ASSUME NEW r \in PhysSlots, ~ph[r].isUsed, ph2[r].va = v, \A k \in PhysSlots \ {r} : ph2[k] = ph[k]
        PROVE  /\ \A k \in PhysSlots : ph2[k].isUsed => pt2[ph2[k].va] = "P"
               /\ \A k, l \in PhysSlots : ph2[k].isUsed /\ ph2[l].isUsed /\ ph2[k].va = ph2[l].va => k = l
    BY <1>1, <1>2, <2>2 DEF Agree, Tables
  <2> QED
    BY <2>1, <2>2
<1>5. /\ \A k \in DiscSlots : di[k].isUsed => pt2[di[k].va] = "PG" /\ sw[k] = di[k].va
      /\ \A u \in PageNos : pt2[u] = "PG" => \E k \in DiscSlots : di[k].isUsed /\ di[k].va = u
      /\ \A u \in PageNos : pt2[u] = "P" => da2[u] = u
  BY <1>1, <1>3 DEF Agree, Tables
<1>6. Agree(pt2, ph2, di, da2, sw)
  BY <1>4, <1>5 DEF Agree
<1> QED
  BY <1>6 DEF pt2, da2

\* What bringing page v in from slot k of the swap file to slot r of RAM does.
BroughtIn(pt, ph, di, da, sw, v, k, r, pt2, ph2, di2, da2) ==
    /\ v \in PageNos
    /\ k \in DiscSlots /\ di[k].isUsed /\ di[k].va = v
    /\ r \in PhysSlots /\ ~ph[r].isUsed
    /\ ph2[r].va = v /\ \A l \in PhysSlots \ {r} : ph2[l] = ph[l]
    /\ ~di2[k].isUsed /\ di2[k].va = v /\ \A l \in DiscSlots \ {k} : di2[l] = di[l]
    /\ pt2 = [pt EXCEPT ![v] = "P"]
    /\ da2 = [da EXCEPT ![v] = sw[k]]

(* retrievePage: page v comes from its slot k of the swap file to a free   *)
(* slot r of RAM; slot k keeps the address.                                *)
LEMMA AgreePageIn ==
    ASSUME NEW pt, NEW ph, NEW di, NEW da, NEW sw, NEW v, NEW k, NEW r, NEW pt2, NEW ph2, NEW di2, NEW da2,
           Tables(pt, ph, di, da, sw), Agree(pt, ph, di, da, sw),
           BroughtIn(pt, ph, di, da, sw, v, k, r, pt2, ph2, di2, da2)
    PROVE  Agree(pt2, ph2, di2, da2, sw)
<1> USE DEF BroughtIn
<1>1. \A u \in PageNos : pt2[u] = (IF u = v THEN "P" ELSE pt[u]) /\ da2[u] = (IF u = v THEN v ELSE da[u])
  BY DEF Tables, Agree
<1>2. \A l \in PhysSlots : ph[l].isUsed => ph[l].va # v
  BY DEF Agree
<1>3. \A l \in DiscSlots : di2[l].isUsed => l # k /\ di2[l] = di[l] /\ di[l].va # v
  BY DEF Agree
<1>4. \A l \in DiscSlots : di2[l].va = di[l].va
  OBVIOUS
<1>5. /\ \A l \in PhysSlots : ph2[l].isUsed => pt2[ph2[l].va] = "P"
      /\ \A l, m \in PhysSlots : ph2[l].isUsed /\ ph2[m].isUsed /\ ph2[l].va = ph2[m].va => l = m
  BY <1>1, <1>2 DEF Agree, Tables
<1>6. /\ \A l \in DiscSlots : di2[l].isUsed => pt2[di2[l].va] = "PG" /\ sw[l] = di2[l].va
      /\ \A l, m \in DiscSlots : di2[l].isUsed /\ di2[m].isUsed /\ di2[l].va = di2[m].va => l = m
      /\ \A l, m \in DiscSlots : di2[l].isUsed /\ di2[l].va = di2[m].va /\ di2[l].va # CodePage => l <= m
  BY <1>1, <1>3, <1>4 DEF Agree, Tables
<1>7. \A u \in PageNos : pt2[u] = "PG" => \E l \in DiscSlots : di2[l].isUsed /\ di2[l].va = u
  <2> SUFFICES ASSUME NEW u \in PageNos, pt2[u] = "PG" PROVE \E l \in DiscSlots : di2[l].isUsed /\ di2[l].va = u
    OBVIOUS
  <2>1. PICK l \in DiscSlots : di[l].isUsed /\ di[l].va = u
    BY <1>1 DEF Agree
  <2> QED
    BY <1>1, <2>1
<1>8. \A u \in PageNos : pt2[u] = "P" => da2[u] = u
  BY <1>1 DEF Agree
<1> QED
  BY <1>5, <1>6, <1>7, <1>8 DEF Agree

(* The variables are such tables.                                          *)
LEMMA AreTables == TypeOK => Tables(pte, phys, disc, data, swapFile)
BY DEF TypeOK, Tables

(* deallocuvm: the pages from lo to hi go, with their slots.               *)
LEMMA AgreeDealloc ==
    ASSUME TypeOK, Agree(pte, phys, disc, data, swapFile), NEW lo \in Nat, NEW hi \in Nat, Dealloc(lo, hi)
    PROVE  Agree(pte', phys', disc', data', swapFile')
<1>1. /\ \A v \in PageNos : pte'[v] = IF Gone(v, lo, hi) THEN "none" ELSE pte[v]
      /\ \A v \in PageNos : data'[v] = IF Gone(v, lo, hi) THEN OldBytes ELSE data[v]
      /\ \A i \in DiscSlots : swapFile'[i] = IF Gone(swapFile[i], lo, hi) THEN OldBytes ELSE swapFile[i]
  BY DEF Dealloc
<1>2. ASSUME NEW i \in PhysSlots, phys'[i].isUsed PROVE phys[i].isUsed /\ phys'[i] = phys[i] /\ ~Gone(phys[i].va, lo, hi)
  <2> DEFINE Freed == phys[i].isUsed /\ Gone(phys[i].va, lo, hi) /\ pte[phys[i].va] = "P"
  <2>1. phys[i] \in [isUsed : BOOLEAN, va : PageNos, timer : 0..MaxTimer, age : 0..MaxAge]
    BY DEF TypeOK
  <2>2. phys'[i] = IF Freed THEN [phys[i] EXCEPT !.isUsed = FALSE, !.va = 0] ELSE phys[i]
    BY DEF Dealloc, removePhysicalPageMetaData
  <2>3. [phys[i] EXCEPT !.isUsed = FALSE, !.va = 0].isUsed = FALSE
    BY <2>1
  <2>4. ~Freed /\ phys'[i] = phys[i]
    BY <1>2, <2>2, <2>3
  <2> QED
    BY <1>2, <2>4 DEF Agree
<1>3. \A i \in DiscSlots : disc'[i].isUsed => disc[i].isUsed /\ disc'[i] = disc[i] /\ ~Gone(disc[i].va, lo, hi)
  BY DEF Dealloc, removeDiscMetaData, Agree, TypeOK
<1>4. \A i \in DiscSlots : disc[i].isUsed /\ ~Gone(disc[i].va, lo, hi) => disc'[i] = disc[i]
  BY DEF Dealloc, removeDiscMetaData
<1>5. \A i \in DiscSlots : disc'[i].va = disc[i].va \/ disc'[i].va = CodePage
  BY DEF Dealloc, removeDiscMetaData, CodePage
<1>6. \A i \in PhysSlots : phys[i].va \in PageNos
  BY DEF TypeOK
<1>7. \A i \in DiscSlots : disc[i].va \in PageNos
  BY DEF TypeOK
<1> HIDE DEF Gone
<1>8. /\ \A i \in PhysSlots : phys'[i].isUsed => pte'[phys'[i].va] = "P"
      /\ \A i, j \in PhysSlots : phys'[i].isUsed /\ phys'[j].isUsed /\ phys'[i].va = phys'[j].va => i = j
  BY <1>1, <1>2, <1>6 DEF Agree
<1>9. /\ \A i \in DiscSlots : disc'[i].isUsed => pte'[disc'[i].va] = "PG" /\ swapFile'[i] = disc'[i].va
      /\ \A i, j \in DiscSlots : disc'[i].isUsed /\ disc'[j].isUsed /\ disc'[i].va = disc'[j].va => i = j
      /\ \A i, j \in DiscSlots : disc'[i].isUsed /\ disc'[i].va = disc'[j].va /\ disc'[i].va # CodePage => i <= j
  BY <1>1, <1>3, <1>5, <1>7 DEF Agree
<1>10. ASSUME NEW v \in PageNos, pte'[v] = "PG" PROVE \E i \in DiscSlots : disc'[i].isUsed /\ disc'[i].va = v
  <2>1. PICK i \in DiscSlots : disc[i].isUsed /\ disc[i].va = v
    BY <1>1, <1>10 DEF Agree
  <2> QED
    BY <1>1, <1>4, <1>10, <2>1
<1>11. \A v \in PageNos : pte'[v] = "P" => data'[v] = v
  BY <1>1 DEF Agree
<1> QED
  BY <1>8, <1>9, <1>10, <1>11 DEF Agree

-----------------------------------------------------------------------------
(* The searches.                                                           *)

(* The loops over the slots end at the first free one.                     *)
LEMMA FirstFree ==
    /\ FreePhys # {} => Min(FreePhys) \in FreePhys
    /\ FreeDiscSlots # {} => Min(FreeDiscSlots) \in FreeDiscSlots /\ \A k \in FreeDiscSlots : Min(FreeDiscSlots) <= k
<1> USE LimitsAssumption
<1>1. FreePhys \in SUBSET Nat /\ FreeDiscSlots \in SUBSET Nat
  BY DEF FreePhys, FreeDiscSlots, PhysSlots, DiscSlots
<1>2. FreePhys # {} => \E x \in FreePhys : \A y \in FreePhys : x <= y
  BY <1>1, LeastElement
<1>3. FreeDiscSlots # {} => \E x \in FreeDiscSlots : \A y \in FreeDiscSlots : x <= y
  BY <1>1, LeastElement
<1> QED
  BY <1>2, <1>3, Zenon DEF Min

(* A page is moved out of a slot in use to the first free slot of the swap *)
(* file, and not beyond the file's end.                                    *)
LEMMA EvictFacts ==
    ASSUME TypeOK, NEW i \in PhysSlots, NEW j \in DiscSlots, EvictTo(i, j)
    PROVE  /\ phys[i].isUsed /\ ~disc[j].isUsed /\ j <= fsize
           /\ \A k \in DiscSlots : ~disc[k].isUsed => j <= k
<1>1. i \in UsedPhys
  <2>1. R_ALGO \in 1..3
    BY AlgoAssumption DEF TypeOK
  <2>2. R_ALGO = 1 \/ R_ALGO = 2 \/ R_ALGO = 3
    BY <2>1
  <2> QED
    BY <2>2 DEF EvictTo, getReplacementPageIndexPhyMem, getReplacementPageIndexFIFO, getReplacementPageIndexAging,
       getReplacementPageIndexLIFO
<1>2. FreeDiscSlots # {} /\ j = Min(FreeDiscSlots)
  BY DEF EvictTo, getAvailablePageIndexDisk
<1>3. j \in FreeDiscSlots /\ \A k \in FreeDiscSlots : j <= k
  BY <1>2, FirstFree
<1> QED
  BY <1>1, <1>3 DEF UsedPhys, FreePhys, FreeDiscSlots, EvictTo, writeToSwapFile

(* The replacement algorithm finds a page whenever RAM is full, except     *)
(* that AGING does not if every counter is saturated.                      *)
LEMMA FindsVictim ==
    ASSUME TypeOK, FileInv, ~spaceAvialableInMemory,
           R_ALGO = 2 => ~ \A i \in PhysSlots : phys[i].age = MaxAge
    PROVE  \E i \in PhysSlots : i \in getReplacementPageIndexPhyMem
<1> USE LimitsAssumption, PagingBoundsAssumption
<1>1. UsedPhys = PhysSlots /\ PhysSlots # {} /\ 0 \in PhysSlots /\ PhysSlots \in SUBSET Nat
  BY DEF spaceAvialableInMemory, FreePhys, UsedPhys, PhysSlots
<1>2. \A i \in PhysSlots : /\ phys[i].timer \in Nat /\ phys[i].timer <= MaxTimer
                           /\ phys[i].timer >= 1
                           /\ phys[i].age \in Nat /\ phys[i].age <= MaxAge
  <2>1. \A i \in PhysSlots : phys[i].isUsed
    BY <1>1 DEF UsedPhys, FreePhys
  <2>2. \A i \in PhysSlots : phys[i].timer \in 0..MaxTimer /\ phys[i].age \in 0..MaxAge
    BY DEF TypeOK
  <2> QED
    BY <2>1, <2>2 DEF FileInv, MaxAge
<1> DEFINE timers == {phys[i].timer : i \in PhysSlots}
<1>3. timers \in SUBSET Nat /\ timers # {} /\ \A x \in timers : x <= MaxTimer
  BY <1>1, <1>2
<1>4. R_ALGO = 1 \/ R_ALGO = 2 \/ R_ALGO = 3
  BY AlgoAssumption DEF TypeOK
<1>5. CASE R_ALGO = 1
  <2>1. PICK x \in timers : \A y \in timers : x <= y
    <3> HIDE DEF timers
    <3> QED
      BY <1>3, LeastElement
  <2>2. PICK i \in PhysSlots : x = phys[i].timer
    BY <2>1
  <2>3. i \in getReplacementPageIndexFIFO
    BY <1>1, <2>1, <2>2 DEF getReplacementPageIndexFIFO
  <2> QED
    BY <1>5, <2>3 DEF getReplacementPageIndexPhyMem
<1>6. CASE R_ALGO = 3
  <2>1. PICK x \in timers : \A y \in timers : y <= x
    <3> HIDE DEF timers
    <3> QED
      BY <1>3, GreatestElement
  <2>2. PICK i \in PhysSlots : x = phys[i].timer
    BY <2>1
  <2>3. i \in getReplacementPageIndexLIFO
    BY <1>1, <1>2, <2>1, <2>2 DEF getReplacementPageIndexLIFO
  <2> QED
    BY <1>6, <2>3 DEF getReplacementPageIndexPhyMem
<1>7. CASE R_ALGO = 2
  <2> DEFINE aged == {i \in UsedPhys : phys[i].age < MaxAge}
             ages == {phys[i].age : i \in aged}
  <2>1. PICK i0 \in PhysSlots : phys[i0].age # MaxAge
    BY <1>7
  <2>2. i0 \in aged
    BY <1>1, <1>2, <2>1 DEF MaxAge
  <2>3. ages \in SUBSET Nat /\ ages # {}
    BY <1>1, <1>2, <2>2
  <2>4. PICK x \in ages : \A y \in ages : x <= y
    <3> HIDE DEF ages
    <3> QED
      BY <2>3, LeastElement
  <2> DEFINE firsts == {i \in aged : phys[i].age = x}
  <2>5. firsts \in SUBSET Nat /\ firsts # {}
    BY <1>1, <2>4
  <2>6. PICK i \in firsts : \A k \in firsts : i <= k
    <3> HIDE DEF firsts
    <3> QED
      BY <2>5, LeastElement
  <2>7. ASSUME NEW k \in aged
        PROVE  phys[i].age < phys[k].age \/ (phys[i].age = phys[k].age /\ i <= k)
    <3>1. phys[i].age = x /\ x <= phys[k].age /\ phys[k].age \in Nat /\ x \in Nat
      BY <1>1, <1>2, <2>3, <2>4, <2>6
    <3>2. CASE phys[k].age = x
      BY <2>6, <3>1, <3>2
    <3>3. CASE phys[k].age # x
      BY <3>1, <3>3
    <3> QED
      BY <3>2, <3>3
  <2>8. i \in getReplacementPageIndexAging
    BY <2>6, <2>7 DEF getReplacementPageIndexAging
  <2>9. i \in PhysSlots
    BY <1>1, <2>6
  <2> QED
    BY <1>7, <2>8, <2>9 DEF getReplacementPageIndexPhyMem
<1> QED
  BY <1>4, <1>5, <1>6, <1>7

-----------------------------------------------------------------------------
(* The invariant's parts.                                                  *)

Phys == [isUsed : BOOLEAN, va : PageNos, timer : 0..MaxTimer, age : 0..MaxAge]
Disc == [isUsed : BOOLEAN, va : PageNos]

(* The sizes the proofs compute with.                                      *)
LEMMA Sizes ==
    /\ Cardinality(DiscSlots) = MAX_TOTAL_PAGES - MAX_PYSC_PAGES
    /\ \A i \in DiscSlots : i \in Nat /\ i + 1 <= Cardinality(DiscSlots)
    /\ \A i \in Nat : i < Cardinality(DiscSlots) => i \in DiscSlots
    /\ 0 \in PageNos /\ \A v \in Int : v \in PageNos <=> 0 <= v /\ v < MaxSize
    /\ MaxAge \in Nat
<1> USE LimitsAssumption, PagingBoundsAssumption
<1> DEFINE top == MAX_TOTAL_PAGES - MAX_PYSC_PAGES - 1
<1>1. top \in Nat /\ DiscSlots = 0..top
  BY DEF DiscSlots
<1>2. Cardinality(0..top) = top - 0 + 1
  BY <1>1, FS_Interval
<1>3. Cardinality(DiscSlots) = MAX_TOTAL_PAGES - MAX_PYSC_PAGES
  BY <1>1, <1>2
<1> QED
  BY <1>1, <1>3 DEF PageNos, MaxAge

(* The process after exec.                                                 *)
LEMMA InitInv == Init => IInv
<1> SUFFICES ASSUME Init PROVE IInv
  OBVIOUS
<1> USE LimitsAssumption, PagingBoundsAssumption, Sizes DEF Init
<1>0. /\ 0 \in PageNos /\ \A i \in {0, 1, 2} : i \in PageNos
      /\ \A i \in PhysSlots : i \in Nat
  BY DEF PageNos, PhysSlots
<1>1. TypeOK
  <2>1. phys \in [PhysSlots -> Phys]
    <3>1. \A i \in PhysSlots : phys[i] \in Phys
      <4> SUFFICES ASSUME NEW i \in PhysSlots PROVE phys[i] \in Phys
        OBVIOUS
      <4>1. CASE i < 3
        <5>1. i \in PageNos /\ FirstTimer + i \in 0..MaxTimer /\ 0 \in 0..MaxAge
          BY <1>0, <4>1 DEF FirstTimer
        <5> QED
          BY <4>1, <5>1 DEF Phys
      <4>2. CASE ~(i < 3)
        BY <1>0, <4>2 DEF Phys
      <4> QED
        BY <4>1, <4>2
    <3> QED
      BY <3>1
  <2>2. disc \in [DiscSlots -> Disc]
    BY <1>0 DEF Disc
  <2>3. pte \in [PageNos -> {"none", "P", "PG"}] /\ data \in [PageNos -> PageNos \cup {OldBytes}] /\ swapFile \in [DiscSlots -> PageNos \cup {OldBytes}]
    OBVIOUS
  <2>4. user \in [PageNos -> BOOLEAN]
    OBVIOUS
  <2>5. sz \in 0..MaxSize /\ timer \in 0..MaxTimer /\ fsize \in 0..Cardinality(DiscSlots) /\ newsz \in 0..MaxSize
    BY DEF FirstTimer
  <2> QED
    BY <2>1, <2>2, <2>3, <2>4, <2>5 DEF TypeOK, Phys, Disc
<1>2. GrowInv /\ FatalOnlyIfFull
  BY DEF GrowInv, FatalOnlyIfFull
<1>3. \A i \in PhysSlots : phys[i].isUsed => i < 3 /\ phys[i].va = i /\ phys[i].timer = FirstTimer + i
  OBVIOUS
<1>4. \A i \in DiscSlots : ~disc[i].isUsed
  OBVIOUS
<1>5. FileInv
  BY <1>0, <1>3, <1>4 DEF FileInv, FirstTimer
<1>6. TableInv
  <2>1. \A i \in PhysSlots : phys[i].isUsed => pte[phys[i].va] = "P"
    BY <1>0, <1>3
  <2>2. \A v \in PageNos : v \in Int /\ (pte[v] = "P" => data[v] = v) /\ pte[v] # "PG" /\ (v >= 3 => pte[v] = "none")
    BY DEF PageNos
  <2> QED
    BY <1>3, <1>4, <2>1, <2>2 DEF TableInv, Agree, End
<1> QED
  BY <1>1, <1>2, <1>5, <1>6 DEF IInv

(* deallocuvm keeps the types.                                             *)
LEMMA DeallocType ==
    ASSUME TypeOK, NEW lo \in Nat, NEW hi \in Nat, Dealloc(lo, hi)
    PROVE  /\ pte' \in [PageNos -> {"none", "P", "PG"}] /\ user' \in [PageNos -> BOOLEAN]
           /\ phys' \in [PhysSlots -> Phys] /\ disc' \in [DiscSlots -> Disc]
           /\ data' \in [PageNos -> PageNos \cup {OldBytes}] /\ swapFile' \in [DiscSlots -> PageNos \cup {OldBytes}]
<1> USE Sizes
<1>1. pte' \in [PageNos -> {"none", "P", "PG"}]
  BY DEF Dealloc, TypeOK
<1>2. user' \in [PageNos -> BOOLEAN]
  BY Zenon DEF Dealloc
<1>3. phys' \in [PhysSlots -> Phys]
  <2>1. \A i \in PhysSlots : phys[i] \in Phys /\ [phys[i] EXCEPT !.isUsed = FALSE, !.va = 0] \in Phys
    BY DEF TypeOK, Phys
  <2> QED
    BY <2>1 DEF Dealloc, removePhysicalPageMetaData
<1>4. disc' \in [DiscSlots -> Disc]
  <2>1. \A i \in DiscSlots : disc[i] \in Disc /\ [isUsed |-> FALSE, va |-> 0] \in Disc
    BY DEF TypeOK, Disc
  <2> QED
    BY <2>1 DEF Dealloc, removeDiscMetaData
<1>5. data' \in [PageNos -> PageNos \cup {OldBytes}] /\ swapFile' \in [DiscSlots -> PageNos \cup {OldBytes}]
  BY DEF Dealloc, TypeOK
<1> QED
  BY <1>1, <1>2, <1>3, <1>4, <1>5

(* Mapping page v keeps the types.                                         *)
LEMMA MapType ==
    ASSUME TypeOK, NEW v \in PageNos, NEW tbl \in [PageNos -> {"none", "P", "PG"}], NEW x \in PageNos \cup {OldBytes},
           pte' = [tbl EXCEPT ![v] = "P"], user' = [user EXCEPT ![v] = TRUE], data' = [data EXCEPT ![v] = x]
    PROVE  /\ pte' \in [PageNos -> {"none", "P", "PG"}] /\ user' \in [PageNos -> BOOLEAN]
           /\ data' \in [PageNos -> PageNos \cup {OldBytes}]
<1>1. pte' \in [PageNos -> {"none", "P", "PG"}] /\ data' \in [PageNos -> PageNos \cup {OldBytes}]
  BY DEF TypeOK
<1>2. user' \in [PageNos -> BOOLEAN]
  BY Zenon DEF TypeOK
<1> QED
  BY <1>1, <1>2

(* What a page moved out leaves keeps the types.                           *)
LEMMA EvictType ==
    ASSUME TypeOK, NEW i \in PhysSlots, NEW j \in DiscSlots
    PROVE  /\ phys[i].va \in PageNos
           /\ EvictedPte(i) \in [PageNos -> {"none", "P", "PG"}]
           /\ EvictedDisc(i, j) \in [DiscSlots -> Disc]
           /\ EvictedSwap(i, j) \in [DiscSlots -> PageNos \cup {OldBytes}]
           /\ FileGrown(j) \in 0..Cardinality(DiscSlots) /\ j < FileGrown(j) /\ fsize <= FileGrown(j)
<1>1. phys[i].va \in PageNos
  BY DEF TypeOK
<1>2. EvictedPte(i) \in [PageNos -> {"none", "P", "PG"}] /\ EvictedSwap(i, j) \in [DiscSlots -> PageNos \cup {OldBytes}]
  BY <1>1 DEF TypeOK, EvictedPte, EvictedSwap
<1>3. EvictedDisc(i, j) \in [DiscSlots -> Disc]
  <2>1. [isUsed |-> TRUE, va |-> phys[i].va] \in Disc /\ disc \in [DiscSlots -> Disc]
    BY <1>1 DEF TypeOK, Disc
  <2> QED
    BY <2>1 DEF EvictedDisc
<1>4. FileGrown(j) \in 0..Cardinality(DiscSlots) /\ j < FileGrown(j) /\ fsize <= FileGrown(j)
  BY Sizes, LimitsAssumption DEF FileGrown, TypeOK
<1> QED
  BY <1>1, <1>2, <1>3, <1>4

(* updatePhysicalPageMetaData keeps the types.                             *)
LEMMA TrackedType ==
    ASSUME TypeOK, NEW i \in PhysSlots, NEW v \in PageNos
    PROVE  Tracked(i, v) \in [PhysSlots -> Phys]
<1>1. [isUsed |-> TRUE, va |-> v, timer |-> timer, age |-> 0] \in Phys /\ phys \in [PhysSlots -> Phys]
  BY Sizes DEF TypeOK, Phys
<1> QED
  BY <1>1 DEF Tracked

-----------------------------------------------------------------------------
(* The actions.                                                            *)

(* A process that grows is at a page of its own that is not mapped yet.    *)
LEMMA GrowingPage ==
    ASSUME IInv, Growing
    PROVE  /\ a \in PageNos /\ a + 1 \in PageNos \cup {MaxSize} /\ a + 1 # NoPage
           /\ timer + 1 <= MaxTimer
           /\ sz <= a + 1 /\ a + 1 <= newsz /\ timer + 1 + (newsz - (a + 1)) <= MaxTimer
           /\ ~misread => pte[a] = "none"
<1> USE Sizes, PagingBoundsAssumption
<1>1. a \in Nat /\ a < newsz /\ newsz \in Nat /\ newsz <= MaxSize /\ timer \in Nat /\ sz \in Nat
  BY DEF Growing, IInv, TypeOK, NoPage, PageNos
<1>2. a \in PageNos /\ a + 1 \in PageNos \cup {MaxSize}
  BY <1>1
<1>3. a # NoPage
  BY DEF Growing
<1> QED
  BY <1>1, <1>2, <1>3 DEF IInv, GrowInv, TableInv, End, NoPage

(* GrowNext moves allocuvm's loop on by the page it has just mapped.       *)
LEMMA GrowNextInv ==
    ASSUME IInv, Growing, GrowNext, timer' \in {timer, timer + 1}
    PROVE  /\ GrowInv' /\ FatalOnlyIfFull' /\ timer' \in 0..MaxTimer
           /\ \A v \in PageNos : v >= End' => v > a /\ v >= End
<1>1. /\ a' = a + 1 /\ sz' = sz /\ newsz' = newsz /\ status' = "running" /\ a # NoPage
      /\ timer \in Nat /\ sz \in Nat /\ newsz \in Nat /\ a \in Nat
  BY GrowingPage DEF GrowNext, Growing, IInv, TypeOK, PageNos
<1>2. GrowInv' /\ timer' \in 0..MaxTimer
  <2>1. /\ sz <= a + 1 /\ a + 1 <= newsz /\ timer + 1 <= MaxTimer
        /\ timer + 1 + (newsz - (a + 1)) <= MaxTimer /\ MaxTimer \in Nat
    BY GrowingPage, PagingBoundsAssumption
  <2>2. timer' = timer \/ timer' = timer + 1
    OBVIOUS
  <2>3. timer' + (newsz - (a + 1)) <= MaxTimer /\ timer' \in 0..MaxTimer
    <3>1. CASE timer' = timer
      BY <1>1, <2>1, <3>1
    <3>2. CASE timer' = timer + 1
      BY <1>1, <2>1, <3>2
    <3> QED
      BY <2>2, <3>1, <3>2
  <2> QED
    BY <1>1, <2>1, <2>3 DEF GrowInv
<1>3. FatalOnlyIfFull'
  BY <1>1 DEF FatalOnlyIfFull
<1>4. End' = a + 1 /\ End = a
  BY <1>1 DEF End, NoPage
<1> QED
  BY <1>1, <1>2, <1>3, <1>4 DEF PageNos

(* allocuvm, with a free slot in RAM.                                      *)
LEMMA GrowPageInv ==
    ASSUME IInv, GrowPage
    PROVE  IInv'
<1> DEFINE r == Min(FreePhys)
<1>1. r \in PhysSlots /\ ~phys[r].isUsed
  BY FirstFree DEF GrowPage, spaceAvialableInMemory, FreePhys
<1>2. Growing /\ GrowNext /\ timer' = timer + 1 /\ UNCHANGED <<disc, swapFile, fsize>> /\ phys' = Tracked(r, a) /\ GrowMaps(pte)
  BY DEF GrowPage
<1> HIDE DEF r
<1>3. TypeOK /\ a \in PageNos /\ pte \in [PageNos -> {"none", "P", "PG"}]
  BY <1>2, GrowingPage DEF IInv, TypeOK
<1>4. GrowInv' /\ FatalOnlyIfFull' /\ timer' \in 0..MaxTimer /\ \A v \in PageNos : v >= End' => v > a /\ v >= End
  BY <1>2, GrowNextInv
<1>5. /\ pte' \in [PageNos -> {"none", "P", "PG"}] /\ user' \in [PageNos -> BOOLEAN]
      /\ data' \in [PageNos -> PageNos \cup {OldBytes}]
  BY <1>2, <1>3, MapType DEF GrowMaps
<1>6. phys' \in [PhysSlots -> Phys]
  BY <1>1, <1>2, <1>3, TrackedType
<1>7. TypeOK'
  BY <1>2, <1>3, <1>4, <1>5, <1>6, GrowingPage DEF TypeOK, Phys, GrowNext
<1>8. /\ phys'[r] = [isUsed |-> TRUE, va |-> a, timer |-> timer, age |-> 0]
      /\ \A k \in PhysSlots \ {r} : phys'[k] = phys[k]
  BY <1>1, <1>2, <1>3 DEF Tracked, TypeOK
<1>9. FileInv'
  BY <1>2, <1>3, <1>8 DEF FileInv, IInv, TypeOK
<1>10. TableInv'
  <2> SUFFICES ASSUME ~misread' PROVE Agree(pte', phys', disc', data', swapFile') /\ \A v \in PageNos : v >= End' => pte'[v] = "none"
    BY DEF TableInv, Agree
  <2>1. ~misread /\ Agree(pte, phys, disc, data, swapFile) /\ pte[a] = "none" /\ \A v \in PageNos : v >= End => pte[v] = "none"
    BY <1>2, GrowingPage DEF GrowNext, IInv, TableInv
  <2>2. Agree([pte EXCEPT ![a] = "P"], phys', disc, [data EXCEPT ![a] = a], swapFile)
    <3>1. \E s \in PhysSlots : ~phys[s].isUsed /\ phys'[s].va = a /\ \A k \in PhysSlots \ {s} : phys'[k] = phys[k]
      BY <1>1, <1>8
    <3> QED
      BY <1>3, <2>1, <3>1, AreTables, AgreeMap
  <2>3. \A v \in PageNos : v >= End' => pte'[v] = "none"
    BY <1>2, <1>3, <1>4, <2>1 DEF GrowMaps, PageNos
  <2> QED
    BY <1>2, <2>2, <2>3 DEF GrowMaps
<1> QED
  BY <1>4, <1>7, <1>9, <1>10 DEF IInv

(* allocuvm, when nothing can be moved out: the page is in no table.       *)
LEMMA GrowUntrackedInv ==
    ASSUME IInv, GrowUntracked
    PROVE  IInv'
<1>2. Growing /\ GrowNext /\ UNCHANGED <<phys, disc, swapFile, fsize, timer>> /\ GrowMaps(pte)
  BY DEF GrowUntracked
<1>3. TypeOK /\ a \in PageNos /\ pte \in [PageNos -> {"none", "P", "PG"}]
  BY <1>2, GrowingPage DEF IInv, TypeOK
<1>4. GrowInv' /\ FatalOnlyIfFull' /\ timer' \in 0..MaxTimer /\ \A v \in PageNos : v >= End' => v > a /\ v >= End
  BY <1>2, GrowNextInv
<1>5. /\ pte' \in [PageNos -> {"none", "P", "PG"}] /\ user' \in [PageNos -> BOOLEAN]
      /\ data' \in [PageNos -> PageNos \cup {OldBytes}]
  BY <1>2, <1>3, MapType DEF GrowMaps
<1>7. TypeOK'
  BY <1>2, <1>3, <1>4, <1>5, GrowingPage DEF TypeOK, GrowNext
<1>9. FileInv'
  BY <1>2 DEF FileInv, IInv
<1>10. TableInv'
  <2> SUFFICES ASSUME ~misread' PROVE Agree(pte', phys', disc', data', swapFile') /\ \A v \in PageNos : v >= End' => pte'[v] = "none"
    BY DEF TableInv, Agree
  <2>1. ~misread /\ Agree(pte, phys, disc, data, swapFile) /\ pte[a] = "none" /\ \A v \in PageNos : v >= End => pte[v] = "none"
    BY <1>2, GrowingPage DEF GrowNext, IInv, TableInv
  <2>2. Agree([pte EXCEPT ![a] = "P"], phys, disc, [data EXCEPT ![a] = a], swapFile)
    BY <1>3, <2>1, AreTables, AgreeMap
  <2>3. \A v \in PageNos : v >= End' => pte'[v] = "none"
    BY <1>2, <1>3, <1>4, <2>1 DEF GrowMaps, PageNos
  <2> QED
    BY <1>2, <2>2, <2>3 DEF GrowMaps
<1> QED
  BY <1>4, <1>7, <1>9, <1>10 DEF IInv

(* Moving a page out leaves tables that agree, its slot of RAM empty.      *)
LEMMA EvictAgrees ==
    ASSUME IInv, ~misread, NEW i \in PhysSlots, NEW j \in DiscSlots, EvictTo(i, j)
    PROVE  LET ph2 == [phys EXCEPT ![i] = [isUsed |-> FALSE, va |-> 0]]
           IN  /\ Tables(EvictedPte(i), ph2, EvictedDisc(i, j), data, EvictedSwap(i, j))
               /\ Agree(EvictedPte(i), ph2, EvictedDisc(i, j), data, EvictedSwap(i, j))
<1> DEFINE ph2 == [phys EXCEPT ![i] = [isUsed |-> FALSE, va |-> 0]]
<1>1. TypeOK /\ Agree(pte, phys, disc, data, swapFile)
  BY DEF IInv, TableInv
<1>2. DOMAIN ph2 = PhysSlots /\ ~ph2[i].isUsed /\ ph2[i].va \in PageNos /\ \A k \in PhysSlots \ {i} : ph2[k] = phys[k]
  BY <1>1, Sizes DEF TypeOK
<1> HIDE DEF ph2
<1>3. /\ phys[i].isUsed /\ ~disc[j].isUsed
      /\ \A k \in DiscSlots : ~disc[k].isUsed => j <= k
  BY <1>1, EvictFacts
<1>4. /\ Tables(EvictedPte(i), ph2, EvictedDisc(i, j), data, EvictedSwap(i, j))
      /\ Agree(EvictedPte(i), ph2, EvictedDisc(i, j), data, EvictedSwap(i, j))
  BY <1>1, <1>2, <1>3, AreTables, AgreeEvict DEF EvictedPte, EvictedDisc, EvictedSwap
<1> QED
  BY <1>4 DEF ph2

(* allocuvm, after reallocatePageInDisk has moved a page out.              *)
LEMMA GrowEvictInv ==
    ASSUME IInv, GrowEvict
    PROVE  IInv'
<1>1. PICK i \in PhysSlots, j \in DiscSlots :
        /\ EvictTo(i, j) /\ GrowMaps(EvictedPte(i)) /\ disc' = EvictedDisc(i, j) /\ swapFile' = EvictedSwap(i, j)
        /\ fsize' = FileGrown(j) /\ phys' = Tracked(i, a)
  BY DEF GrowEvict
<1>2. Growing /\ GrowNext /\ timer' = timer + 1
  BY DEF GrowEvict
<1>3. TypeOK /\ a \in PageNos
  BY <1>2, GrowingPage DEF IInv
<1>4. GrowInv' /\ FatalOnlyIfFull' /\ timer' \in 0..MaxTimer /\ \A v \in PageNos : v >= End' => v > a /\ v >= End
  BY <1>2, GrowNextInv
<1>5. /\ EvictedPte(i) \in [PageNos -> {"none", "P", "PG"}] /\ phys[i].va \in PageNos
      /\ disc' \in [DiscSlots -> Disc] /\ swapFile' \in [DiscSlots -> PageNos \cup {OldBytes}]
      /\ fsize' \in 0..Cardinality(DiscSlots) /\ j < fsize' /\ fsize <= fsize'
  BY <1>1, <1>3, EvictType
<1>6. /\ pte' \in [PageNos -> {"none", "P", "PG"}] /\ user' \in [PageNos -> BOOLEAN]
      /\ data' \in [PageNos -> PageNos \cup {OldBytes}]
  BY <1>1, <1>3, <1>5, MapType DEF GrowMaps
<1>7. phys' \in [PhysSlots -> Phys]
  BY <1>1, <1>3, TrackedType
<1>8. TypeOK'
  BY <1>2, <1>3, <1>4, <1>5, <1>6, <1>7, GrowingPage DEF TypeOK, Phys, Disc, GrowNext
<1>9. /\ phys'[i] = [isUsed |-> TRUE, va |-> a, timer |-> timer, age |-> 0]
      /\ \A k \in PhysSlots \ {i} : phys'[k] = phys[k]
      /\ \A k \in DiscSlots \ {j} : disc'[k] = disc[k]
  BY <1>1, <1>3 DEF Tracked, EvictedDisc, TypeOK
<1>10. FileInv'
  <2>1. \A k \in DiscSlots : k \in Int /\ fsize \in Int /\ fsize' \in Int
    BY <1>3, <1>5, Sizes DEF TypeOK
  <2>2. \A k \in DiscSlots : disc'[k].isUsed => k < fsize'
    BY <1>5, <1>9, <2>1 DEF FileInv, IInv
  <2>3. timer \in Nat /\ timer >= 1 /\ timer' >= 1
    BY <1>2, <1>3 DEF FileInv, IInv, TypeOK
  <2>4. \A k \in PhysSlots : phys'[k].isUsed => phys'[k].timer >= 1
    BY <1>9, <2>3 DEF FileInv, IInv
  <2> QED
    BY <2>2, <2>3, <2>4 DEF FileInv
<1>11. TableInv'
  <2> SUFFICES ASSUME ~misread' PROVE Agree(pte', phys', disc', data', swapFile') /\ \A v \in PageNos : v >= End' => pte'[v] = "none"
    BY DEF TableInv, Agree
  <2> DEFINE ph2 == [phys EXCEPT ![i] = [isUsed |-> FALSE, va |-> 0]]
  <2>1. ~misread /\ Agree(pte, phys, disc, data, swapFile) /\ pte[a] = "none" /\ \A v \in PageNos : v >= End => pte[v] = "none"
    BY <1>2, GrowingPage DEF GrowNext, IInv, TableInv
  <2>2. /\ Tables(EvictedPte(i), ph2, EvictedDisc(i, j), data, EvictedSwap(i, j))
        /\ Agree(EvictedPte(i), ph2, EvictedDisc(i, j), data, EvictedSwap(i, j))
    BY <1>1, <2>1, EvictAgrees
  <2>3. phys[i].isUsed /\ pte[phys[i].va] = "P"
    BY <1>1, <1>3, <2>1, EvictFacts DEF Agree
  <2>4. EvictedPte(i)[a] = "none"
    BY <1>3, <1>5, <2>1, <2>3 DEF EvictedPte, TypeOK
  <2>5. ~ph2[i].isUsed /\ phys'[i].va = a /\ \A k \in PhysSlots \ {i} : phys'[k] = ph2[k]
    BY <1>3, <1>9 DEF TypeOK
  <2> HIDE DEF ph2
  <2>6. Agree([EvictedPte(i) EXCEPT ![a] = "P"], phys', EvictedDisc(i, j), [data EXCEPT ![a] = a], EvictedSwap(i, j))
    BY <1>3, <2>2, <2>4, <2>5, AgreeMap
  <2>7. \A v \in PageNos : v >= End' => pte'[v] = "none"
    BY <1>1, <1>3, <1>4, <1>5, <2>1, <2>3 DEF GrowMaps, EvictedPte, TypeOK, PageNos
  <2> QED
    BY <1>1, <2>6, <2>7 DEF GrowMaps
<1> QED
  BY <1>4, <1>8, <1>10, <1>11 DEF IInv

(* deallocuvm, called to shrink or to give back what a failed growth got.  *)
LEMMA DeallocInv ==
    ASSUME IInv, NEW lo \in Nat, NEW hi \in Nat, Dealloc(lo, hi),
           status = "running", UNCHANGED <<timer, fsize, status, misread, R_ALGO>>,
           sz' \in 0..MaxSize, newsz' \in 0..MaxSize, a' = NoPage,
           \A v \in PageNos : v >= sz' => Gone(v, lo, hi) \/ v >= End
    PROVE  IInv'
<1>1. TypeOK
  BY DEF IInv
<1>2. TypeOK'
  BY <1>1, DeallocType DEF TypeOK, Phys, Disc
<1>3. GrowInv' /\ FatalOnlyIfFull'
  BY DEF GrowInv, FatalOnlyIfFull
<1>4. FileInv'
  <2>1. \A i \in DiscSlots : disc'[i].isUsed => disc[i].isUsed
    BY DEF Dealloc, removeDiscMetaData
  <2>2. ASSUME NEW i \in PhysSlots, phys'[i].isUsed PROVE phys[i].isUsed /\ phys'[i].timer = phys[i].timer
    <3>1. phys[i] \in Phys
      BY <1>1 DEF TypeOK, Phys
    <3>2. phys'[i] = phys[i] \/ phys'[i] = [phys[i] EXCEPT !.isUsed = FALSE, !.va = 0]
      BY DEF Dealloc, removePhysicalPageMetaData
    <3>3. [phys[i] EXCEPT !.isUsed = FALSE, !.va = 0].isUsed = FALSE
      BY <3>1 DEF Phys
    <3> QED
      BY <2>2, <3>2, <3>3
  <2> QED
    BY <2>1, <2>2 DEF FileInv, IInv
<1>5. TableInv'
  <2> SUFFICES ASSUME ~misread' PROVE Agree(pte', phys', disc', data', swapFile') /\ \A v \in PageNos : v >= sz' => pte'[v] = "none"
    BY DEF TableInv, Agree, End
  <2>1. Agree(pte, phys, disc, data, swapFile) /\ \A v \in PageNos : v >= End => pte[v] = "none"
    BY DEF IInv, TableInv
  <2>2. Agree(pte', phys', disc', data', swapFile')
    BY <1>1, <2>1, AgreeDealloc
  <2>3. \A v \in PageNos : v >= sz' => pte'[v] = "none"
    BY <2>1 DEF Dealloc
  <2> QED
    BY <2>2, <2>3
<1> QED
  BY <1>2, <1>3, <1>4, <1>5 DEF IInv

(* growproc(n), n < 0, and a growth that runs out of memory.               *)
LEMMA ShrinkInv ==
    ASSUME IInv, Shrink \/ GrowFails
    PROVE  IInv'
<1>1. sz \in Nat /\ sz <= MaxSize /\ newsz \in Nat /\ newsz <= MaxSize /\ MaxSize \in Nat
  BY PagingBoundsAssumption DEF IInv, TypeOK
<1>2. CASE Shrink
  <2>1. PICK n \in ShrinkArgs : sz - n > StackPage /\ Dealloc(sz - n, sz) /\ sz' = sz - n
    BY <1>2 DEF Shrink
  <2>2. n \in Nat /\ sz - n \in Nat /\ sz - n <= MaxSize
    BY <1>1, <2>1, PagingBoundsAssumption DEF StackPage
  <2>3. a = NoPage /\ status = "running" /\ UNCHANGED <<timer, fsize, newsz, a, status, misread, R_ALGO>>
    BY <1>2 DEF Shrink
  <2>4. \A v \in PageNos : v >= sz' => Gone(v, sz - n, sz) \/ v >= End
    BY <1>1, <2>1, <2>2, <2>3 DEF Gone, End, PageNos
  <2> QED
    BY <1>1, <2>1, <2>2, <2>3, <2>4, DeallocInv
<1>3. CASE GrowFails
  <2>1. Growing /\ Dealloc(sz, newsz) /\ a' = NoPage /\ newsz' = 0 /\ UNCHANGED <<sz, timer, fsize, status, misread, R_ALGO>>
    BY <1>3 DEF GrowFails
  <2>2. a # NoPage /\ a < newsz /\ status = "running" /\ a \in Int
    BY <2>1, GrowingPage DEF Growing, PageNos
  <2>3. \A v \in PageNos : v >= sz' => Gone(v, sz, newsz) \/ v >= End
    BY <1>1, <2>1, <2>2 DEF Gone, End, PageNos
  <2> QED
    BY <1>1, <2>1, <2>2, <2>3, DeallocInv
<1> QED
  BY <1>2, <1>3

(* retrievePage, once there is room in slot r: the tables it starts from   *)
(* are tbl, d and s, which are those of the process or what moving a page  *)
(* out has left.                                                           *)
LEMMA PageInInv ==
    ASSUME IInv, NEW v \in PageNos, Fault(v), NEW r \in PhysSlots,
           NEW tbl \in [PageNos -> {"none", "P", "PG"}], NEW d \in [DiscSlots -> Disc],
           NEW s \in [DiscSlots -> PageNos \cup {OldBytes}],
           fsize' \in 0..Cardinality(DiscSlots), \A k \in DiscSlots : d[k].isUsed => k < fsize',
           NEW ph0, ~misread => ~ph0[r].isUsed, \A l \in PhysSlots \ {r} : ph0[l] = phys[l],
           ~misread => /\ Tables(tbl, ph0, d, data, s) /\ Agree(tbl, ph0, d, data, s)
                       /\ \A u \in PageNos : u >= End => tbl[u] = "none",
           Retrieved(v, r, tbl, d, s)
    PROVE  IInv'
<1>0. TypeOK /\ timer \in Nat /\ timer < MaxTimer /\ MaxTimer \in Nat /\ timer >= 1 /\ a = NoPage /\ status = "running" /\ v < sz
  BY PagingBoundsAssumption DEF IInv, TypeOK, FileInv, Fault, Running
<1>1. PICK k \in DiscSlotOf(d, v) :
        /\ data' = [data EXCEPT ![v] = s[k]]
        /\ phys' = [phys EXCEPT ![r] = [isUsed |-> d[k].isUsed, va |-> v, timer |-> timer, age |-> 0]]
        /\ disc' = [d EXCEPT ![k].isUsed = FALSE]
        /\ misread' = (misread \/ ~d[k].isUsed)
  BY DEF Retrieved
<1>2. /\ pte' = [tbl EXCEPT ![v] = "P"] /\ user' = [user EXCEPT ![v] = TRUE] /\ swapFile' = s /\ timer' = timer + 1
      /\ UNCHANGED <<sz, newsz, a, status, R_ALGO>>
  BY DEF Retrieved
<1>3. k \in DiscSlots /\ d[k].va = v /\ d[k] \in Disc
  BY <1>1 DEF DiscSlotOf
<1>4. /\ pte' \in [PageNos -> {"none", "P", "PG"}] /\ user' \in [PageNos -> BOOLEAN]
      /\ data' \in [PageNos -> PageNos \cup {OldBytes}]
  <2>1. s[k] \in PageNos \cup {OldBytes}
    BY <1>3
  <2> QED
    BY <1>0, <1>1, <1>2, <2>1, MapType
<1>5. phys' \in [PhysSlots -> Phys]
  <2>1. d[k].isUsed \in BOOLEAN
    BY <1>3 DEF Disc
  <2>2. [isUsed |-> d[k].isUsed, va |-> v, timer |-> timer, age |-> 0] \in Phys /\ phys \in [PhysSlots -> Phys]
    BY <1>0, <2>1, Sizes DEF Phys, TypeOK
  <2> QED
    BY <1>1, <2>2
<1>6. /\ disc' \in [DiscSlots -> Disc]
      /\ ~disc'[k].isUsed /\ disc'[k].va = v /\ \A l \in DiscSlots \ {k} : disc'[l] = d[l]
  <2>1. [d[k] EXCEPT !.isUsed = FALSE] \in Disc /\ [d[k] EXCEPT !.isUsed = FALSE].va = v /\ ~[d[k] EXCEPT !.isUsed = FALSE].isUsed
    BY <1>3 DEF Disc
  <2>2. disc' = [d EXCEPT ![k] = [d[k] EXCEPT !.isUsed = FALSE]]
    BY <1>1
  <2> QED
    BY <1>3, <2>1, <2>2
<1>7. misread' \in BOOLEAN
  BY <1>1, Zenon
<1>8. TypeOK'
  <2>1. timer' \in 0..MaxTimer
    BY <1>0, <1>2
  <2> QED
    BY <1>0, <1>2, <1>4, <1>5, <1>6, <1>7, <2>1 DEF TypeOK, Phys, Disc
<1>9. GrowInv' /\ FatalOnlyIfFull'
  BY <1>0, <1>2 DEF GrowInv, FatalOnlyIfFull
<1>10. /\ phys'[r].va = v /\ phys'[r].timer = timer /\ \A l \in PhysSlots \ {r} : phys'[l] = phys[l]
  BY <1>0, <1>1 DEF TypeOK
<1>11. FileInv'
  <2>1. \A l \in DiscSlots : disc'[l].isUsed => l < fsize'
    BY <1>6
  <2>2. \A l \in PhysSlots : phys'[l].isUsed => phys'[l].timer >= 1
    BY <1>0, <1>10 DEF IInv, FileInv
  <2> QED
    BY <1>0, <1>2, <2>1, <2>2 DEF FileInv
<1>12. TableInv'
  <2> SUFFICES ASSUME ~misread' PROVE Agree(pte', phys', disc', data', swapFile') /\ \A u \in PageNos : u >= End' => pte'[u] = "none"
    BY DEF TableInv, Agree
  <2>1. ~misread /\ d[k].isUsed
    BY <1>1
  <2>2. ~ph0[r].isUsed /\ Tables(tbl, ph0, d, data, s) /\ Agree(tbl, ph0, d, data, s) /\ \A u \in PageNos : u >= End => tbl[u] = "none"
    BY <2>1
  <2>3. \A l \in PhysSlots \ {r} : phys'[l] = ph0[l]
    BY <1>10
  <2>4. Agree(pte', phys', disc', data', s)
    <3> DEFINE ph2 == phys'
               di2 == disc'
               pt2 == pte'
               da2 == data'
    <3>1. ph2[r].va = v /\ \A l \in PhysSlots \ {r} : ph2[l] = ph0[l]
      BY <1>10, <2>3
    <3>2. ~di2[k].isUsed /\ di2[k].va = v /\ \A l \in DiscSlots \ {k} : di2[l] = d[l]
      BY <1>6
    <3>3. pt2 = [tbl EXCEPT ![v] = "P"] /\ da2 = [data EXCEPT ![v] = s[k]]
      BY <1>1, <1>2
    <3> HIDE DEF ph2, di2, pt2, da2
    <3>4. BroughtIn(tbl, ph0, d, data, s, v, k, r, pt2, ph2, di2, da2)
      BY <1>3, <2>1, <2>2, <3>1, <3>2, <3>3 DEF BroughtIn
    <3>5. Agree(pt2, ph2, di2, da2, s)
      BY <2>2, <3>4, AgreePageIn
    <3> QED
      BY <3>5 DEF ph2, di2, pt2, da2
  <2>5. \A u \in PageNos : u >= End' => pte'[u] = "none"
    BY <1>0, <1>2, <2>2 DEF End, PageNos, TypeOK
  <2> QED
    BY <1>1, <1>2, <2>4, <2>5
<1> QED
  BY <1>8, <1>9, <1>11, <1>12 DEF IInv

(* retrievePage with a free slot in RAM, and after moving a page out.      *)
LEMMA FaultInv ==
    ASSUME IInv, NEW v \in PageNos, FaultFree(v) \/ FaultSwap(v)
    PROVE  IInv'
<1>0. TypeOK /\ Fault(v)
  BY DEF IInv, FaultFree, FaultSwap
<1>1. CASE FaultFree(v)
  <2>1. Retrieved(v, Min(FreePhys), pte, disc, swapFile) /\ fsize' = fsize
    BY <1>1 DEF FaultFree
  <2>2. Min(FreePhys) \in PhysSlots /\ ~phys[Min(FreePhys)].isUsed
    BY <1>1, FirstFree DEF FaultFree, spaceAvialableInMemory, FreePhys
  <2>3. /\ pte \in [PageNos -> {"none", "P", "PG"}] /\ disc \in [DiscSlots -> Disc]
        /\ swapFile \in [DiscSlots -> PageNos \cup {OldBytes}] /\ fsize' \in 0..Cardinality(DiscSlots)
    BY <1>0, <2>1 DEF TypeOK, Disc
  <2>4. \A k \in DiscSlots : disc[k].isUsed => k < fsize'
    BY <2>1 DEF IInv, FileInv
  <2>5. ~misread => /\ Tables(pte, phys, disc, data, swapFile) /\ Agree(pte, phys, disc, data, swapFile)
                    /\ \A u \in PageNos : u >= End => pte[u] = "none"
    BY <1>0, AreTables DEF IInv, TableInv
  <2> DEFINE r == Min(FreePhys)
  <2>6. r \in PhysSlots /\ ~phys[r].isUsed /\ Retrieved(v, r, pte, disc, swapFile)
    BY <2>1, <2>2
  <2> HIDE DEF r
  <2> QED
    BY <1>0, <2>3, <2>4, <2>5, <2>6, PageInInv
<1>2. CASE FaultSwap(v)
  <2>1. PICK i \in PhysSlots, j \in DiscSlots :
          EvictTo(i, j) /\ Retrieved(v, i, EvictedPte(i), EvictedDisc(i, j), EvictedSwap(i, j)) /\ fsize' = FileGrown(j)
    BY <1>2 DEF FaultSwap
  <2>2. /\ EvictedPte(i) \in [PageNos -> {"none", "P", "PG"}] /\ EvictedDisc(i, j) \in [DiscSlots -> Disc]
        /\ EvictedSwap(i, j) \in [DiscSlots -> PageNos \cup {OldBytes}]
        /\ phys[i].va \in PageNos
        /\ fsize' \in 0..Cardinality(DiscSlots) /\ j < fsize' /\ fsize <= fsize'
    BY <1>0, <2>1, EvictType
  <2>3. \A k \in DiscSlots : EvictedDisc(i, j)[k].isUsed => k < fsize'
    <3>1. \A k \in DiscSlots : k \in Int /\ fsize \in Int /\ fsize' \in Int
      BY <1>0, <2>2, Sizes DEF TypeOK
    <3>2. \A k \in DiscSlots \ {j} : EvictedDisc(i, j)[k] = disc[k]
      BY <1>0 DEF EvictedDisc, TypeOK
    <3> QED
      BY <2>2, <3>1, <3>2 DEF IInv, FileInv
  <2> DEFINE ph0 == [phys EXCEPT ![i] = [isUsed |-> FALSE, va |-> 0]]
  <2>4. ~misread => ~ph0[i].isUsed
    BY <1>0 DEF TypeOK
  <2>5. \A l \in PhysSlots \ {i} : ph0[l] = phys[l]
    BY <1>0 DEF TypeOK
  <2>6. ~misread => /\ Tables(EvictedPte(i), ph0, EvictedDisc(i, j), data, EvictedSwap(i, j))
                    /\ Agree(EvictedPte(i), ph0, EvictedDisc(i, j), data, EvictedSwap(i, j))
    BY <2>1, EvictAgrees
  <2>7. ~misread => \A u \in PageNos : u >= End => EvictedPte(i)[u] = "none"
    <3> SUFFICES ASSUME ~misread, NEW u \in PageNos, u >= End PROVE EvictedPte(i)[u] = "none"
      OBVIOUS
    <3>1. pte[u] = "none" /\ phys[i].isUsed /\ pte[phys[i].va] = "P"
      BY <1>0, <2>1, EvictFacts DEF IInv, TableInv, Agree
    <3> QED
      BY <1>0, <2>2, <3>1 DEF EvictedPte, TypeOK
  <2> HIDE DEF ph0
  <2> QED
    BY <1>0, <2>1, <2>2, <2>3, <2>4, <2>5, <2>6, <2>7, PageInInv
<1> QED
  BY <1>1, <1>2

(* retrievePage gives up only if nothing can be moved out: the swap file   *)
(* takes the first free slot, since used slots leave no hole before it.    *)
LEMMA FaultKillsInv ==
    ASSUME IInv, NEW v \in PageNos, FaultKills(v)
    PROVE  IInv'
<1> USE DEF FaultKills
<1>1. ASSUME spaceAvialableInDisk, ~(R_ALGO = 2 /\ \A i \in PhysSlots : phys[i].age = MaxAge) PROVE FALSE
  <2> DEFINE j == Min(FreeDiscSlots)
  <2>1. j \in FreeDiscSlots /\ \A k \in FreeDiscSlots : j <= k
    BY <1>1, FirstFree DEF spaceAvialableInDisk
  <2>2. j \in getAvailablePageIndexDisk /\ j \in DiscSlots
    BY <1>1, <2>1 DEF getAvailablePageIndexDisk, spaceAvialableInDisk, FreeDiscSlots
  <2> HIDE DEF j
  <2>3. j <= fsize
    <3>1. fsize \in Nat /\ fsize <= Cardinality(DiscSlots) /\ j \in Nat /\ j + 1 <= Cardinality(DiscSlots) /\ Cardinality(DiscSlots) \in Nat
      BY <2>2, Sizes, LimitsAssumption DEF IInv, TypeOK
    <3>2. CASE fsize = Cardinality(DiscSlots)
      BY <3>1, <3>2
    <3>3. CASE fsize < Cardinality(DiscSlots)
      <4>1. fsize \in DiscSlots
        BY <3>1, <3>3, Sizes
      <4>2. fsize \in FreeDiscSlots
        BY <3>1, <4>1 DEF IInv, FileInv, FreeDiscSlots
      <4> QED
        BY <2>1, <4>2
    <3> QED
      BY <3>1, <3>2, <3>3
  <2>4. PICK i \in PhysSlots : i \in getReplacementPageIndexPhyMem
    BY <1>1, FindsVictim DEF IInv
  <2> QED
    BY <2>2, <2>3, <2>4 DEF CannotEvict, EvictTo, writeToSwapFile
<1>2. FatalOnlyIfFull'
  BY <1>1 DEF FatalOnlyIfFull, spaceAvialableInMemory, spaceAvialableInDisk, FreePhys, FreeDiscSlots
<1>3. TypeOK'
  BY DEF IInv, TypeOK
<1>4. GrowInv' /\ FileInv' /\ TableInv'
  BY DEF IInv, GrowInv, FileInv, TableInv, Agree, End
<1> QED
  BY <1>2, <1>3, <1>4 DEF IInv

(* growproc and allocuvm's entry and exit: the loop starts at the first    *)
(* page that is not mapped, and leaves the process with what it has mapped. *)
LEMMA GrowEndsInv ==
    ASSUME IInv, GrowStart \/ GrowDone
    PROVE  IInv'
<1>0. /\ TypeOK /\ sz \in Int /\ newsz \in Int /\ timer \in Nat /\ MaxSize \in Nat /\ MaxTimer \in Nat
      /\ status' = "running" /\ UNCHANGED <<pte, user, phys, disc, timer, data, swapFile, fsize, misread, R_ALGO>>
  BY PagingBoundsAssumption DEF IInv, TypeOK, GrowStart, GrowDone
<1>1. /\ sz' \in 0..MaxSize /\ newsz' \in 0..MaxSize /\ a' \in PageNos \cup {NoPage, MaxSize}
      /\ GrowInv' /\ End' = End
  <2>1. CASE GrowStart
    <3>1. PICK n \in GrowArgs : sz + n <= MaxSize /\ timer + n <= MaxTimer /\ newsz' = sz + n
      BY <2>1 DEF GrowStart
    <3>2. n \in Nat /\ a = NoPage /\ a' = sz /\ sz' = sz /\ sz >= 0 /\ sz <= MaxSize
      BY <1>0, <2>1, PagingBoundsAssumption DEF GrowStart, TypeOK
    <3>3. sz \in PageNos \cup {MaxSize} /\ sz # NoPage
      BY <1>0, <3>2 DEF PageNos, NoPage
    <3>4. GrowInv'
      BY <1>0, <3>1, <3>2 DEF GrowInv
    <3> QED
      BY <1>0, <3>1, <3>2, <3>3, <3>4 DEF End
  <2>2. CASE GrowDone
    BY <1>0, <2>2 DEF GrowDone, GrowInv, End, TypeOK
  <2> QED
    BY <2>1, <2>2
<1>2. TypeOK'
  BY <1>0, <1>1 DEF TypeOK
<1>3. FileInv' /\ FatalOnlyIfFull'
  BY <1>0 DEF IInv, FileInv, FatalOnlyIfFull
<1>4. TableInv'
  <2>1. Agree(pte, phys, disc, data, swapFile)' <=> Agree(pte, phys, disc, data, swapFile)
    BY <1>0 DEF Agree
  <2> QED
    BY <1>0, <1>1, <2>1 DEF IInv, TableInv
<1> QED
  BY <1>1, <1>2, <1>3, <1>4 DEF IInv

(* A store reaches a present page, which has no slot of the swap file in   *)
(* use: the copies it makes out of date are ones left behind.              *)
LEMMA WriteInv ==
    ASSUME IInv, NEW v \in PageNos, Write(v)
    PROVE  IInv'
<1>0. TypeOK /\ pte[v] = "P"
  BY DEF IInv, Write
<1>1. /\ data' = [data EXCEPT ![v] = v] /\ swapFile' = Outdated(swapFile, v)
      /\ UNCHANGED <<sz, pte, user, phys, disc, timer, fsize, newsz, a, status, misread, R_ALGO>>
  BY DEF Write
<1>2. data' \in [PageNos -> PageNos \cup {OldBytes}] /\ swapFile' \in [DiscSlots -> PageNos \cup {OldBytes}]
  BY <1>0, <1>1 DEF TypeOK, Outdated
<1>3. TypeOK'
  BY <1>0, <1>1, <1>2 DEF TypeOK
<1>4. GrowInv' /\ FileInv'
  BY <1>1 DEF IInv, GrowInv, FileInv
<1>5. FatalOnlyIfFull'
  BY <1>1 DEF IInv, FatalOnlyIfFull, spaceAvialableInMemory, spaceAvialableInDisk, FreePhys, FreeDiscSlots
<1>6. TableInv'
  <2> SUFFICES ASSUME ~misread' PROVE Agree(pte', phys', disc', data', swapFile') /\ \A u \in PageNos : u >= End' => pte'[u] = "none"
    BY DEF TableInv, Agree
  <2>1. Agree(pte, phys, disc, data, swapFile) /\ \A u \in PageNos : u >= End => pte[u] = "none"
    BY <1>1 DEF IInv, TableInv
  <2>2. \A i \in DiscSlots : disc[i].isUsed => disc[i].va \in PageNos /\ disc[i].va # v /\ swapFile[i] = disc[i].va
    BY <1>0, <2>1 DEF Agree, TypeOK
  <2>3. \A i \in DiscSlots : disc[i].isUsed => swapFile'[i] = disc[i].va
    BY <1>1, <2>2 DEF Outdated
  <2>4. \A u \in PageNos : pte[u] = "P" => data'[u] = u
    BY <1>0, <1>1, <2>1 DEF Agree, TypeOK
  <2>5. Agree(pte, phys, disc, data', swapFile')
    BY <2>1, <2>3, <2>4 DEF Agree
  <2> QED
    BY <1>1, <2>1, <2>5 DEF End
<1> QED
  BY <1>3, <1>4, <1>5, <1>6 DEF IInv

(* Accesses that end the process or the kernel, and the fault that has no  *)
(* frame left: the tables stay as they are.                                *)
LEMMA EndsInv ==
    ASSUME IInv, NEW v \in PageNos, BadAccess(v) \/ KernelAccess(v) \/ FaultNoFrame(v)
    PROVE  IInv'
<1>1. /\ status' \in {"killed_access", "panic", "undefined"}
      /\ UNCHANGED <<sz, pte, user, phys, disc, timer, data, swapFile, fsize, newsz, a, misread, R_ALGO>>
  BY DEF BadAccess, KernelAccess, FaultNoFrame
<1>2. TypeOK' /\ GrowInv' /\ FileInv' /\ FatalOnlyIfFull'
  BY <1>1 DEF IInv, TypeOK, GrowInv, FileInv, FatalOnlyIfFull
<1>3. TableInv'
  BY <1>1 DEF IInv, TableInv, Agree, End
<1> QED
  BY <1>2, <1>3 DEF IInv

(* updateAgeForSingleProcess: halving a counter makes room for the top     *)
(* bit, so the counter does not overflow, and nothing else of a slot       *)
(* changes.                                                                *)
LEMMA TickInv ==
    ASSUME IInv, NEW touched \in SUBSET PageNos, Tick(touched)
    PROVE  IInv'
<1>0. TypeOK /\ status' = "running" /\ UNCHANGED <<sz, pte, user, disc, timer, data, swapFile, fsize, newsz, a, status, misread, R_ALGO>>
  BY DEF IInv, Tick
<1> DEFINE aged(i) == [phys[i] EXCEPT !.age = (@ \div 2) + AgeTop]
<1>1. \A i \in PhysSlots : /\ phys[i] \in Phys /\ aged(i) \in Phys
                           /\ aged(i).isUsed = phys[i].isUsed /\ aged(i).va = phys[i].va /\ aged(i).timer = phys[i].timer
  <2> SUFFICES ASSUME NEW i \in PhysSlots
               PROVE  /\ phys[i] \in Phys /\ aged(i) \in Phys
                      /\ aged(i).isUsed = phys[i].isUsed /\ aged(i).va = phys[i].va /\ aged(i).timer = phys[i].timer
    OBVIOUS
  <2>1. phys[i] \in Phys
    BY <1>0 DEF TypeOK, Phys
  <2>2. AgeTop \in Nat \ {0} /\ phys[i].age \in 0..(2 * AgeTop - 1)
    BY <2>1, PagingBoundsAssumption DEF Phys, MaxAge
  <2>3. (phys[i].age \div 2) + AgeTop \in 0..MaxAge
    BY <2>2 DEF MaxAge
  <2> QED
    BY <2>1, <2>3 DEF Phys
<1>2. phys' \in [PhysSlots -> Phys] /\ \A i \in PhysSlots : /\ phys'[i].isUsed = phys[i].isUsed /\ phys'[i].va = phys[i].va
                                                            /\ phys'[i].timer = phys[i].timer
  <2>1. phys' = [i \in PhysSlots |-> IF phys[i].isUsed /\ phys[i].va \in touched THEN aged(i) ELSE phys[i]]
    BY DEF Tick
  <2> HIDE DEF aged
  <2> QED
    BY <1>1, <2>1
<1>3. TypeOK'
  BY <1>0, <1>2 DEF TypeOK, Phys
<1>4. GrowInv' /\ FileInv' /\ FatalOnlyIfFull'
  BY <1>0, <1>2 DEF IInv, GrowInv, FileInv, FatalOnlyIfFull
<1>5. TableInv'
  BY <1>0, <1>2 DEF IInv, TableInv, Agree, End
<1> QED
  BY <1>3, <1>4, <1>5 DEF IInv

(* Every step of the process or of its kernel code keeps the invariant.    *)
LEMMA NextInv == IInv /\ [Next]_vars => IInv'
<1> SUFFICES ASSUME IInv, [Next]_vars PROVE IInv'
  OBVIOUS
<1>1. CASE UNCHANGED vars
  BY <1>1 DEF vars, IInv, TypeOK, GrowInv, FileInv, TableInv, FatalOnlyIfFull, Agree, End,
              spaceAvialableInMemory, spaceAvialableInDisk, FreePhys, FreeDiscSlots
<1>2. CASE \E touched \in SUBSET PageNos : Tick(touched)
  BY <1>2, TickInv
<1>3. CASE GrowStart \/ GrowDone
  BY <1>3, GrowEndsInv
<1>4. CASE GrowPage
  BY <1>4, GrowPageInv
<1>5. CASE GrowEvict
  BY <1>5, GrowEvictInv
<1>6. CASE GrowUntracked
  BY <1>6, GrowUntrackedInv
<1>7. CASE GrowFails \/ Shrink
  BY <1>7, ShrinkInv
<1>8. CASE \E v \in PageNos : Write(v)
  BY <1>8, WriteInv
<1>9. CASE \E v \in PageNos : BadAccess(v) \/ KernelAccess(v) \/ FaultNoFrame(v)
  BY <1>9, EndsInv
<1>10. CASE \E v \in PageNos : FaultFree(v) \/ FaultSwap(v)
  BY <1>10, FaultInv
<1>11. CASE \E v \in PageNos : FaultKills(v)
  BY <1>11, FaultKillsInv
<1> QED
  BY <1>1, <1>2, <1>3, <1>4, <1>5, <1>6, <1>7, <1>8, <1>9, <1>10, <1>11 DEF Next

(* The inductive invariant holds in every state the process reaches.       *)
THEOREM Invariance == Spec => []IInv
BY InitInv, NextInv, PTL DEF Spec

(* The page table, pagesInPhysicalMemory and pagesInDisc agree whatever    *)
(* the program and the replacement algorithm do, until a fault has read a  *)
(* slot that was not in use.                                               *)
THEOREM TablesAlwaysAgree == Spec => []TablesAgree
<1>1. IInv => TablesAgree
  BY DEF IInv, TableInv, Agree, TablesAgree, UsedPhys, FreePhys, FreeDiscSlots
<1> QED
  BY <1>1, Invariance, PTL

(* Every page keeps the bytes last written to it, and retrievePage's       *)
(* search by address comes to the slot that has them (page 0 aside).       *)
THEOREM BytesAreFound == Spec => []BytesFound
<1>1. ASSUME IInv, ~misread PROVE BytesFound
  <2>1. Mapped \subseteq PageNos /\ CodePage = 0
    <3>1. a # NoPage => a <= newsz
      BY <1>1 DEF IInv, GrowInv
    <3> QED
      BY <1>1, <3>1, PagingBoundsAssumption DEF IInv, TypeOK, Mapped, PageNos, NoPage, CodePage
  <2>2. Agree(pte, phys, disc, data, swapFile) /\ \A i \in DiscSlots : disc[i].va \in PageNos /\ i \in Int
    BY <1>1, Sizes DEF IInv, TableInv, TypeOK
  <2>3. BytesKept
    BY <2>1, <2>2 DEF BytesKept, Agree, FreeDiscSlots
  <2>4. ASSUME NEW v \in Mapped \ {CodePage}, pte[v] = "PG", NEW k \in DiscSlotOf(disc, v) PROVE k \in DiscSlots \ FreeDiscSlots
    <3>1. PICK i \in DiscSlots : disc[i].isUsed /\ disc[i].va = v
      BY <2>1, <2>2, <2>4 DEF Agree
    <3>2. k \in DiscSlots /\ disc[k].va = v /\ k <= i
      BY <2>4, <3>1 DEF DiscSlotOf
    <3>3. i <= k
      BY <2>2, <2>4, <3>1, <3>2 DEF Agree
    <3> QED
      BY <2>2, <3>1, <3>2, <3>3 DEF FreeDiscSlots
  <2> QED
    BY <2>3, <2>4 DEF BytesFound, SearchFindsOwnSlot
<1>2. IInv => BytesFound
  BY <1>1 DEF BytesFound, BytesKept, SearchFindsOwnSlot
<1> QED
  BY <1>2, Invariance, PTL

(* A page fault kills the process only when RAM and swap file are full, or *)
(* AGING finds every counter saturated; the file never refuses a write.    *)
THEOREM FatalWhenFull == Spec => []FatalOnlyIfFull
<1>1. IInv => FatalOnlyIfFull
  BY DEF IInv
<1> QED
  BY <1>1, Invariance, PTL
=============================================================================
