------------------------------ MODULE UMalloc ------------------------------
(***************************************************************************)
(* malloc and free (umalloc.c): a circular free list in address order with *)
(* a roving start, over a heap that sbrk extends.  Addresses and sizes are *)
(* in units of a header; malloc is asked for bytes.  hdr has an entry for  *)
(* every block, free or not; what else lies in memory is never read.  The  *)
(* ptr of a block handed out is never read either and is 0.                *)
(*                                                                         *)
(* The sizes asked for are below those for which the uint nbytes + 7, or   *)
(* the int nu * sizeof(Header) that sbrk gets, would wrap.                 *)
(***************************************************************************)
EXTENDS Integers, FiniteSets

CONSTANTS MinCore,    \* least number of units morecore asks for (4096)
          HeapEnd,    \* sbrk fails beyond this address
          Header,     \* sizeof(Header)
          Sizes       \* bytes asked for

VARIABLES hdr,        \* hdr[a]: the header at address a
          freep,      \* 0 before the first malloc
          brk,        \* the end of the heap
          live        \* blocks handed out

Base  == 1                    \* the static header
Heap  == 3                    \* where the heap starts
Ptr(h, a)  == h[a].ptr
Put(h, a, ptr, size) == [x \in DOMAIN h \cup {a} |-> IF x = a THEN [ptr |-> ptr, size |-> size] ELSE h[x]]
Without(h, a) == [x \in DOMAIN h \ {a} |-> h[x]]

\* Mutant: the remainder of a unit is not paid for.
M_nunits_RoundsDown(nbytes) == nbytes \div Header + 1
\* The units for a block of nbytes, its header included.
nunits(nbytes) == (nbytes + Header - 1) \div Header + 1

RECURSIVE Place(_, _, _), Search(_, _, _, _, _)
\* The loop of free: the list element after which the block at bp belongs.
Place(h, p, bp) ==
    IF \/ bp > p /\ bp < Ptr(h, p)
       \/ p >= Ptr(h, p) /\ (bp > p \/ bp < Ptr(h, p))
    THEN p ELSE Place(h, Ptr(h, p), bp)

\* free of the block at bp: joined with its upper, then its lower neighbour.
M_Joined_UpperOnly(h, p, bp) ==
    LET n == Ptr(h, p)
        u == IF bp + h[bp].size = n
             THEN Put(Without(h, n), bp, Ptr(h, n), h[bp].size + h[n].size)
             ELSE Put(h, bp, n, h[bp].size)
    IN Put(u, p, bp, u[p].size)
Joined(h, p, bp) ==
    LET n == Ptr(h, p)
        u == IF bp + h[bp].size = n
             THEN Put(Without(h, n), bp, Ptr(h, n), h[bp].size + h[n].size)
             ELSE Put(h, bp, n, h[bp].size)
    IN IF p + u[p].size = bp
       THEN Put(Without(u, bp), p, Ptr(u, bp), u[p].size + u[bp].size)
       ELSE Put(u, p, bp, u[p].size)

\* morecore: the new memory is one block, freed into the list.
Core(n)    == IF n < MinCore THEN MinCore ELSE n
morecore(h, fp, n) == LET g == Put(h, brk, 0, Core(n)) IN [h |-> Joined(g, Place(g, fp, brk), brk),
                                                        p |-> Place(g, fp, brk)]

M_Fits_Loose(size, n) == size + 1 >= n
Fits(size, n) == size >= n
\* The loop of malloc, first fit from freep on; grown says that morecore ran.
Search(h, prev, p, fp, n) ==
    IF Fits(h[p].size, n)
    THEN IF h[p].size <= n
         THEN [ok |-> TRUE, fp |-> prev, at |-> p,
               h |-> Put(Put(h, prev, Ptr(h, p), h[prev].size), p, 0, n)]
         ELSE LET rest == h[p].size - n
              IN [ok |-> TRUE, fp |-> prev, at |-> p + rest,
                  h |-> Put(Put(h, p, Ptr(h, p), rest), p + rest, 0, n)]
    ELSE IF p = fp THEN [ok |-> FALSE, h |-> h, fp |-> fp, at |-> p]
    ELSE Search(h, p, Ptr(h, p), fp, n)

Init == hdr = [a \in {Base} |-> [ptr |-> 0, size |-> 0]] /\ freep = 0 /\ brk = Heap /\ live = {}

malloc(nbytes) ==
    LET n == nunits(nbytes)
        h == IF freep = 0 THEN Put(hdr, Base, Base, 0) ELSE hdr
        f == IF freep = 0 THEN Base ELSE freep
        s == Search(h, f, Ptr(h, f), f, n)
        m == morecore(h, f, n)
        t == Search(m.h, m.p, Ptr(m.h, m.p), m.p, n)
    IN IF s.ok \/ brk + Core(n) <= HeapEnd
       THEN LET g == IF s.ok THEN s ELSE t IN
            /\ hdr' = g.h /\ freep' = g.fp
            /\ brk' = IF s.ok THEN brk ELSE brk + Core(n)
            /\ live' = live \cup {[at |-> g.at, nbytes |-> nbytes]}
       ELSE hdr' = h /\ freep' = f /\ UNCHANGED <<brk, live>>

free(b) ==
    LET p == Place(hdr, freep, b.at) IN
    /\ hdr' = Joined(hdr, p, b.at) /\ freep' = p
    /\ live' = live \ {b} /\ UNCHANGED brk

Next == (\E nbytes \in Sizes : malloc(nbytes)) \/ (\E b \in live : free(b))
----------------------------------------------------------------------------
RECURSIVE OnList(_, _)
OnList(a, seen) == IF a \in seen THEN seen ELSE OnList(hdr[a].ptr, seen \cup {a})
FreeBlocks == IF freep = 0 THEN {} ELSE OnList(freep, {}) \ {Base}
Units(a, n) == a .. a + n - 1
\* The heap is cut into blocks that are free or handed out, without a gap and
\* without an overlap, and a block handed out has room for the bytes asked for
\* behind its header: nothing is lost or given to two callers by splitting,
\* joining or growing.
HeapPartitioned ==
    LET blocks == FreeBlocks \cup {b.at : b \in live}
        Block(a) == Units(a, hdr[a].size)
    IN
    /\ UNION {Block(a) : a \in blocks} = Heap .. brk - 1
    /\ \A a, c \in blocks : a # c => Block(a) \cap Block(c) = {}
    /\ \A b, c \in live : b # c => b.at # c.at
    /\ \A b \in live : b.at \notin FreeBlocks /\ b.nbytes <= (hdr[b.at].size - 1) * Header
\* No two free blocks touch: free joins with both neighbours, so memory that
\* was all given back is one block again.
FreeBlocksJoined == \A a, c \in FreeBlocks : a + hdr[a].size # c
============================================================================
