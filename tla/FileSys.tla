------------------------------ MODULE FileSys ------------------------------
(***************************************************************************)
(* The file system above the log: block allocator, inodes and their cache, *)
(* directories and path names (fs.c) as operators on one file-system       *)
(* state.  Below it, BlockIO.tla gives every block one coherent copy and   *)
(* Log.tla makes a system call's writes atomic, so a state here is what    *)
(* the running kernel sees.                                                *)
(*                                                                         *)
(* A block holds BSIZE cells.  A cell is a directory entry, a block number *)
(* in an indirect block or a byte of a file; it is a pair of a number and  *)
(* a string, so that a block freed by one kind of file and reused by       *)
(* another keeps whatever it held until balloc clears it.                  *)
(***************************************************************************)
EXTENDS Integers, Sequences, FiniteSets, SequencesExt, TLC

CONSTANTS NINODES,     \* sb.ninodes: inode numbers are 1 .. NINODES - 1
          NBLOCKS,     \* sb.nblocks: data blocks are 1 .. NBLOCKS
          BSIZE,       \* cells in a block
          NDIRECT,     \* direct block addresses in an inode
          NINDIRECT,   \* addresses in an indirect block
          NINODE,      \* entries of the inode cache
          LongNames    \* names over DIRSIZ characters, and what is left of them

ASSUME FileSysAssumption ==
    /\ \A n \in {NINODES, NBLOCKS, BSIZE, NDIRECT, NINDIRECT, NINODE} : n \in Nat \ {0}
    /\ NINDIRECT <= BSIZE

ROOTINO  == 1
MAXFILE  == NDIRECT + NINDIRECT
Inums    == 1 .. NINODES - 1
BlockNos == 1 .. NBLOCKS
Slots    == 1 .. NINODE
Types    == {"none", "dir", "file", "dev"}

Cell(n, s) == [n |-> n, s |-> s]
ZeroCell   == Cell(0, "")
ZeroBlock  == [i \in 0 .. BSIZE - 1 |-> ZeroCell]
NoAddrs    == [i \in 0 .. NDIRECT |-> 0]

FreshInode(type) == [type |-> type, nlink |-> 0, size |-> 0, addrs |-> NoAddrs]
EmptySlot == [inum |-> 0, ref |-> 0, valid |-> FALSE] @@ FreshInode("none")

Panic(fs, why) == IF fs.panic = "" THEN [fs EXCEPT !.panic = why] ELSE fs
Least(S)       == CHOOSE x \in S : \A y \in S : x <= y

(***************************************************************************)
(* Blocks                                                                  *)
(***************************************************************************)
FreeBlocks(fs) == BlockNos \ fs.bmap

M_balloc_Dirty(fs) ==
    LET b == Least(FreeBlocks(fs)) IN
    IF FreeBlocks(fs) = {} THEN [fs |-> Panic(fs, "balloc: out of blocks"), b |-> 0]
    ELSE [fs |-> [fs EXCEPT !.bmap = @ \cup {b}], b |-> b]
balloc(fs) ==
    IF FreeBlocks(fs) = {} THEN [fs |-> Panic(fs, "balloc: out of blocks"), b |-> 0]
    ELSE LET b == Least(FreeBlocks(fs))
         IN [fs |-> [fs EXCEPT !.bmap = @ \cup {b}, !.blk[b] = ZeroBlock], b |-> b]

bfree(fs, b) == IF b \in fs.bmap THEN [fs EXCEPT !.bmap = @ \ {b}]
                                 ELSE Panic(fs, "freeing free block")

(***************************************************************************)
(* Inodes                                                                  *)
(***************************************************************************)
\* Copy the in-memory inode to the disk.
iupdate(fs, s) ==
    [fs EXCEPT !.din[fs.mem[s].inum] =
        [type |-> fs.mem[s].type, nlink |-> fs.mem[s].nlink,
         size |-> fs.mem[s].size, addrs |-> fs.mem[s].addrs]]

iget(fs, inum) ==
    LET hit   == {s \in Slots : fs.mem[s].ref > 0 /\ fs.mem[s].inum = inum}
        empty == {s \in Slots : fs.mem[s].ref = 0}
    IN IF hit # {}
       THEN [s |-> Least(hit), fs |-> [fs EXCEPT !.mem[Least(hit)].ref = @ + 1]]
       ELSE IF empty = {} THEN [s |-> 1, fs |-> Panic(fs, "iget: no inodes")]
       ELSE [s  |-> Least(empty),
             fs |-> [fs EXCEPT !.mem[Least(empty)].inum = inum,
                               !.mem[Least(empty)].ref = 1,
                               !.mem[Least(empty)].valid = FALSE]]

idup(fs, s) == [fs EXCEPT !.mem[s].ref = @ + 1]

\* The part of ilock that follows acquiresleep.
ReadInode(fs, s) ==
    IF fs.mem[s].valid THEN fs
    ELSE LET d == fs.din[fs.mem[s].inum]
             g == [fs EXCEPT !.mem[s] = d @@ [fs.mem[s] EXCEPT !.valid = TRUE]]
         IN IF d.type = "none" THEN Panic(g, "ilock: no type") ELSE g

ialloc(fs, type) ==
    LET free == {i \in Inums : fs.din[i].type = "none"} IN
    IF free = {} THEN [s |-> 1, fs |-> Panic(fs, "ialloc: no inodes")]
    ELSE iget([fs EXCEPT !.din[Least(free)] = FreshInode(type)], Least(free))

\* bmap: the disk block of the bn-th block of the inode, allocated if missing.
bmap(fs, s, bn) ==
    IF bn < NDIRECT
    THEN IF fs.mem[s].addrs[bn] # 0 THEN [fs |-> fs, b |-> fs.mem[s].addrs[bn]]
         ELSE LET a == balloc(fs)
              IN [fs |-> [a.fs EXCEPT !.mem[s].addrs[bn] = a.b], b |-> a.b]
    ELSE IF bn - NDIRECT < NINDIRECT
    THEN LET a == IF fs.mem[s].addrs[NDIRECT] # 0
                  THEN [fs |-> fs, b |-> fs.mem[s].addrs[NDIRECT]] ELSE balloc(fs)
             g == [a.fs EXCEPT !.mem[s].addrs[NDIRECT] = a.b]
             i == bn - NDIRECT
         IN IF g.blk[a.b][i].n # 0 THEN [fs |-> g, b |-> g.blk[a.b][i].n]
            ELSE LET c == balloc(g)
                 IN [fs |-> [c.fs EXCEPT !.blk[a.b][i] = Cell(c.b, "")], b |-> c.b]
    ELSE [fs |-> Panic(fs, "bmap: out of range"), b |-> 1]

\* The blocks an inode owns, in the order itrunc frees them.
Owned(fs, d) ==
    LET direct == [i \in 1 .. NDIRECT |-> d.addrs[i - 1]]
        ind    == d.addrs[NDIRECT]
        inner  == IF ind = 0 THEN <<>> ELSE [j \in 1 .. NINDIRECT |-> fs.blk[ind][j - 1].n]
    IN SelectSeq(direct \o inner \o <<ind>>, LAMBDA b : b # 0)

itrunc(fs, s) ==
    iupdate([FoldLeft(bfree, fs, Owned(fs, fs.mem[s])) EXCEPT
                !.mem[s].addrs = NoAddrs, !.mem[s].size = 0], s)

BlockOf(fs, d, bn) == IF bn < NDIRECT THEN d.addrs[bn]
                      ELSE fs.blk[d.addrs[NDIRECT]][bn - NDIRECT].n
Contents(fs, d)    == [i \in 1 .. d.size |->
                          fs.blk[BlockOf(fs, d, (i - 1) \div BSIZE)][(i - 1) % BSIZE]]

\* What iput does under the inode's lock.  lost is no state of the kernel: it
\* records the inodes that had a name in a directory freed here.
Unused(fs, s) == fs.mem[s].valid /\ fs.mem[s].nlink = 0 /\ fs.mem[s].ref = 1
Freed(fs, s)  == [iupdate([itrunc(fs, s) EXCEPT !.mem[s].type = "none"], s) EXCEPT
                    !.mem[s].valid = FALSE]
Inside(fs, s) ==
    LET c == Contents(fs, fs.mem[s])
    IN IF fs.mem[s].type # "dir" THEN {}
       ELSE {c[i].n : i \in {j \in DOMAIN c : c[j].n # 0 /\ c[j].s \notin {".", ".."}}}
M_Reclaim_NoTrunc(fs, s) ==
    IF Unused(fs, s)
    THEN [iupdate([fs EXCEPT !.mem[s].type = "none"], s) EXCEPT !.mem[s].valid = FALSE]
    ELSE fs
Reclaim(fs, s) ==
    IF Unused(fs, s) THEN [Freed(fs, s) EXCEPT !.lost = @ \cup Inside(fs, s)] ELSE fs

M_Linked_NoUpdate(fs, s, d) == [fs EXCEPT !.mem[s].nlink = @ + d]
Linked(fs, s, d) == iupdate([fs EXCEPT !.mem[s].nlink = @ + d], s)

(***************************************************************************)
(* Inode contents                                                          *)
(***************************************************************************)
\* readi of a file or directory: the cells, or an error.  The devices made here
\* have no driver (Console.tla has the one the kernel registers).
readi(fs, s, off, n) ==
    LET size == fs.mem[s].size
        end  == IF off + n > size THEN size ELSE off + n
    IN IF fs.mem[s].type = "dev" \/ off > size \/ n < 0 THEN [ok |-> FALSE, cells |-> <<>>]
       ELSE [ok |-> TRUE, cells |-> SubSeq(Contents(fs, fs.mem[s]), off + 1, end)]

\* writei: one cell after the other, then the size if the file grew.
writei(fs, s, off, cells) ==
    LET end == off + Len(cells)
        put(g, i) == LET a == bmap(g, s, (off + i - 1) \div BSIZE)
                     IN [a.fs EXCEPT !.blk[a.b][(off + i - 1) % BSIZE] = cells[i]]
        w   == FoldLeft(put, fs, [i \in 1 .. Len(cells) |-> i])
    IN IF fs.mem[s].type = "dev" \/ off > fs.mem[s].size \/ end > MAXFILE * BSIZE
       THEN [ok |-> FALSE, fs |-> fs]
       ELSE [ok |-> TRUE,
             fs |-> IF end > fs.mem[s].size
                    THEN iupdate([w EXCEPT !.mem[s].size = end], s) ELSE w]

(***************************************************************************)
(* Directories                                                             *)
(***************************************************************************)
\* skipelem keeps DIRSIZ characters of a path element.
Trunc(name) == IF name \in DOMAIN LongNames THEN LongNames[name] ELSE name

Matches(fs, s, name) ==
    LET c == Contents(fs, fs.mem[s])
    IN {i \in DOMAIN c : c[i].n # 0 /\ c[i].s = name}
\* dirlookup: the offset and inode number of the first match; inum 0 if none.
dirlookup(fs, s, name) ==
    IF Matches(fs, s, name) = {} THEN [off |-> 0, inum |-> 0]
    ELSE LET i == Least(Matches(fs, s, name))
         IN [off |-> i - 1, inum |-> Contents(fs, fs.mem[s])[i].n]

\* dirlink after its check that the name is not there.
dirlink(fs, s, name, inum) ==
    LET c     == Contents(fs, fs.mem[s])
        holes == {i \in DOMAIN c : c[i].n = 0}
        off   == IF holes = {} THEN Len(c) ELSE Least(holes) - 1
        w     == writei(fs, s, off, <<Cell(inum, name)>>)
    IN IF w.ok THEN w.fs ELSE Panic(fs, "dirlink")

isdirempty(fs, s) == LET c == Contents(fs, fs.mem[s])
                     IN \A i \in 3 .. Len(c) : c[i].n = 0

(***************************************************************************)
(* mkfs: an empty tree with a root directory and a few files.              *)
(***************************************************************************)
NoFs == [din   |-> [i \in Inums |-> FreshInode("none")],
         bmap  |-> {},
         blk   |-> [b \in BlockNos |-> ZeroBlock],
         mem   |-> [s \in Slots |-> EmptySlot],
         lost  |-> {},
         panic |-> ""]

\* What mkfs's ialloc, dirent writes and iappend leave for one inode.
Made(fs, type, nlink, cells) ==
    LET a == ialloc(fs, type)
        w == writei(Linked(ReadInode(a.fs, a.s), a.s, nlink), a.s, 0, cells)
    IN [w.fs EXCEPT !.mem = NoFs.mem]

Mkfs(files) ==
    LET names == SetToSeq(DOMAIN files)
        ents  == <<Cell(ROOTINO, "."), Cell(ROOTINO, "..")>>
                 \o [i \in DOMAIN names |-> Cell(i + 1, names[i])]
        size  == ((Len(ents) \div BSIZE) + 1) * BSIZE     \* root's size is rounded up
        root  == [i \in 1 .. size |-> IF i \in DOMAIN ents THEN ents[i] ELSE ZeroCell]
    IN FoldLeft(LAMBDA g, n : Made(g, "file", 1, files[n]),
                Made(NoFs, "dir", 1, root), names)
============================================================================
