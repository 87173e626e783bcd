---------------------------------- MODULE Log ----------------------------------
(***************************************************************************)
(* The redo log of log.c, over the buffer cache of bio.c and the disk.  A  *)
(* step is one disk write, or one critical section of log.lock; log_write  *)
(* tests log.lh.n before it takes the lock, and that is a step too.  The   *)
(* machine may crash between any two steps, in recovery too: memory goes,  *)
(* the disk stays, and initlog() runs again.                               *)
(***************************************************************************)
EXTENDS Naturals, Sequences, FiniteSets, SequencesExt

CONSTANTS
    Procs,                  \* processes making file system calls
    Blocks,                 \* the blocks outside the log
    Values,                 \* contents of a block
    OpBlocks,               \* the most blocks an operation really writes
    MAXOPBLOCKS, LOGSIZE,   \* param.h (10 and 30)
    nlog                    \* the superblock's log size, header included (30)

NotCached == "NotCached"
NoBlock == "NoBlock"

ASSUME LogAssumption ==
    /\ IsFiniteSet(Procs)
    /\ MAXOPBLOCKS \in Nat /\ LOGSIZE \in Nat /\ nlog \in Nat \ {0}
    /\ OpBlocks \in 1..(MAXOPBLOCKS - 1)
    /\ NotCached \notin Values /\ NoBlock \notin Blocks

\* begin_op counts LOGSIZE blocks, the log has nlog - 1: what operations leave
\* of their reservation makes up for it, and it lets them write a block again
\* that the log has.  filewrite's operations are the largest: 4 data blocks,
\* bitmap, indirect block and inode are 7 of 10.
ASSUME LogSlackAssumption == LOGSIZE + OpBlocks + 1 < nlog + MAXOPBLOCKS

VARIABLES
    home, logblock, header, \* on disk: home locations, log blocks, header block
    cache, dirty,           \* the buffer cache: NotCached or a value; B_DIRTY
    lh,                     \* log.lh.block[0..log.lh.n-1]
    active, wrote,          \* the log.outstanding operations, what they wrote
    held,                   \* the buffer a process is about to record
    committing,
    pc, tail                \* where commit() or recover_from_log() is

disk == <<home, logblock, header>>
ops == <<active, wrote, held>>
vars == <<home, logblock, header, cache, dirty, lh, active, wrote, held, committing, pc, tail>>

Slots == 1..(nlog - 1)

TypeOK ==
    /\ home \in [Blocks -> Values]
    /\ logblock \in [Slots -> Values]
    /\ header \in Seq(Blocks) /\ Len(header) < nlog
    /\ cache \in [Blocks -> Values \cup {NotCached}]
    /\ dirty \in SUBSET Blocks
    /\ lh \in Seq(Blocks) /\ Len(lh) < nlog
    /\ active \in SUBSET Procs
    /\ wrote \in [Procs -> SUBSET Blocks]
    /\ held \in [Procs -> Blocks \cup {NoBlock}]
    /\ committing \in BOOLEAN
    /\ pc \in {"read_head", "run", "write_log", "install", "done", "panic"}
    /\ tail \in 0..(nlog - 1)

outstanding == Cardinality(active)

Init ==
    /\ home \in [Blocks -> Values]
    /\ logblock \in {[i \in Slots |-> v] : v \in Values}
    /\ header = <<>>
    /\ cache = [b \in Blocks |-> NotCached]
    /\ dirty = {}
    /\ lh = <<>>
    /\ active = {}
    /\ wrote = [p \in Procs |-> {}]
    /\ held = [p \in Procs |-> NoBlock]
    /\ committing = FALSE
    /\ pc = "read_head"
    /\ tail = 0

\* And the machine boots again.
Crash ==
    /\ cache' = [b \in Blocks |-> NotCached]
    /\ dirty' = {}
    /\ lh' = <<>>
    /\ active' = {}
    /\ wrote' = [p \in Procs |-> {}]
    /\ held' = [p \in Procs |-> NoBlock]
    /\ committing' = FALSE
    /\ pc' = "read_head"
    /\ tail' = 0
    /\ UNCHANGED disk

-----------------------------------------------------------------------------
(* bio.c                                                                   *)

bread(b) == IF cache[b] = NotCached THEN home[b] ELSE cache[b]

\* The buffer's refcnt is not 0.
Locked(b) == \E p \in Procs : held[p] = b

\* Mutant: a buffer the log has pinned is recycled too.
M_Recyclable_Dirty(b) == cache[b] # NotCached /\ ~Locked(b)

Recyclable(b) == cache[b] # NotCached /\ ~Locked(b) /\ b \notin dirty

\* bget recycles b's buffer for some other block.
bget(b) ==
    /\ pc # "panic"
    /\ Recyclable(b)
    /\ cache' = [cache EXCEPT ![b] = NotCached]
    /\ dirty' = dirty \ {b}
    /\ UNCHANGED <<disk, lh, ops, committing, pc, tail>>

-----------------------------------------------------------------------------
(* begin_op, log_write, end_op.  A process asleep in begin_op is one that  *)
(* is not in an operation yet: the wakeups of &log make it test again.     *)

\* Mutant: the operations in progress are not counted.
M_LogFits_Free == Len(lh) + MAXOPBLOCKS <= LOGSIZE

LogFits == Len(lh) + (outstanding + 1) * MAXOPBLOCKS <= LOGSIZE

begin_op(p) ==
    /\ pc = "run" /\ ~committing
    /\ p \notin active
    /\ LogFits
    /\ active' = active \cup {p}
    /\ wrote' = [wrote EXCEPT ![p] = {}]
    /\ UNCHANGED <<disk, cache, dirty, lh, held, committing, pc, tail>>

\* "too big a transaction", tested without the lock.
TooBig == Len(lh) >= LOGSIZE \/ Len(lh) >= nlog - 1

\* bread(b), a change of its data, and log_write(b) up to acquire.
log_write(p, b, v) ==
    /\ pc = "run"
    /\ p \in active /\ held[p] = NoBlock /\ ~Locked(b)
    /\ b \in wrote[p] \/ Cardinality(wrote[p]) < OpBlocks
    /\ cache' = [cache EXCEPT ![b] = v]
    /\ wrote' = [wrote EXCEPT ![p] = @ \cup {b}]
    /\ IF TooBig THEN pc' = "panic" /\ UNCHANGED held
                 ELSE held' = [held EXCEPT ![p] = b] /\ UNCHANGED pc
    /\ UNCHANGED <<disk, dirty, lh, active, committing, tail>>

\* Mutant: no absorption.
M_Absorb_Twice(b) == Append(lh, b)

Absorb(b) == IF Contains(lh, b) THEN lh ELSE Append(lh, b)

\* The rest of log_write, and brelse.
log_write_record(p) ==
    /\ pc = "run"
    /\ held[p] # NoBlock
    /\ lh' = Absorb(held[p])
    /\ dirty' = dirty \cup {held[p]}
    /\ held' = [held EXCEPT ![p] = NoBlock]
    /\ UNCHANGED <<disk, cache, active, wrote, committing, pc, tail>>

LastOut(p) == active = {p}

end_op(p) ==
    /\ pc = "run"
    /\ p \in active /\ held[p] = NoBlock
    /\ active' = active \ {p}
    /\ wrote' = [wrote EXCEPT ![p] = {}]
    /\ IF LastOut(p)
       THEN /\ committing' = TRUE
            /\ pc' = IF lh = <<>> THEN "done" ELSE "write_log"
       ELSE UNCHANGED <<committing, pc>>
    /\ UNCHANGED <<disk, cache, dirty, lh, held, tail>>

-----------------------------------------------------------------------------
(* commit                                                                  *)

\* Each log block is a disk write of its own.
write_log ==
    /\ pc = "write_log" /\ tail < Len(lh)
    /\ logblock' = [logblock EXCEPT ![tail + 1] = bread(lh[tail + 1])]
    /\ tail' = tail + 1
    /\ UNCHANGED <<home, header, cache, dirty, lh, ops, committing, pc>>

\* Mutant: the header does not wait for the log blocks.
M_LogWritten_Any == TRUE

LogWritten == tail = Len(lh)

\* write_head: the real commit.
write_head ==
    /\ pc = "write_log" /\ LogWritten
    /\ header' = lh
    /\ pc' = "install"
    /\ tail' = 0
    /\ UNCHANGED <<home, logblock, cache, dirty, lh, ops, committing>>

install_trans ==
    /\ pc = "install" /\ tail < Len(lh)
    /\ LET b == lh[tail + 1] IN
        /\ home' = [home EXCEPT ![b] = logblock[tail + 1]]
        /\ cache' = [cache EXCEPT ![b] = logblock[tail + 1]]
        /\ dirty' = dirty \ {b}
    /\ tail' = tail + 1
    /\ UNCHANGED <<logblock, header, lh, ops, committing, pc>>

\* log.lh.n = 0 and write_head, in commit() and in recover_from_log().
clear_head ==
    /\ pc = "install" /\ tail = Len(lh)
    /\ lh' = <<>>
    /\ header' = <<>>
    /\ tail' = 0
    /\ pc' = IF committing THEN "done" ELSE "run"
    /\ UNCHANGED <<home, logblock, cache, dirty, ops, committing>>

\* The end of end_op: log.committing = 0.
end_commit ==
    /\ pc = "done"
    /\ committing' = FALSE
    /\ pc' = "run"
    /\ UNCHANGED <<disk, cache, dirty, lh, ops, tail>>

\* recover_from_log
read_head ==
    /\ pc = "read_head"
    /\ lh' = header
    /\ pc' = "install"
    /\ UNCHANGED <<disk, cache, dirty, ops, committing, tail>>

Next ==
    \/ \E p \in Procs : begin_op(p) \/ end_op(p) \/ log_write_record(p)
    \/ \E p \in Procs, b \in Blocks, v \in Values : log_write(p, b, v)
    \/ \E b \in Blocks : bget(b)
    \/ write_log \/ write_head \/ install_trans \/ clear_head \/ end_commit
    \/ read_head \/ Crash

Spec == Init /\ [][Next]_vars

-----------------------------------------------------------------------------
(* What recovery would make of the disk.                                   *)
Recovered ==
    [b \in Blocks |->
        IF Contains(header, b)
        THEN logblock[CHOOSE i \in DOMAIN header : header[i] = b]
        ELSE home[b]]

Recovering == pc = "read_head" \/ (pc = "install" /\ ~committing)

Atomic == INSTANCE AtomicDisk
    WITH volatile <- IF Recovering THEN Recovered ELSE [b \in Blocks |-> bread(b)],
         stable <- Recovered

(* log.c's opening comment: a transaction is installed whole or not at     *)
(* all.  Whenever the machine crashes, in a commit or in recovery as well, *)
(* the file system comes back as it was at the last commit, when no        *)
(* operation was in progress; until then all see each other's changes.     *)
LogIsAtomic == Atomic!Spec

\* Processes about to record a block that the log does not have yet.
Recording == {p \in Procs : held[p] # NoBlock /\ ~Contains(lh, held[p])}

\* What is left of the reservations: for each operation in progress, the blocks
\* it has not written yet, and the one it is about to record.
Claims == {c \in active \X (1..MAXOPBLOCKS) :
              c[2] > Cardinality(wrote[c[1]]) \/ (c[2] = 1 /\ c[1] \in Recording)}

(* begin_op, log_write: the log always has room for all that the           *)
(* operations let in by begin_op may still write, so that log_write never  *)
(* panics, although it tests log.lh.n without the lock.                    *)
ReservationHolds ==
    /\ pc # "panic"
    /\ Len(lh) + Cardinality(Claims) <= LOGSIZE

(* write_log, install_trans: no block has two places in a transaction, so  *)
(* that the order of installation does not matter, and until its commit    *)
(* each recorded block stays pinned in the cache.                          *)
LoggedOncePinned ==
    /\ TypeOK
    /\ \A i, j \in DOMAIN lh : lh[i] = lh[j] => i = j
    /\ pc \in {"run", "write_log"} => \A i \in DOMAIN lh : lh[i] \in dirty
=============================================================================
