------------------------------ MODULE BlockIO ------------------------------
(***************************************************************************)
(* The block layer of both kernels: the buffer cache (bio.c), the IDE      *)
(* driver below it (ide.c) and the sleep lock every buffer carries         *)
(* (sleeplock.c).  Processes read, modify, write back and release blocks;  *)
(* the disk finishes requests in between and interrupts.  Each action is a *)
(* stretch of code between two points where another process or the         *)
(* interrupt handler can run: bcache.lock, idelock and the lock inside a   *)
(* sleep lock are held across exactly one action each.                     *)
(*                                                                         *)
(* The log is a client of this layer; the one thing it does to a buffer    *)
(* behind the cache's back, leaving B_DIRTY set on a released buffer until *)
(* commit writes it, is the action log_write, and the number of buffers it *)
(* may pin is MaxPinned (Log.tla establishes the bound).                   *)
(***************************************************************************)
EXTENDS Integers, Sequences, FiniteSets, SequencesExt

CONSTANTS Procs,        \* processes that use the disk
          Blocks,       \* disk blocks
          Bufs,         \* the NBUF buffers
          Values,       \* contents of a block
          ZeroValue,    \* what the disk holds at first
          MaxPinned,    \* buffers the log keeps dirty at one time
          None          \* no block, no process, no channel

\* What a process may sleep on, and what the disk may be given to do.
Channels == {"lock", "io"} \X Bufs
Requests == [buf : Bufs, cmd : {"read", "write"}, data : Values]

ASSUME BlockIOAssumption ==
    /\ IsFiniteSet(Procs) /\ IsFiniteSet(Bufs) /\ Bufs # {}
    /\ MaxPinned \in Nat
    /\ ZeroValue \in Values
    /\ None \notin Procs \cup Blocks \cup Bufs \cup Channels \cup Requests

VARIABLES blockno,   \* blockno[b]: the block that b caches
          valid,     \* B_VALID
          dirty,     \* B_DIRTY
          refcnt,    \* users of b and processes waiting for it
          data,      \* data[b]
          lru,       \* bcache.head's list, most recently used first
          holder,    \* b->lock: the process that holds it
          idequeue,  \* requests in order; the first one is at the disk
          active,    \* what idestart gave the disk: a buffer and its command
          disk,      \* the contents of the disk
          pc,        \* where each process is
          cur,       \* the buffer it works on
          asleep,    \* the channel it sleeps on
          last,      \* history: last contents a holder gave to the block
          unread,    \* history: buffers whose read the disk failed
          panicked   \* bget found no buffer

cache == <<blockno, refcnt, lru>>
flags == <<valid, dirty>>
ide   == <<idequeue, active, disk>>
vars  == <<cache, flags, data, holder, ide, pc, cur, asleep, last, unread, panicked>>

LockChan(b) == <<"lock", b>>
IoChan(b)   == <<"io", b>>

Init ==
    /\ blockno = [b \in Bufs |-> None]
    /\ valid = [b \in Bufs |-> FALSE]
    /\ dirty = [b \in Bufs |-> FALSE]
    /\ refcnt = [b \in Bufs |-> 0]
    /\ data = [b \in Bufs |-> ZeroValue]
    /\ lru = SetToSeq(Bufs)
    /\ holder = [b \in Bufs |-> None]
    /\ idequeue = <<>>
    /\ active = None
    /\ disk = [k \in Blocks |-> ZeroValue]
    /\ pc = [p \in Procs |-> "idle"]
    /\ cur = [p \in Procs |-> None]
    /\ asleep = [p \in Procs |-> None]
    /\ last = disk
    /\ unread = {}
    /\ panicked = FALSE

Goto(p, l)    == pc' = [pc EXCEPT ![p] = l]
Awake(p, l)   == pc[p] = l /\ asleep[p] = None /\ ~panicked
M_wakeup_Lost(chan) == asleep
wakeup(chan)  == [q \in Procs |-> IF asleep[q] = chan THEN None ELSE asleep[q]]

(***************************************************************************)
(* bio.c                                                                   *)
(***************************************************************************)
M_Cached_InUse(k) == {b \in Bufs : blockno[b] = k /\ refcnt[b] > 0}
Cached(k)      == {b \in Bufs : blockno[b] = k}
M_Recyclable_Dirty(b) == refcnt[b] = 0
Recyclable(b)  == refcnt[b] = 0 /\ ~dirty[b]
\* The list is searched from its tail, so the least recently used one is taken.
Victim         == lru[CHOOSE i \in DOMAIN lru :
                         /\ Recyclable(lru[i])
                         /\ \A j \in DOMAIN lru : Recyclable(lru[j]) => j <= i]

\* bget up to acquiresleep, under bcache.lock.
bget(p, k) ==
    /\ Awake(p, "idle")
    /\ \/ \E b \in Cached(k) :
            /\ refcnt' = [refcnt EXCEPT ![b] = @ + 1]
            /\ cur' = [cur EXCEPT ![p] = b]
            /\ Goto(p, "lock")
            /\ UNCHANGED <<blockno, flags, unread, panicked>>
       \/ /\ Cached(k) = {} /\ \E b \in Bufs : Recyclable(b)
          /\ LET b == Victim IN
             /\ blockno' = [blockno EXCEPT ![b] = k]
             /\ valid' = [valid EXCEPT ![b] = FALSE]
             /\ dirty' = [dirty EXCEPT ![b] = FALSE]
             /\ refcnt' = [refcnt EXCEPT ![b] = 1]
             /\ unread' = unread \ {b}
             /\ cur' = [cur EXCEPT ![p] = b]
          /\ Goto(p, "lock")
          /\ UNCHANGED panicked
       \/ /\ Cached(k) = {} /\ ~\E b \in Bufs : Recyclable(b)
          /\ panicked' = TRUE
          /\ UNCHANGED <<blockno, flags, refcnt, unread, cur, pc>>
    /\ UNCHANGED <<lru, data, holder, ide, asleep, last>>

\* acquiresleep, and the rest of bget and bread up to iderw.
acquiresleep(p) ==
    LET b == cur[p] IN
    /\ Awake(p, "lock")
    /\ \/ /\ holder[b] # None
          /\ asleep' = [asleep EXCEPT ![p] = LockChan(b)]
          /\ UNCHANGED <<holder, pc>>
       \/ /\ holder[b] = None
          /\ holder' = [holder EXCEPT ![b] = p]
          /\ Goto(p, IF valid[b] THEN "use" ELSE "iderw")
          /\ UNCHANGED asleep
    /\ UNCHANGED <<cache, flags, data, ide, cur, last, unread, panicked>>

\* The holder changes the contents and calls bwrite.
bwrite(p, v) ==
    LET b == cur[p] IN
    /\ Awake(p, "use")
    /\ data' = [data EXCEPT ![b] = v]
    /\ dirty' = [dirty EXCEPT ![b] = TRUE]
    /\ last' = [last EXCEPT ![blockno[b]] = v]
    /\ unread' = unread \ {b}
    /\ Goto(p, "iderw")
    /\ UNCHANGED <<cache, valid, holder, ide, cur, asleep, panicked>>

\* The holder changes the contents and calls log_write, which pins the
\* buffer: B_DIRTY stays set until a later bwrite of the commit.
Pinned == {b \in Bufs : dirty[b]}
log_write(p, v) ==
    LET b == cur[p] IN
    /\ Awake(p, "use")
    /\ Cardinality(Pinned \cup {b}) <= MaxPinned
    /\ data' = [data EXCEPT ![b] = v]
    /\ dirty' = [dirty EXCEPT ![b] = TRUE]
    /\ last' = [last EXCEPT ![blockno[b]] = v]
    /\ unread' = unread \ {b}
    /\ UNCHANGED <<cache, valid, holder, ide, pc, cur, asleep, panicked>>

releasesleep(p) ==
    LET b == cur[p] IN
    /\ Awake(p, "use")
    /\ holder' = [holder EXCEPT ![b] = None]
    /\ asleep' = wakeup(LockChan(b))
    /\ Goto(p, "brelse")
    /\ UNCHANGED <<cache, flags, data, ide, cur, last, unread, panicked>>

M_Dropped_Leak(b) == [refcnt EXCEPT ![b] = IF @ = 1 THEN @ - 1 ELSE @]
Dropped(b) == [refcnt EXCEPT ![b] = @ - 1]
M_Recent_Linked(b) == <<b>> \o lru
Recent(b)  == IF refcnt[b] = 1
              THEN <<b>> \o RemoveAt(lru, CHOOSE i \in DOMAIN lru : lru[i] = b) ELSE lru
\* The rest of brelse, under bcache.lock.
brelse(p) ==
    LET b == cur[p] IN
    /\ Awake(p, "brelse")
    /\ refcnt' = Dropped(b)
    /\ lru' = Recent(b)
    /\ cur' = [cur EXCEPT ![p] = None]
    /\ Goto(p, "idle")
    /\ UNCHANGED <<blockno, flags, data, holder, ide, asleep, last, unread, panicked>>

(***************************************************************************)
(* ide.c                                                                   *)
(***************************************************************************)
\* The request idestart gives the disk for b.  A write takes the data along.
idestart(b) == IF dirty[b] THEN [buf |-> b, cmd |-> "write", data |-> data[b]]
                           ELSE [buf |-> b, cmd |-> "read", data |-> ZeroValue]
M_StartIfIdle_Always(b) == idestart(b)
StartIfIdle(b) == IF idequeue = <<>> THEN idestart(b) ELSE active
M_StartNext_Never(q) == None
StartNext(q) == IF q = <<>> THEN None ELSE idestart(Head(q))
Synced(b)   == valid[b] /\ ~dirty[b]

\* iderw up to its first sleep, under idelock.
iderw(p) ==
    LET b == cur[p] IN
    /\ Awake(p, "iderw")
    /\ idequeue' = Append(idequeue, b)
    /\ active' = StartIfIdle(b)
    /\ asleep' = [asleep EXCEPT ![p] = IoChan(b)]
    /\ Goto(p, "wait")
    /\ UNCHANGED <<cache, flags, data, holder, disk, cur, last, unread, panicked>>

\* The test of iderw's loop after a wakeup.
iowait(p) ==
    LET b == cur[p] IN
    /\ Awake(p, "wait")
    /\ \/ /\ ~Synced(b)
          /\ asleep' = [asleep EXCEPT ![p] = IoChan(b)]
          /\ UNCHANGED pc
       \/ Synced(b) /\ Goto(p, "use") /\ UNCHANGED asleep
    /\ UNCHANGED <<cache, flags, data, holder, ide, cur, last, unread, panicked>>

\* External: the disk carries out the command it was given, then interrupts.
Performed == IF active.cmd = "write"
             THEN [disk EXCEPT ![blockno[active.buf]] = active.data] ELSE disk

\* ideintr; fails is idewait's answer to a read.  A failed read still makes
\* the buffer valid.
ideintr(fails) ==
    LET b    == Head(idequeue)
        read == ~dirty[b]
    IN
    /\ active # None /\ ~panicked
    /\ idequeue' = Tail(idequeue)
    /\ disk' = Performed
    /\ data' = IF read /\ ~fails THEN [data EXCEPT ![b] = disk[blockno[b]]] ELSE data
    /\ unread' = IF read /\ fails THEN unread \cup {b} ELSE unread
    /\ valid' = [valid EXCEPT ![b] = TRUE]
    /\ dirty' = [dirty EXCEPT ![b] = FALSE]
    /\ asleep' = wakeup(IoChan(b))
    /\ active' = StartNext(Tail(idequeue))
    /\ UNCHANGED <<cache, holder, pc, cur, last, panicked>>

Next ==
    \/ \E p \in Procs :
         \/ \E k \in Blocks : bget(p, k)
         \/ acquiresleep(p)
         \/ \E v \in Values : bwrite(p, v) \/ log_write(p, v)
         \/ releasesleep(p)
         \/ brelse(p)
         \/ iderw(p)
         \/ iowait(p)
    \/ \E fails \in BOOLEAN : ideintr(fails)

Spec == Init /\ [][Next]_vars

\* The disk answers, a process that is not asleep gets a CPU, and a holder
\* comes to its brelse after finitely many writes, as every caller of bread does.
Fairness == /\ WF_vars(\E fails \in BOOLEAN : ideintr(fails))
            /\ \A p \in Procs : /\ WF_vars(iderw(p)) /\ WF_vars(iowait(p))
                                /\ SF_vars(releasesleep(p)) /\ WF_vars(brelse(p))
FairSpec == Spec /\ Fairness
----------------------------------------------------------------------------
Labels == {"idle", "lock", "iderw", "wait", "use", "brelse"}

\* Every variable has its type, and the list still holds every buffer once.
TypeOK ==
    /\ blockno \in [Bufs -> Blocks \cup {None}]
    /\ valid \in [Bufs -> BOOLEAN] /\ dirty \in [Bufs -> BOOLEAN]
    /\ refcnt \in [Bufs -> 0..Cardinality(Procs)]
    /\ data \in [Bufs -> Values]
    /\ Len(lru) = Cardinality(Bufs) /\ ToSet(lru) = Bufs
    /\ holder \in [Bufs -> Procs \cup {None}]
    /\ ToSet(idequeue) \subseteq Bufs
    /\ disk \in [Blocks -> Values] /\ last \in [Blocks -> Values]
    /\ pc \in [Procs -> Labels] /\ cur \in [Procs -> Bufs \cup {None}]
    /\ unread \subseteq Bufs /\ panicked \in BOOLEAN

\* A block is cached in one buffer at most, however lookups, recycling and
\* releases of several processes interleave (bget).
OneBufferPerBlock ==
    \A a, b \in Bufs : blockno[a] = blockno[b] /\ blockno[a] # None => a = b

\* A process that holds a buffer bread returned sees what the last holder of
\* the block put there, also after the buffer was recycled, also when the log
\* had pinned it and never written it; the exception is a read the disk failed,
\* which ideintr passes off as valid.
ReadsLastWrite ==
    \A p \in Procs : pc[p] = "use" /\ cur[p] \notin unread
                     => data[cur[p]] = last[blockno[cur[p]]]

\* The disk always works on the head of idequeue, every queued buffer is there
\* once, locked, and its owner waits; so no request is lost, repeated, or made
\* for a buffer that was recycled meanwhile (iderw, ideintr).
QueueMatchesWaiters ==
    /\ (active = None) = (idequeue = <<>>)
    /\ active # None => active.buf = Head(idequeue)
    /\ \A i, j \in DOMAIN idequeue : idequeue[i] = idequeue[j] => i = j
    /\ \A b \in ToSet(idequeue) :
         /\ ~Synced(b)
         /\ \E p \in Procs : cur[p] = b /\ holder[b] = p /\ pc[p] = "wait"

\* bget gives up only when every buffer is pinned by the log or wanted by some
\* process: no path of the layer loses a reference or leaves a buffer dirty.
NoBufferLeaked ==
    /\ panicked => \A b \in Bufs : dirty[b] \/ \E p \in Procs : cur[p] = b
    /\ \A b \in Bufs : refcnt[b] = Cardinality({p \in Procs : cur[p] = b})
    /\ Cardinality(Pinned \ {cur[p] : p \in Procs}) <= MaxPinned

\* A process that has handed a buffer to the driver gets it back synchronised:
\* the wakeup of ideintr cannot fall between iderw's test and its sleep, and
\* requests are served in order.
RequestCompletes ==
    \A p \in Procs : (pc[p] = "wait") ~> (pc[p] = "use" \/ panicked)

\* A process asleep on a buffer's lock is woken when the holder releases it.
LockWakesWaiter ==
    \A p \in Procs : (pc[p] = "lock" /\ asleep[p] # None) ~> (asleep[p] = None \/ panicked)

\* The cache's book-keeping is exact (bget, brelse): one buffer per block,
\* references counted, nothing lost to recycling.
BuffersExact == TypeOK /\ OneBufferPerBlock /\ NoBufferLeaked

\* Whoever sleeps in this layer is woken: on the disk by the interrupt, on a
\* buffer's lock by its holder (iderw, acquiresleep).
SleepersWoken == RequestCompletes /\ LockWakesWaiter
============================================================================
