------------------------------- MODULE LogProofs -------------------------------
(***************************************************************************)
(* Proofs about the redo log, for every number of processes, blocks and    *)
(* contents and every log size that leaves the slack of Log's assumptions: *)
(* log_write never finds the log full, no block is logged twice or leaves  *)
(* the cache before its commit, and the log, with the crashes, implements  *)
(* AtomicDisk.                                                             *)
(***************************************************************************)
EXTENDS Log, FiniteSetTheorems, TLAPS

\* No block has two places in the log.
Distinct(s) == \A i, j \in DOMAIN s : s[i] = s[j] => i = j

\* Blocks of the transaction that install_trans has not come to yet.
ToInstall(b) == \E i \in DOMAIN lh : i > tail /\ lh[i] = b

\* Where commit() and recover_from_log() are, and what disk and memory hold then.
PhaseInv ==
    /\ pc # "run" => active = {}
    /\ pc \in {"run", "write_log", "done"} => header = <<>>
    /\ pc \in {"read_head", "done"} => lh = <<>>
    /\ pc \in {"read_head", "run", "done"} => tail = 0
    /\ pc \in {"read_head", "run"} => ~committing
    /\ pc \in {"write_log", "done"} => committing
    /\ pc = "install" => header = lh
    /\ tail <= Len(lh)
    /\ pc = "write_log" => \A i \in 1..tail : logblock[i] = bread(lh[i])
    /\ pc = "install" => \A i \in 1..tail : home[lh[i]] = logblock[i]
    /\ pc = "install" /\ committing =>
          \A i \in DOMAIN lh : i > tail => cache[lh[i]] = logblock[i]

\* A dirty buffer is cached and waits for its commit or its installation; any
\* other one that nobody is changing is as the disk has it.
CacheInv ==
    /\ \A b \in dirty : cache[b] # NotCached
    /\ pc = "read_head" \/ (pc = "install" /\ ~committing) => dirty = {}
    /\ pc \in {"run", "write_log", "done"} => \A b \in Blocks : b \in dirty <=> Contains(lh, b)
    /\ pc = "install" /\ committing => \A b \in Blocks : b \in dirty <=> ToInstall(b)
    /\ \A b \in Blocks : cache[b] = NotCached \/ b \in dirty \/ Locked(b) \/ cache[b] = home[b]

\* What an operation wrote is in the log, but for the block it is recording.
OpsInv ==
    /\ \A p \in Procs : held[p] # NoBlock => p \in active /\ held[p] \in wrote[p] /\ cache[held[p]] # NotCached
    /\ \A p, q \in Procs : held[p] = held[q] /\ held[p] # NoBlock => p = q
    /\ \A p \in Procs : \A b \in wrote[p] : b = held[p] \/ Contains(lh, b)
    /\ \A p \in Procs : IsFiniteSet(wrote[p]) /\ Cardinality(wrote[p]) <= OpBlocks
    /\ \A p \in Procs : p \notin active => wrote[p] = {}

\* The inductive invariant.
IInv ==
    /\ TypeOK
    /\ ReservationHolds
    /\ Distinct(lh) /\ Distinct(header)
    /\ Len(header) <= LOGSIZE
    /\ PhaseInv
    /\ CacheInv
    /\ OpsInv

-----------------------------------------------------------------------------
(* Reservations                                                            *)

(* There are finitely many claims.                                         *)
LEMMA ClaimsFinite ==
    ASSUME TypeOK
    PROVE  /\ IsFiniteSet(active) /\ IsFiniteSet(Claims)
           /\ outstanding \in Nat /\ Cardinality(Claims) \in Nat
<1>1. IsFiniteSet(active)
  BY FS_Subset, LogAssumption DEF TypeOK
<1>2. IsFiniteSet(1..MAXOPBLOCKS)
  BY FS_Interval, LogAssumption
<1>3. IsFiniteSet(active \X (1..MAXOPBLOCKS))
  BY <1>1, <1>2, FS_Product
<1>4. Claims \in SUBSET (active \X (1..MAXOPBLOCKS))
  BY DEF Claims
<1>5. IsFiniteSet(Claims)
  BY <1>3, <1>4, FS_Subset
<1> QED
  BY <1>1, <1>5, FS_CardinalityType DEF outstanding

(* What an operation has not used of its reservation is claimed, so a      *)
(* process in an operation leaves the log with room: log_write's test of   *)
(* log.lh.n finds it, also outside the lock.                               *)
LEMMA RoomLeft ==
    ASSUME TypeOK, ReservationHolds, OpsInv, NEW p \in active
    PROVE  /\ Len(lh) + (MAXOPBLOCKS - Cardinality(wrote[p])) <= LOGSIZE
           /\ Cardinality(wrote[p]) \in Nat
<1> DEFINE k == Cardinality(wrote[p])
           free == {p} \X ((k + 1)..MAXOPBLOCKS)
<1>1. p \in Procs /\ IsFiniteSet(wrote[p]) /\ k \in Nat /\ k <= OpBlocks
  BY FS_CardinalityType DEF TypeOK, OpsInv
<1> DEFINE rest == (k + 1)..MAXOPBLOCKS
<1>2. IsFiniteSet(rest) /\ Cardinality(rest) = MAXOPBLOCKS - k
  <2>1. k + 1 \in Int /\ MAXOPBLOCKS \in Int /\ ~(k + 1 > MAXOPBLOCKS)
    BY <1>1, LogAssumption
  <2>2. IsFiniteSet(rest) /\ Cardinality(rest) = IF k + 1 > MAXOPBLOCKS THEN 0 ELSE MAXOPBLOCKS - (k + 1) + 1
    BY <2>1, FS_Interval
  <2> QED
    BY <2>1, <2>2, <1>1, LogAssumption
<1>3. Cardinality(free) = 1 * (MAXOPBLOCKS - k)
  <2>1. IsFiniteSet({p}) /\ Cardinality({p}) = 1
    BY FS_Singleton
  <2>2. Cardinality({p} \X rest) = Cardinality({p}) * Cardinality(rest)
    BY <1>2, <2>1, FS_Product
  <2> QED
    BY <1>2, <2>1, <2>2
<1>4. free \in SUBSET Claims
  <2>1. SUFFICES ASSUME NEW c \in free PROVE c \in Claims
    OBVIOUS
  <2>2. c \in active \X (1..MAXOPBLOCKS) /\ c[1] = p /\ c[2] > k
    BY <2>1, <1>1, LogAssumption
  <2> QED
    BY <2>2 DEF Claims
<1>5. Cardinality(free) <= Cardinality(Claims)
  BY <1>4, ClaimsFinite, FS_Subset
<1> QED
  BY <1>1, <1>3, <1>5, ClaimsFinite, LogAssumption DEF ReservationHolds, TypeOK

(* begin_op: what the new operation may write was free.                    *)
LEMMA BeginReserves ==
    ASSUME IInv, NEW p \in Procs, begin_op(p)
    PROVE  ReservationHolds'
<1> USE DEF IInv, begin_op, disk
<1> DEFINE all == (active \cup {p}) \X (1..MAXOPBLOCKS)
<1>1. IsFiniteSet(active) /\ outstanding \in Nat /\ TypeOK
  BY ClaimsFinite
<1>2. IsFiniteSet(active \cup {p}) /\ Cardinality(active \cup {p}) = outstanding + 1
  BY <1>1, FS_AddElement DEF outstanding
<1>3. IsFiniteSet(1..MAXOPBLOCKS) /\ Cardinality(1..MAXOPBLOCKS) = MAXOPBLOCKS
  <2>1. 1 \in Int /\ MAXOPBLOCKS \in Int /\ ~(1 > MAXOPBLOCKS)
    BY LogAssumption
  <2>2. IsFiniteSet(1..MAXOPBLOCKS)
        /\ Cardinality(1..MAXOPBLOCKS) = IF 1 > MAXOPBLOCKS THEN 0 ELSE MAXOPBLOCKS - 1 + 1
    BY <2>1, FS_Interval
  <2> QED
    BY <2>1, <2>2, LogAssumption
<1>4. IsFiniteSet(all) /\ Cardinality(all) = (outstanding + 1) * MAXOPBLOCKS
  <2>1. IsFiniteSet(all) /\ Cardinality(all) = Cardinality(active \cup {p}) * Cardinality(1..MAXOPBLOCKS)
    BY <1>2, <1>3, FS_Product
  <2> QED
    BY <2>1, <1>2, <1>3
<1>5. Claims' \in SUBSET all
  BY DEF Claims
<1>6. Cardinality(Claims') <= Cardinality(all) /\ Cardinality(Claims') \in Nat
  BY <1>4, <1>5, FS_Subset, FS_CardinalityType
<1>7. Len(lh) + Cardinality(all) <= LOGSIZE
  BY <1>4 DEF LogFits
<1>8. Cardinality(all) \in Nat
  BY <1>4, FS_CardinalityType
<1> QED
  BY <1>1, <1>6, <1>7, <1>8, LogAssumption DEF ReservationHolds, TypeOK

(* log_write: the block comes off what the operation had left, and becomes *)
(* the one it is about to record; one the log has costs nothing.           *)
LEMMA WriteReserves ==
    ASSUME IInv, NEW p \in Procs, NEW b \in Blocks, NEW v \in Values, log_write(p, b, v)
    PROVE  /\ ReservationHolds' /\ pc' = "run"
           /\ IsFiniteSet(wrote'[p]) /\ Cardinality(wrote'[p]) <= OpBlocks
<1> USE DEF IInv, log_write, disk
<1> DEFINE k == Cardinality(wrote[p])
<1>0. TypeOK /\ OpsInv /\ ReservationHolds /\ p \in active /\ IsFiniteSet(wrote[p])
      /\ k <= OpBlocks /\ held[p] = NoBlock /\ Len(lh) \in Nat
  BY DEF OpsInv, TypeOK
<1>1. Len(lh) + (MAXOPBLOCKS - k) <= LOGSIZE /\ k \in Nat
  BY <1>0, RoomLeft
<1>2. ~TooBig
  BY <1>0, <1>1, LogAssumption, LogSlackAssumption DEF TooBig
<1>3. pc' = "run" /\ held' = [held EXCEPT ![p] = b]
  BY <1>2
<1>4. wrote' = [wrote EXCEPT ![p] = wrote[p] \cup {b}] /\ wrote'[p] = wrote[p] \cup {b}
  BY DEF TypeOK
<1>5. IsFiniteSet(Claims) /\ Cardinality(Claims) \in Nat
  BY <1>0, ClaimsFinite
<1>6. CASE b \in wrote[p]
  <2>1. wrote' = wrote
    BY <1>4, <1>6 DEF TypeOK
  <2>2. Contains(lh, b)
    BY <1>6, <1>0, LogAssumption DEF OpsInv
  <2>3. Recording' = Recording
    BY <2>2, <1>0, <1>3, LogAssumption DEF Recording, TypeOK
  <2>4. Claims' = Claims
    BY <2>1, <2>3 DEF Claims
  <2> QED
    BY <2>1, <2>4, <1>0, <1>3 DEF ReservationHolds
<1>7. CASE b \notin wrote[p]
  <2> DEFINE old == <<p, k + 1>>
             rest == Claims \ {old}
  <2>1. IsFiniteSet(wrote'[p]) /\ Cardinality(wrote'[p]) = k + 1
    BY <1>0, <1>4, <1>7, FS_AddElement
  <2>2. k < OpBlocks
    BY <1>7
  <2>3. old \in Claims
    BY <1>0, <1>1, <2>2, LogAssumption DEF Claims
  <2>4. IsFiniteSet(rest) /\ Cardinality(rest) = Cardinality(Claims) - 1
    BY <2>3, <1>5, FS_RemoveElement
  <2>5. IsFiniteSet(rest \cup {<<p, 1>>}) /\ Cardinality(rest \cup {<<p, 1>>}) <= Cardinality(Claims)
    <3>1. Cardinality(rest) \in Nat
      BY <2>4, FS_CardinalityType
    <3>2. /\ IsFiniteSet(rest \cup {<<p, 1>>})
          /\ Cardinality(rest \cup {<<p, 1>>})
                = IF <<p, 1>> \in rest THEN Cardinality(rest) ELSE Cardinality(rest) + 1
      <4> HIDE DEF rest
      <4> QED
        BY <2>4, FS_AddElement
    <3> HIDE DEF rest
    <3> QED
      BY <3>1, <3>2, <2>4, <1>5
  <2>6. Claims' \in SUBSET (rest \cup {<<p, 1>>})
    <3>1. SUFFICES ASSUME NEW c \in Claims' PROVE c \in rest \cup {<<p, 1>>}
      OBVIOUS
    <3>2. c \in active \X (1..MAXOPBLOCKS) /\ (c[2] > Cardinality(wrote'[c[1]]) \/ (c[2] = 1 /\ c[1] \in Recording'))
      BY <3>1 DEF Claims
    <3>3. PICK q \in active, n \in 1..MAXOPBLOCKS : c = <<q, n>>
      BY <3>2
    <3>4. CASE q = p
      <4>1. n > k + 1 \/ n = 1
        BY <3>2, <3>3, <3>4, <2>1
      <4> QED
        BY <4>1, <3>2, <3>3, <3>4, <1>1 DEF Claims
    <3>5. CASE q # p
      <4>1. q \in Procs /\ wrote'[q] = wrote[q] /\ held'[q] = held[q]
        BY <3>5, <1>3, <1>4 DEF TypeOK
      <4>2. q \in Recording' => q \in Recording
        BY <4>1 DEF Recording
      <4>3. c \in Claims
        BY <4>1, <4>2, <3>2, <3>3 DEF Claims
      <4> QED
        BY <4>3, <3>3, <3>5
    <3> QED
      BY <3>4, <3>5
  <2>7. Cardinality(Claims') <= Cardinality(Claims) /\ Cardinality(Claims') \in Nat
    <3>1. Cardinality(Claims') <= Cardinality(rest \cup {<<p, 1>>}) /\ IsFiniteSet(Claims')
      BY <2>5, <2>6, FS_Subset
    <3>2. Cardinality(Claims') \in Nat /\ Cardinality(rest \cup {<<p, 1>>}) \in Nat
      BY <3>1, <2>5, FS_CardinalityType
    <3> QED
      BY <3>1, <3>2, <2>5, <1>5
  <2> QED
    BY <2>1, <2>2, <2>7, <1>0, <1>1, <1>3, <1>5, LogAssumption DEF ReservationHolds
<1> QED
  BY <1>6, <1>7

(* The rest of log_write: a block the log did not have takes the place     *)
(* that its operation claimed for it.                                      *)
LEMMA RecordReserves ==
    ASSUME IInv, NEW p \in Procs, log_write_record(p)
    PROVE  ReservationHolds' /\ lh' \in Seq(Blocks) /\ Len(lh') < nlog
<1> USE DEF IInv, log_write_record, disk
<1> DEFINE b == held[p]
           k == Cardinality(wrote[p])
<1>0. /\ TypeOK /\ OpsInv /\ ReservationHolds /\ p \in active /\ b \in wrote[p] /\ b \in Blocks
      /\ IsFiniteSet(wrote[p]) /\ k <= OpBlocks /\ Len(lh) \in Nat /\ lh \in Seq(Blocks)
  BY DEF OpsInv, TypeOK
<1>1. Len(lh) + (MAXOPBLOCKS - k) <= LOGSIZE /\ k \in Nat
  BY <1>0, RoomLeft
<1>2. k # 0
  BY <1>0, FS_EmptySet
<1>3. IsFiniteSet(Claims) /\ Cardinality(Claims) \in Nat
  BY <1>0, ClaimsFinite
<1>4. CASE Contains(lh, b)
  <2>1. lh' = lh
    BY <1>4 DEF Absorb
  <2>2. Recording' = Recording
    BY <2>1, <1>4, <1>0, LogAssumption DEF Recording, TypeOK
  <2>3. Claims' = Claims
    BY <2>2 DEF Claims
  <2> QED
    BY <2>1, <2>3, <1>0 DEF ReservationHolds, TypeOK
<1>5. CASE ~Contains(lh, b)
  <2>1. lh' = Append(lh, b) /\ Len(lh') = Len(lh) + 1 /\ lh' \in Seq(Blocks)
    BY <1>5, <1>0 DEF Absorb
  <2>2. <<p, 1>> \in Claims
    BY <1>0, <1>5, LogAssumption DEF Claims, Recording
  <2>3. Claims' \in SUBSET (Claims \ {<<p, 1>>})
    <3>1. SUFFICES ASSUME NEW c \in Claims' PROVE c \in Claims \ {<<p, 1>>}
      OBVIOUS
    <3>2. /\ c \in active \X (1..MAXOPBLOCKS)
          /\ c[2] > Cardinality(wrote[c[1]]) \/ (c[2] = 1 /\ c[1] \in Recording')
      BY <3>1 DEF Claims
    <3>3. PICK q \in active, n \in 1..MAXOPBLOCKS : c = <<q, n>>
      BY <3>2
    <3>4. p \notin Recording'
      BY DEF Recording, TypeOK
    <3>5. \A x \in Seq(Blocks), y \in Blocks : Contains(x, y) => Contains(Append(x, b), y)
      BY <1>0 DEF Contains
    <3>6. q \in Recording' => q \in Recording
      BY <3>4, <3>5, <2>1, <1>0 DEF Recording, TypeOK
    <3>7. c \in Claims
      BY <3>2, <3>3, <3>6 DEF Claims
    <3>8. c # <<p, 1>>
      BY <3>2, <3>3, <3>4, <1>1, <1>2
    <3> QED
      BY <3>7, <3>8
  <2>4. IsFiniteSet(Claims \ {<<p, 1>>}) /\ Cardinality(Claims \ {<<p, 1>>}) = Cardinality(Claims) - 1
    BY <2>2, <1>3, FS_RemoveElement
  <2>5. Cardinality(Claims') <= Cardinality(Claims) - 1 /\ Cardinality(Claims') \in Nat
    <3>1. Cardinality(Claims') <= Cardinality(Claims \ {<<p, 1>>}) /\ IsFiniteSet(Claims')
      BY <2>3, <2>4, FS_Subset
    <3> QED
      BY <3>1, <2>4, FS_CardinalityType
  <2>6. Len(lh') + Cardinality(Claims') <= LOGSIZE
    BY <2>1, <2>5, <1>3, <1>0, LogAssumption DEF ReservationHolds
  <2>7. Len(lh') < nlog
    BY <2>1, <1>1, <1>0, LogAssumption, LogSlackAssumption
  <2> QED
    BY <2>1, <2>6, <2>7 DEF ReservationHolds
<1> QED
  BY <1>4, <1>5

(* end_op: what an operation has not used is free again.                   *)
LEMMA EndReserves ==
    ASSUME IInv, NEW p \in Procs, end_op(p)
    PROVE  ReservationHolds'
<1> USE DEF IInv, end_op, disk
<1>0. TypeOK /\ ReservationHolds /\ Len(lh) \in Nat /\ LOGSIZE \in Nat
  BY LogAssumption DEF TypeOK
<1>1. IsFiniteSet(Claims) /\ Cardinality(Claims) \in Nat
  BY <1>0, ClaimsFinite
<1>2. Claims' \in SUBSET Claims
  <2>1. SUFFICES ASSUME NEW c \in Claims' PROVE c \in Claims
    OBVIOUS
  <2>2. PICK q \in active \ {p}, n \in 1..MAXOPBLOCKS : c = <<q, n>>
    BY <2>1 DEF Claims
  <2>3. wrote'[q] = wrote[q] /\ (q \in Recording' <=> q \in Recording)
    BY <2>2 DEF Recording, TypeOK
  <2>4. c[2] > Cardinality(wrote'[c[1]]) \/ (c[2] = 1 /\ c[1] \in Recording')
    BY <2>1 DEF Claims
  <2> QED
    BY <2>2, <2>3, <2>4 DEF Claims
<1>3. Cardinality(Claims') <= Cardinality(Claims) /\ Cardinality(Claims') \in Nat
  BY <1>1, <1>2, FS_Subset, FS_CardinalityType
<1> QED
  BY <1>0, <1>1, <1>3 DEF ReservationHolds

(* Outside an operation there are no claims.                               *)
LEMMA IdleReserves ==
    ASSUME active' = {}, pc' # "panic", Len(lh') <= LOGSIZE, Len(lh') \in Nat
    PROVE  ReservationHolds'
<1>1. Claims' = {}
  BY DEF Claims
<1>2. Cardinality(Claims') = 0
  BY <1>1, FS_EmptySet
<1> QED
  BY <1>2, LogAssumption DEF ReservationHolds

-----------------------------------------------------------------------------
(* The invariant: one lemma per action.                                    *)

(* A fresh disk has an empty header.                                       *)
LEMMA InitInv == Init => IInv
<1> SUFFICES ASSUME Init PROVE IInv
  OBVIOUS
<1> USE LogAssumption DEF Init
<1>1. TypeOK
  <2>1. home \in [Blocks -> Values] /\ logblock \in [Slots -> Values]
    OBVIOUS
  <2>2. header \in Seq(Blocks) /\ Len(header) < nlog /\ lh \in Seq(Blocks) /\ Len(lh) < nlog /\ tail \in 0..(nlog - 1)
    OBVIOUS
  <2>3. cache \in [Blocks -> Values \cup {NotCached}] /\ held \in [Procs -> Blocks \cup {NoBlock}]
    OBVIOUS
  <2>4. dirty \in SUBSET Blocks /\ active \in SUBSET Procs /\ wrote \in [Procs -> SUBSET Blocks]
    OBVIOUS
  <2> QED
    BY <2>1, <2>2, <2>3, <2>4 DEF TypeOK
<1>2. ReservationHolds
  <2>1. Claims = {}
    BY DEF Claims
  <2> QED
    BY <2>1, FS_EmptySet DEF ReservationHolds
<1>3. Distinct(lh) /\ Distinct(header) /\ Len(header) <= LOGSIZE /\ PhaseInv
  BY DEF Distinct, PhaseInv
<1>4. CacheInv
  BY DEF CacheInv
<1>5. OpsInv
  BY FS_EmptySet DEF OpsInv
<1> QED
  BY <1>1, <1>2, <1>3, <1>4, <1>5 DEF IInv

(* A crash leaves the disk as it is, and nothing in memory.                *)
LEMMA CrashInv ==
    ASSUME IInv, Crash
    PROVE  IInv'
<1> USE LogAssumption DEF IInv, Crash, disk
<1>1. TypeOK'
  <2>1. lh' \in Seq(Blocks) /\ Len(lh') < nlog /\ tail' \in 0..(nlog - 1)
    OBVIOUS
  <2>2. cache' \in [Blocks -> Values \cup {NotCached}] /\ held' \in [Procs -> Blocks \cup {NoBlock}]
    OBVIOUS
  <2>3. dirty' \in SUBSET Blocks /\ active' \in SUBSET Procs /\ wrote' \in [Procs -> SUBSET Blocks]
    OBVIOUS
  <2> QED
    BY <2>1, <2>2, <2>3 DEF TypeOK
<1>2. ReservationHolds'
  BY IdleReserves
<1>3. Distinct(lh)' /\ Distinct(header)' /\ (Len(header) <= LOGSIZE)' /\ PhaseInv'
  BY DEF Distinct, PhaseInv
<1>4. CacheInv'
  BY DEF CacheInv
<1>5. OpsInv'
  BY FS_EmptySet DEF OpsInv
<1> QED
  BY <1>1, <1>2, <1>3, <1>4, <1>5

(* bget recycles clean buffers that nobody holds.                          *)
LEMMA BgetInv ==
    ASSUME IInv, NEW b \in Blocks, bget(b)
    PROVE  IInv'
<1> USE LogAssumption DEF IInv, bget, Recyclable, disk, ops
<1>1. TypeOK'
  BY DEF TypeOK
<1>2. ReservationHolds'
  BY DEF ReservationHolds, Claims, Recording
<1>3. Distinct(lh)' /\ Distinct(header)' /\ (Len(header) <= LOGSIZE)'
  BY DEF Distinct
<1>4. PhaseInv'
  <2>1. bread(b)' = bread(b)
    BY DEF bread, CacheInv, TypeOK
  <2>2. \A c \in Blocks : bread(c)' = bread(c)
    BY <2>1 DEF bread, TypeOK
  <2>3. pc = "install" /\ committing => \A i \in DOMAIN lh : i > tail => lh[i] # b
    BY DEF CacheInv, ToInstall
  <2>4. \A i \in 1..tail : lh[i] \in Blocks
    BY DEF PhaseInv, TypeOK
  <2> QED
    BY <2>2, <2>3, <2>4 DEF PhaseInv, TypeOK
<1>5. CacheInv'
  BY DEF CacheInv, ToInstall, Locked, TypeOK
<1>6. OpsInv'
  BY DEF OpsInv, Locked, TypeOK
<1> QED
  BY <1>1, <1>2, <1>3, <1>4, <1>5, <1>6

(* begin_op starts with nothing written.                                   *)
LEMMA BeginInv ==
    ASSUME IInv, NEW p \in Procs, begin_op(p)
    PROVE  IInv'
<1>1. ReservationHolds'
  BY BeginReserves
<1> USE LogAssumption DEF IInv, begin_op, disk
<1>2. TypeOK'
  BY DEF TypeOK
<1>3. Distinct(lh)' /\ Distinct(header)' /\ (Len(header) <= LOGSIZE)' /\ PhaseInv'
  BY DEF Distinct, PhaseInv, bread
<1>4. CacheInv'
  BY DEF CacheInv, ToInstall, Locked
<1>5. OpsInv'
  BY FS_EmptySet DEF OpsInv, TypeOK
<1> QED
  BY <1>1, <1>2, <1>3, <1>4, <1>5

(* log_write changes a buffer it holds.                                    *)
LEMMA WriteInv ==
    ASSUME IInv, NEW p \in Procs, NEW b \in Blocks, NEW v \in Values, log_write(p, b, v)
    PROVE  IInv'
<1>1. ReservationHolds' /\ pc' = "run" /\ IsFiniteSet(wrote'[p]) /\ Cardinality(wrote'[p]) <= OpBlocks
  BY WriteReserves
<1> USE LogAssumption DEF IInv, log_write, disk
<1>2. held' = [held EXCEPT ![p] = b]
  BY <1>1
<1>3. TypeOK'
  BY <1>1, <1>2 DEF TypeOK
<1>4. Distinct(lh)' /\ Distinct(header)' /\ (Len(header) <= LOGSIZE)' /\ PhaseInv'
  BY <1>1 DEF Distinct, PhaseInv, TypeOK
<1>5. CacheInv'
  BY <1>1, <1>2 DEF CacheInv, Locked, TypeOK
<1>6. OpsInv'
  BY <1>1, <1>2 DEF OpsInv, Locked, TypeOK
<1> QED
  BY <1>1, <1>3, <1>4, <1>5, <1>6

(* The rest of log_write pins the buffer, in a place of its own or in the  *)
(* one that its block has.                                                 *)
LEMMA RecordInv ==
    ASSUME IInv, NEW p \in Procs, log_write_record(p)
    PROVE  IInv'
<1>1. ReservationHolds' /\ lh' \in Seq(Blocks) /\ Len(lh') < nlog
  BY RecordReserves
<1> USE LogAssumption DEF IInv, log_write_record, disk
<1>2. held[p] \in Blocks /\ p \in active /\ held[p] \in wrote[p] /\ cache[held[p]] # NotCached
  BY DEF OpsInv, TypeOK
<1>3. TypeOK'
  BY <1>1, <1>2 DEF TypeOK
<1>4. \A b \in Blocks : Contains(lh', b) <=> Contains(lh, b) \/ b = held[p]
  BY <1>2 DEF Absorb, Contains, TypeOK
<1>5. Distinct(lh)'
  BY <1>2 DEF Distinct, Absorb, Contains, TypeOK
<1>6. Distinct(header)' /\ (Len(header) <= LOGSIZE)'
  BY DEF Distinct
<1>7. PhaseInv'
  BY <1>1 DEF PhaseInv, TypeOK
<1>8. CacheInv'
  BY <1>2, <1>4 DEF CacheInv, Locked, TypeOK
<1>9. OpsInv'
  BY <1>2, <1>4 DEF OpsInv, TypeOK
<1> QED
  BY <1>1, <1>3, <1>5, <1>6, <1>7, <1>8, <1>9

(* end_op: the last one out has left nothing to record.                    *)
LEMMA EndInv ==
    ASSUME IInv, NEW p \in Procs, end_op(p)
    PROVE  IInv'
<1>1. ReservationHolds'
  BY EndReserves
<1> USE LogAssumption DEF IInv, end_op, LastOut, disk
<1>2. TypeOK'
  BY DEF TypeOK
<1>3. Distinct(lh)' /\ Distinct(header)' /\ (Len(header) <= LOGSIZE)'
  BY DEF Distinct
<1>4. PhaseInv'
  BY DEF PhaseInv, TypeOK
<1>5. CacheInv'
  BY DEF CacheInv, Locked, TypeOK
<1>6. OpsInv'
  BY FS_EmptySet DEF OpsInv, TypeOK
<1> QED
  BY <1>1, <1>2, <1>3, <1>4, <1>5, <1>6

(* write_log copies the cache, where the transaction is pinned.            *)
LEMMA WriteLogInv ==
    ASSUME IInv, write_log
    PROVE  IInv'
<1> USE LogAssumption DEF IInv, write_log, ops
<1>1. tail + 1 \in Slots /\ tail + 1 \in DOMAIN lh /\ lh[tail + 1] \in Blocks /\ bread(lh[tail + 1]) \in Values
  BY DEF TypeOK, PhaseInv, Slots, bread
<1>2. TypeOK'
  BY <1>1 DEF TypeOK
<1>3. ReservationHolds'
  BY DEF ReservationHolds, Claims, Recording
<1>4. Distinct(lh)' /\ Distinct(header)' /\ (Len(header) <= LOGSIZE)'
  BY DEF Distinct
<1>5. PhaseInv'
  <2>1. \A i \in 1..tail' : logblock'[i] = bread(lh[i])
    BY <1>1 DEF PhaseInv, TypeOK
  <2> QED
    BY <1>1, <2>1 DEF PhaseInv, TypeOK, bread
<1>6. CacheInv'
  BY DEF CacheInv, Locked
<1>7. OpsInv'
  BY DEF OpsInv
<1> QED
  BY <1>2, <1>3, <1>4, <1>5, <1>6, <1>7

(* write_head commits: every pinned block is in the log by now.            *)
LEMMA WriteHeadInv ==
    ASSUME IInv, write_head
    PROVE  IInv'
<1> USE LogAssumption DEF IInv, write_head, LogWritten, ops
<1>1. TypeOK'
  BY DEF TypeOK
<1>2. ReservationHolds'
  BY DEF ReservationHolds, Claims, Recording
<1>3. Distinct(lh)' /\ Distinct(header)'
  BY DEF Distinct
<1>4. (Len(header) <= LOGSIZE)'
  BY <1>2, ClaimsFinite DEF ReservationHolds, TypeOK
<1>5. \A i \in DOMAIN lh : lh[i] \in dirty /\ cache[lh[i]] = logblock[i]
  BY DEF PhaseInv, CacheInv, Contains, bread, TypeOK
<1>6. PhaseInv'
  BY <1>5 DEF PhaseInv, TypeOK
<1>7. CacheInv'
  BY <1>5 DEF CacheInv, ToInstall, Locked, Contains, PhaseInv, TypeOK
<1>8. OpsInv'
  BY DEF OpsInv
<1> QED
  BY <1>1, <1>2, <1>3, <1>4, <1>6, <1>7, <1>8

(* install_trans brings home and cache to what the log has, and unpins.    *)
LEMMA InstallInv ==
    ASSUME IInv, install_trans
    PROVE  IInv'
<1> USE LogAssumption DEF IInv, install_trans, ops
<1> DEFINE b == lh[tail + 1]
<1>1. tail + 1 \in Slots /\ tail + 1 \in DOMAIN lh /\ b \in Blocks /\ logblock[tail + 1] \in Values
  BY DEF TypeOK, PhaseInv, Slots
<1>2. \A i \in DOMAIN lh : lh[i] \in Blocks /\ (lh[i] = b => i = tail + 1)
  BY <1>1 DEF Distinct, TypeOK
<1>3. TypeOK'
  BY <1>1 DEF TypeOK
<1>4. ReservationHolds'
  BY DEF ReservationHolds, Claims, Recording
<1>5. Distinct(lh)' /\ Distinct(header)' /\ (Len(header) <= LOGSIZE)'
  BY DEF Distinct
<1>6. PhaseInv'
  BY <1>1, <1>2 DEF PhaseInv, TypeOK
<1>7. CacheInv'
  <2>1. \A c \in Blocks : ToInstall(c)' <=> ToInstall(c) /\ c # b
    BY <1>1, <1>2 DEF ToInstall, TypeOK
  <2> QED
    BY <1>1, <2>1 DEF CacheInv, Locked, TypeOK
<1>8. OpsInv'
  BY <1>1 DEF OpsInv, PhaseInv, TypeOK
<1> QED
  BY <1>3, <1>4, <1>5, <1>6, <1>7, <1>8

(* clear_head: everything is installed.                                    *)
LEMMA ClearHeadInv ==
    ASSUME IInv, clear_head
    PROVE  IInv'
<1> USE LogAssumption DEF IInv, clear_head, ops
<1>1. TypeOK'
  BY DEF TypeOK
<1>2. active = {} /\ active' = {}
  BY DEF PhaseInv
<1>3. ReservationHolds'
  BY <1>2, IdleReserves
<1>4. Distinct(lh)' /\ Distinct(header)' /\ (Len(header) <= LOGSIZE)'
  BY DEF Distinct
<1>5. PhaseInv'
  BY <1>2 DEF PhaseInv, TypeOK
<1>6. CacheInv'
  BY DEF CacheInv, ToInstall, Locked, Contains, TypeOK
<1>7. OpsInv'
  BY <1>2 DEF OpsInv
<1> QED
  BY <1>1, <1>3, <1>4, <1>5, <1>6, <1>7

(* The end of end_op lets the operations in again.                         *)
LEMMA EndCommitInv ==
    ASSUME IInv, end_commit
    PROVE  IInv'
<1> USE LogAssumption DEF IInv, end_commit, disk, ops
<1>1. TypeOK'
  BY DEF TypeOK
<1>2. ReservationHolds'
  BY DEF ReservationHolds, Claims, Recording
<1>3. Distinct(lh)' /\ Distinct(header)' /\ (Len(header) <= LOGSIZE)' /\ PhaseInv'
  BY DEF Distinct, PhaseInv
<1>4. CacheInv'
  BY DEF CacheInv, Locked
<1>5. OpsInv'
  BY DEF OpsInv
<1> QED
  BY <1>1, <1>2, <1>3, <1>4, <1>5

(* read_head finds the last committed transaction, or none.                *)
LEMMA ReadHeadInv ==
    ASSUME IInv, read_head
    PROVE  IInv'
<1> USE LogAssumption DEF IInv, read_head, disk, ops
<1>1. TypeOK'
  BY DEF TypeOK
<1>2. ReservationHolds'
  BY IdleReserves DEF PhaseInv, TypeOK
<1>3. Distinct(lh)' /\ Distinct(header)' /\ (Len(header) <= LOGSIZE)'
  BY DEF Distinct
<1>4. PhaseInv'
  BY DEF PhaseInv, TypeOK
<1>5. CacheInv'
  BY DEF CacheInv, Locked, PhaseInv
<1>6. OpsInv'
  BY DEF OpsInv, PhaseInv, Contains
<1> QED
  BY <1>1, <1>2, <1>3, <1>4, <1>5, <1>6

(* A step that changes nothing keeps the invariant.                        *)
LEMMA StutterInv ==
    ASSUME IInv, UNCHANGED vars
    PROVE  IInv'
<1> USE DEF vars, IInv
<1>1. TypeOK' /\ ReservationHolds' /\ Distinct(lh)' /\ Distinct(header)' /\ (Len(header) <= LOGSIZE)'
  BY DEF TypeOK, ReservationHolds, Claims, Recording, Distinct
<1>2. PhaseInv' /\ CacheInv' /\ OpsInv'
  BY DEF PhaseInv, bread, CacheInv, Locked, ToInstall, OpsInv
<1> QED
  BY <1>1, <1>2

(* The whole invariant holds in every reachable state.                     *)
THEOREM Invariance == Spec => []IInv
<1>1. IInv /\ [Next]_vars => IInv'
  <2> SUFFICES ASSUME IInv, [Next]_vars PROVE IInv'
    OBVIOUS
  <2>1. ASSUME NEW p \in Procs, begin_op(p) \/ end_op(p) \/ log_write_record(p) PROVE IInv'
    BY <2>1, BeginInv, EndInv, RecordInv
  <2>2. ASSUME NEW p \in Procs, NEW b \in Blocks, NEW v \in Values, log_write(p, b, v) PROVE IInv'
    BY <2>2, WriteInv
  <2>3. ASSUME NEW b \in Blocks, bget(b) PROVE IInv'
    BY <2>3, BgetInv
  <2>4. CASE write_log \/ write_head \/ install_trans \/ clear_head
    BY <2>4, WriteLogInv, WriteHeadInv, InstallInv, ClearHeadInv
  <2>5. CASE end_commit \/ read_head \/ Crash
    BY <2>5, EndCommitInv, ReadHeadInv, CrashInv
  <2>6. CASE UNCHANGED vars
    BY <2>6, StutterInv
  <2> QED
    BY <2>1, <2>2, <2>3, <2>4, <2>5, <2>6 DEF Next
<1> QED
  BY InitInv, <1>1, PTL DEF Spec

(* begin_op and log_write: whatever the operations let in still write, the *)
(* log has room for it, and log_write never panics.                        *)
THEOREM RoomForAll == Spec => []ReservationHolds
<1>1. IInv => ReservationHolds
  BY DEF IInv
<1> QED
  BY <1>1, Invariance, PTL

(* log_write and install_trans: a transaction has each block once, and     *)
(* pinned in the cache until its commit; the state keeps its type.         *)
THEOREM OncePinned == Spec => []LoggedOncePinned
<1>1. IInv => LoggedOncePinned
  <2> SUFFICES ASSUME IInv PROVE LoggedOncePinned
    OBVIOUS
  <2>1. pc \in {"run", "write_log"} => \A i \in DOMAIN lh : lh[i] \in dirty
    BY DEF IInv, CacheInv, Contains, TypeOK
  <2> QED
    BY <2>1 DEF IInv, Distinct, LoggedOncePinned
<1> QED
  BY <1>1, Invariance, PTL

-----------------------------------------------------------------------------
(* The log implements AtomicDisk.                                          *)

View == [b \in Blocks |-> bread(b)]
Volatile == IF Recovering THEN Recovered ELSE View

(* A block that the header has is recovered from its only place in it.     *)
LEMMA RecoveredFrom ==
    ASSUME TypeOK, Distinct(header)
    PROVE  /\ \A i \in DOMAIN header : Recovered[header[i]] = logblock[i]
           /\ \A b \in Blocks : ~Contains(header, b) => Recovered[b] = home[b]
<1>1. ASSUME NEW i \in DOMAIN header PROVE Recovered[header[i]] = logblock[i]
  <2>1. header[i] \in Blocks /\ Contains(header, header[i])
    BY <1>1 DEF TypeOK, Contains
  <2>2. (CHOOSE j \in DOMAIN header : header[j] = header[i]) = i
    BY <1>1 DEF Distinct
  <2> QED
    BY <2>1, <2>2 DEF Recovered
<1> QED
  BY <1>1 DEF Recovered

(* Outside operations, a block that is not in the log is as on the disk.   *)
LEMMA CleanView ==
    ASSUME IInv, active = {}, NEW b \in Blocks, b \notin dirty
    PROVE  bread(b) = home[b]
BY LogAssumption DEF IInv, CacheInv, OpsInv, Locked, bread

(* The running system's view, and what recovery would make of the disk,    *)
(* under each action.                                                      *)
LEMMA MemorySteps ==
    ASSUME IInv, NEW p \in Procs, begin_op(p) \/ end_op(p) \/ log_write_record(p)
    PROVE  Volatile' = Volatile /\ Recovered' = Recovered
<1>1. pc = "run" /\ pc' \in {"run", "write_log", "done"} /\ UNCHANGED <<disk, cache>>
  BY DEF begin_op, end_op, log_write_record
<1>2. Recovered' = Recovered
  BY <1>1 DEF Recovered, disk
<1>3. View' = View
  BY <1>1 DEF View, bread, disk
<1> QED
  BY <1>1, <1>2, <1>3 DEF Volatile, Recovering

(* log_write changes one block for all to see, and nothing on the disk.    *)
LEMMA WriteStep ==
    ASSUME IInv, NEW p \in Procs, NEW b \in Blocks, NEW v \in Values, log_write(p, b, v)
    PROVE  /\ Volatile' = [Volatile EXCEPT ![b] = v]
           /\ Recovered' = Recovered
<1>1. pc = "run" /\ pc' = "run"
  BY WriteReserves DEF log_write
<1>2. Recovered' = Recovered
  BY DEF Recovered, log_write, disk
<1>3. View' = [View EXCEPT ![b] = v]
  <2>1. \A c \in Blocks : bread(c)' = IF c = b THEN v ELSE bread(c)
    BY LogAssumption DEF bread, log_write, disk, IInv, TypeOK
  <2> QED
    BY <2>1 DEF View
<1> QED
  BY <1>1, <1>2, <1>3 DEF Volatile, Recovering

(* A recycled buffer was as the disk has it.                               *)
LEMMA BgetStep ==
    ASSUME IInv, NEW b \in Blocks, bget(b)
    PROVE  Volatile' = Volatile /\ Recovered' = Recovered
<1>1. Recovered' = Recovered
  BY DEF Recovered, bget, disk
<1>2. \A c \in Blocks : bread(c)' = bread(c)
  BY DEF bread, bget, Recyclable, disk, IInv, CacheInv, TypeOK
<1>3. View' = View
  BY <1>2 DEF View
<1> QED
  BY <1>1, <1>3 DEF Volatile, Recovering, bget

(* The header says that the log blocks write_log overwrites are not there. *)
LEMMA WriteLogStep ==
    ASSUME IInv, write_log
    PROVE  Volatile' = Volatile /\ Recovered' = Recovered
<1>1. header = <<>> /\ header' = <<>> /\ home' = home
  BY DEF IInv, PhaseInv, write_log
<1>2. Recovered' = Recovered
  BY <1>1 DEF Recovered, Contains
<1>3. View' = View
  BY DEF View, bread, write_log
<1> QED
  BY <1>2, <1>3 DEF Volatile, Recovering, write_log

(* write_head: all that the operations did becomes what a crash leaves.    *)
LEMMA CommitStep ==
    ASSUME IInv, IInv', write_head
    PROVE  active = {} /\ Volatile' = Volatile /\ Recovered' = Volatile
<1>1. active = {} /\ pc = "write_log" /\ pc' = "install" /\ committing'
  BY DEF write_head, IInv, PhaseInv
<1>2. View' = View
  BY DEF View, bread, write_head
<1>3. ASSUME NEW b \in Blocks PROVE Recovered'[b] = View[b]
  <2>1. CASE Contains(lh, b)
    <3>1. PICK i \in DOMAIN lh : lh[i] = b
      BY <2>1 DEF Contains, IInv, TypeOK
    <3>2. logblock[i] = bread(b)
      BY <3>1 DEF IInv, PhaseInv, write_head, LogWritten, TypeOK
    <3>3. Recovered'[b] = logblock[i]
      <4>1. header' = lh /\ logblock' = logblock /\ (CHOOSE j \in DOMAIN lh : lh[j] = b) = i
        BY <3>1 DEF write_head, IInv, Distinct
      <4> QED
        BY <4>1, <2>1 DEF Recovered
    <3> QED
      BY <3>2, <3>3 DEF View
  <2>2. CASE ~Contains(lh, b)
    <3>1. bread(b) = home[b]
      BY <2>2, <1>1, CleanView DEF IInv, CacheInv
    <3>2. Recovered'[b] = home[b]
      BY <2>2 DEF Recovered, write_head
    <3> QED
      BY <3>1, <3>2 DEF View
  <2> QED
    BY <2>1, <2>2
<1>4. Recovered' = View
  BY <1>3 DEF Recovered, View
<1> QED
  BY <1>1, <1>2, <1>4 DEF Volatile, Recovering

(* install_trans moves to the home locations what recovery would find      *)
(* either way, and what the cache has already.                             *)
LEMMA InstallStep ==
    ASSUME IInv, install_trans
    PROVE  Volatile' = Volatile /\ Recovered' = Recovered
<1> DEFINE b == lh[tail + 1]
<1>1. tail + 1 \in DOMAIN lh /\ b \in Blocks /\ Contains(header, b) /\ logblock[tail + 1] \in Values
  <2>1. tail + 1 \in DOMAIN lh /\ tail + 1 \in Slots /\ header = lh
    BY LogAssumption DEF install_trans, IInv, PhaseInv, TypeOK, Slots
  <2>2. Contains(header, b)
    BY <2>1 DEF Contains, IInv, TypeOK
  <2> QED
    BY <2>1, <2>2 DEF IInv, TypeOK
<1>2. Recovered' = Recovered
  <2>1. \A c \in Blocks : home'[c] = home[c] \/ Contains(header, c)
    BY <1>1 DEF install_trans, IInv, TypeOK
  <2> QED
    BY <2>1 DEF Recovered, install_trans
<1>3. CASE committing
  <2>1. cache[b] = logblock[tail + 1]
    BY <1>1, <1>3 DEF install_trans, IInv, PhaseInv, TypeOK
  <2>2. \A c \in Blocks : bread(c)' = bread(c)
    BY <1>1, <2>1, LogAssumption DEF bread, install_trans, IInv, TypeOK
  <2>3. View' = View
    BY <2>2 DEF View
  <2> QED
    BY <1>2, <1>3, <2>3 DEF Volatile, Recovering, install_trans
<1>4. CASE ~committing
  BY <1>2, <1>4 DEF Volatile, Recovering, install_trans
<1> QED
  BY <1>3, <1>4 DEF IInv, TypeOK

(* clear_head forgets a transaction that the home locations have.          *)
LEMMA ClearHeadStep ==
    ASSUME IInv, clear_head
    PROVE  Volatile' = Volatile /\ Recovered' = Recovered
<1>0. active = {} /\ header = lh /\ home' = home /\ cache' = cache /\ header' = <<>>
  BY DEF clear_head, IInv, PhaseInv
<1>1. \A b \in Blocks : Recovered[b] = home[b]
  <2>1. \A i \in DOMAIN header : home[header[i]] = logblock[i]
    BY <1>0 DEF clear_head, IInv, PhaseInv, TypeOK
  <2>2. ASSUME NEW b \in Blocks, Contains(header, b) PROVE Recovered[b] = home[b]
    <3>1. PICK i \in DOMAIN header : header[i] = b
      BY <2>2 DEF Contains, IInv, TypeOK
    <3> QED
      BY <3>1, <2>1, RecoveredFrom DEF IInv
  <2> QED
    BY <2>2, RecoveredFrom DEF IInv
<1>2. Recovered' = Recovered
  <2>1. \A b \in Blocks : Recovered'[b] = home[b]
    BY <1>0 DEF Recovered, Contains
  <2> QED
    BY <1>1, <2>1 DEF Recovered
<1>3. View' = View
  BY <1>0 DEF View, bread
<1>4. CASE committing
  BY <1>2, <1>3, <1>4 DEF Volatile, Recovering, clear_head
<1>5. CASE ~committing
  <2>1. dirty = {}
    BY <1>5 DEF clear_head, IInv, CacheInv
  <2>2. \A b \in Blocks : bread(b) = home[b]
    BY <2>1, <1>0, CleanView
  <2>3. View = Recovered
    BY <2>2, <1>1 DEF View, Recovered
  <2> QED
    BY <1>2, <1>3, <1>5, <2>3 DEF Volatile, Recovering, clear_head
<1> QED
  BY <1>4, <1>5

(* end_commit and read_head move no data.                                  *)
LEMMA QuietSteps ==
    ASSUME IInv, end_commit \/ read_head
    PROVE  Volatile' = Volatile /\ Recovered' = Recovered
<1>1. UNCHANGED <<home, logblock, header, cache>>
  BY DEF end_commit, read_head, disk
<1>2. Recovered' = Recovered
  BY <1>1 DEF Recovered
<1>3. View' = View
  BY <1>1 DEF View, bread
<1> QED
  BY <1>2, <1>3 DEF Volatile, Recovering, end_commit, read_head, IInv, PhaseInv

(* log.c's opening comment: transactions are atomic under crashes.  Every  *)
(* step of the log is a step of AtomicDisk or none.                        *)
THEOREM LogImplementsAtomicDisk == Spec => LogIsAtomic
<1>1. Init => Atomic!Init
  <2> SUFFICES ASSUME Init PROVE Atomic!Init
    OBVIOUS
  <2>1. Recovered = home
    BY DEF Init, Recovered, Contains
  <2> QED
    BY <2>1 DEF Init, Atomic!Init, Recovering
<1>2. IInv /\ IInv' /\ [Next]_vars => [Atomic!Next]_(Atomic!vars)
  <2> SUFFICES ASSUME IInv, IInv', [Next]_vars PROVE Atomic!Next \/ UNCHANGED Atomic!vars
    OBVIOUS
  <2> USE DEF Volatile, View
  <2>1. ASSUME NEW p \in Procs, begin_op(p) PROVE Atomic!Begin(p)
    BY <2>1, MemorySteps DEF Atomic!Begin, begin_op
  <2>2. ASSUME NEW p \in Procs, end_op(p) PROVE Atomic!End(p)
    BY <2>2, MemorySteps DEF Atomic!End, end_op
  <2>3. ASSUME NEW p \in Procs, log_write_record(p) PROVE UNCHANGED Atomic!vars
    BY <2>3, MemorySteps DEF Atomic!vars, log_write_record
  <2>4. ASSUME NEW p \in Procs, NEW b \in Blocks, NEW v \in Values, log_write(p, b, v) PROVE Atomic!Write(p, b, v)
    BY <2>4, WriteStep DEF Atomic!Write, log_write
  <2>5. ASSUME NEW b \in Blocks, bget(b) PROVE UNCHANGED Atomic!vars
    BY <2>5, BgetStep DEF Atomic!vars, bget, ops
  <2>6. CASE write_log
    BY <2>6, WriteLogStep DEF Atomic!vars, write_log, ops
  <2>7. CASE write_head
    BY <2>7, CommitStep DEF Atomic!Commit, Atomic!Next, write_head, ops
  <2>8. CASE install_trans
    BY <2>8, InstallStep DEF Atomic!vars, install_trans, ops
  <2>9. CASE clear_head
    BY <2>9, ClearHeadStep DEF Atomic!vars, clear_head, ops
  <2>10. CASE end_commit \/ read_head
    BY <2>10, QuietSteps DEF Atomic!vars, end_commit, read_head, ops
  <2>11. CASE Crash
    <3>1. Recovered' = Recovered
      BY <2>11 DEF Crash, Recovered, disk
    <3> QED
      BY <2>11, <3>1 DEF Crash, Atomic!Crash, Atomic!Next, Recovering
  <2>12. CASE UNCHANGED vars
    BY <2>12 DEF vars, Atomic!vars, Recovered, Recovering, bread
  <2> QED
    BY <2>1, <2>2, <2>3, <2>4, <2>5, <2>6, <2>7, <2>8, <2>9, <2>10, <2>11, <2>12 DEF Next, Atomic!Next
<1> QED
  BY <1>1, <1>2, Invariance, PTL DEF Spec, LogIsAtomic, Atomic!Spec
=============================================================================
