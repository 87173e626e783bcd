---------------------------- MODULE BlockIOProofs ----------------------------
(***************************************************************************)
(* Proofs about the block layer, for every number of processes, blocks and *)
(* buffers: the book-keeping of the buffer cache is exact, a process that  *)
(* holds a block reads what was last put there, and the driver's queue     *)
(* matches the processes that wait for it.                                 *)
(***************************************************************************)
EXTENDS BlockIO, SetLemmas, FiniteSetTheorems, SequenceTheorems, TLAPS

\* The types that TypeOK leaves open.
SeqsOK ==
    /\ lru \in Seq(Bufs)
    /\ idequeue \in Seq(Bufs)
    /\ active \in Requests \cup {None}

Users(b) == {p \in Procs : cur[p] = b}

\* Where a process is, the buffer it has, and whether it holds its lock.
ProcInv ==
    /\ \A p \in Procs : (cur[p] = None) = (pc[p] = "idle")
    /\ \A p \in Procs : cur[p] # None => blockno[cur[p]] # None
    /\ \A p \in Procs : pc[p] \in {"iderw", "wait", "use"} => holder[cur[p]] = p
    /\ \A b \in Bufs : holder[b] # None => cur[holder[b]] = b /\ pc[holder[b]] \in {"iderw", "wait", "use"}

\* What the flags say at each place.
FlagInv ==
    /\ \A b \in Bufs : valid[b] => blockno[b] # None
    /\ \A b \in Bufs : dirty[b] => valid[b] /\ b \notin unread
    /\ \A p \in Procs : pc[p] = "use" => valid[cur[p]]
    /\ \A p \in Procs : pc[p] = "iderw" => ~Synced(cur[p])

\* The request at the disk is the one idestart makes of the first buffer.
ActiveInv == active # None => idequeue # <<>> /\ active = idestart(Head(idequeue))

\* A valid buffer has the last contents of its block, and the disk has them
\* unless a dirty buffer does.
DataInv ==
    /\ \A b \in Bufs : valid[b] /\ b \notin unread => data[b] = last[blockno[b]]
    /\ \A k \in Blocks : disk[k] = last[k] \/ \E b \in Bufs : blockno[b] = k /\ dirty[b]

\* Buffers that are dirty and that nobody is writing back.
LogPinned == {b \in Bufs : dirty[b] /\ ~\E p \in Procs : cur[p] = b /\ pc[p] \in {"iderw", "wait"}}
PinInv == Cardinality(LogPinned) <= MaxPinned

\* The inductive invariant.
IInv ==
    /\ TypeOK /\ SeqsOK
    /\ OneBufferPerBlock
    /\ NoBufferLeaked
    /\ ProcInv /\ FlagInv
    /\ QueueMatchesWaiters /\ ActiveInv
    /\ DataInv
    /\ PinInv

-----------------------------------------------------------------------------
(* The list of buffers.                                                    *)

(* The list starts with every buffer once.                                 *)
LEMMA InitialList ==
    LET s == SetToSeq(Bufs) IN s \in Seq(Bufs) /\ Len(s) = Cardinality(Bufs) /\ ToSet(s) = Bufs
<1> DEFINE n == Cardinality(Bufs)
           s == SetToSeq(Bufs)
<1>1. n \in Nat /\ ExistsBijection(1..n, Bufs)
  BY BlockIOAssumption, FS_CardinalityType
<1>2. \E f \in [1..n -> Bufs] : IsInjective(f)
  BY <1>1 DEF ExistsBijection, Bijection, Injection
<1>3. s \in [1..n -> Bufs] /\ IsInjective(s)
  BY <1>2 DEF SetToSeq
<1>4. s \in Injection(1..n, Bufs)
  BY <1>3 DEF Injection
<1>5. Cardinality(1..n) = n
  BY <1>1, FS_Interval
<1>6. s \in Surjection(1..n, Bufs)
  BY <1>4, <1>5, BlockIOAssumption, FS_Injection
<1> HIDE DEF s, n
<1>7. s \in Seq(Bufs) /\ Len(s) = n
  BY <1>1, <1>3
<1>8. ToSet(s) = Bufs
  BY <1>3, <1>6, <1>1 DEF ToSet, Surjection
<1> QED
  BY <1>7, <1>8 DEF s, n

(* bget's search from the tail of the list finds a recyclable buffer if    *)
(* there is one.                                                           *)
LEMMA VictimFound ==
    ASSUME TypeOK, SeqsOK, \E b \in Bufs : Recyclable(b)
    PROVE  Victim \in Bufs /\ Recyclable(Victim)
<1> DEFINE R == {i \in DOMAIN lru : Recyclable(lru[i])}
<1>1. DOMAIN lru = 1..Len(lru) /\ Len(lru) \in Nat
  BY DEF SeqsOK
<1>2. R \in SUBSET Nat /\ \A i \in R : i <= Len(lru)
  BY <1>1
<1>3. R # {}
  BY DEF TypeOK, ToSet
<1>4. PICK i \in R : \A j \in R : j <= i
  <2> HIDE DEF R
  <2> QED
    BY <1>1, <1>2, <1>3, GreatestElement
<1>5. \E x \in DOMAIN lru : Recyclable(lru[x]) /\ \A j \in DOMAIN lru : Recyclable(lru[j]) => j <= x
  BY <1>4
<1>6. PICK x \in DOMAIN lru : Victim = lru[x] /\ Recyclable(lru[x])
  BY <1>5 DEF Victim
<1> QED
  BY <1>6, <1>1 DEF SeqsOK

(* brelse unlinks a buffer and links it again at the head.                 *)
LEMMA RecentList ==
    ASSUME TypeOK, SeqsOK, NEW b \in Bufs
    PROVE  Recent(b) \in Seq(Bufs) /\ Len(Recent(b)) = Len(lru) /\ ToSet(Recent(b)) = Bufs
<1> DEFINE i == CHOOSE i \in DOMAIN lru : lru[i] = b
           pre == SubSeq(lru, 1, i - 1)
           post == SubSeq(lru, i + 1, Len(lru))
           rest == pre \o post
           new == <<b>> \o rest
<1>1. Len(lru) \in Nat /\ DOMAIN lru = 1..Len(lru) /\ \A j \in 1..Len(lru) : lru[j] \in Bufs
  BY DEF SeqsOK
<1>2. i \in 1..Len(lru) /\ lru[i] = b
  <2>1. \E j \in DOMAIN lru : lru[j] = b
    BY DEF TypeOK, ToSet
  <2> QED
    BY <1>1, <2>1
<1> HIDE DEF i
<1>3. pre \in Seq(Bufs) /\ Len(pre) = i - 1 /\ \A j \in 1..(i - 1) : pre[j] = lru[j]
  BY <1>1, <1>2 DEF SeqsOK
<1>4. post \in Seq(Bufs) /\ Len(post) = Len(lru) - i /\ \A j \in 1..(Len(lru) - i) : post[j] = lru[i + j]
  BY <1>1, <1>2 DEF SeqsOK
<1> HIDE DEF pre, post
<1>5. /\ rest \in Seq(Bufs) /\ Len(rest) = Len(lru) - 1
      /\ \A j \in 1..(Len(lru) - 1) : rest[j] = IF j < i THEN lru[j] ELSE lru[j + 1]
  <2>1. /\ rest \in Seq(Bufs) /\ Len(rest) = Len(pre) + Len(post)
        /\ \A j \in 1..(Len(pre) + Len(post)) : rest[j] = IF j <= Len(pre) THEN pre[j] ELSE post[j - Len(pre)]
    BY <1>3, <1>4, ConcatProperties
  <2>2. Len(rest) = Len(lru) - 1
    BY <2>1, <1>1, <1>2, <1>3, <1>4
  <2>3. ASSUME NEW j \in 1..(Len(lru) - 1) PROVE rest[j] = IF j < i THEN lru[j] ELSE lru[j + 1]
    <3>1. j \in 1..(Len(pre) + Len(post))
      BY <2>3, <1>1, <1>2, <1>3, <1>4
    <3>2. CASE j < i
      BY <3>1, <3>2, <2>1, <1>2, <1>3
    <3>3. CASE ~(j < i)
      <4>1. rest[j] = post[j - Len(pre)]
        BY <3>1, <3>3, <2>1, <1>2, <1>3
      <4>2. j - Len(pre) \in 1..(Len(lru) - i) /\ i + (j - Len(pre)) = j + 1
        BY <3>1, <3>3, <1>1, <1>2, <1>3, <1>4
      <4> QED
        BY <4>1, <4>2, <3>3, <1>4
    <3> QED
      BY <3>2, <3>3
  <2> QED
    BY <2>1, <2>2, <2>3
<1> HIDE DEF rest
<1>6. /\ new \in Seq(Bufs) /\ Len(new) = Len(lru) /\ new[1] = b
      /\ \A j \in 1..(Len(lru) - 1) : new[j + 1] = rest[j]
  <2>1. <<b>> \in Seq(Bufs) /\ Len(<<b>>) = 1 /\ <<b>>[1] = b
    OBVIOUS
  <2>2. /\ new \in Seq(Bufs) /\ Len(new) = 1 + Len(rest)
        /\ \A j \in 1..(1 + Len(rest)) : new[j] = IF j <= 1 THEN <<b>>[j] ELSE rest[j - 1]
    BY <1>5, <2>1, ConcatProperties
  <2>3. ASSUME NEW j \in 1..(Len(lru) - 1) PROVE new[j + 1] = rest[j]
    <3>1. j + 1 \in 1..(1 + Len(rest)) /\ ~(j + 1 <= 1) /\ (j + 1) - 1 = j
      BY <1>1, <1>5
    <3> QED
      BY <2>2, <3>1
  <2> QED
    BY <2>1, <2>2, <2>3, <1>1, <1>2, <1>5
<1> HIDE DEF new
<1>7. ToSet(new) = Bufs
  <2>1. ASSUME NEW c \in Bufs PROVE \E j \in DOMAIN new : new[j] = c
    <3>1. PICK m \in 1..Len(lru) : lru[m] = c
      BY <1>1 DEF TypeOK, ToSet
    <3>2. CASE m = i
      BY <3>1, <3>2, <1>1, <1>2, <1>6
    <3>3. CASE m < i
      <4>1. m \in 1..(Len(lru) - 1) /\ rest[m] = c /\ m + 1 \in DOMAIN new
        BY <3>1, <3>3, <1>1, <1>2, <1>5, <1>6
      <4> QED
        BY <4>1, <1>6
    <3>4. CASE m > i
      <4>1. m - 1 \in 1..(Len(lru) - 1) /\ rest[m - 1] = c /\ m \in DOMAIN new
        BY <3>1, <3>4, <1>1, <1>2, <1>5, <1>6
      <4>2. new[(m - 1) + 1] = rest[m - 1] /\ (m - 1) + 1 = m
        BY <4>1, <1>6, <3>1
      <4> QED
        BY <4>1, <4>2
    <3> QED
      BY <3>2, <3>3, <3>4, <1>1, <1>2
  <2>2. \A j \in DOMAIN new : new[j] \in Bufs
    BY <1>6
  <2> QED
    BY <2>1, <2>2 DEF ToSet
<1>8. RemoveAt(lru, i) = rest
  BY DEF rest, pre, post, RemoveAt
<1>9. Recent(b) = new \/ Recent(b) = lru
  BY <1>8 DEF Recent, new, i
<1> QED
  BY <1>6, <1>7, <1>9 DEF TypeOK, SeqsOK

-----------------------------------------------------------------------------
(* References and pinned buffers.                                          *)

(* A buffer with refcnt 0 is nobody's, so its lock is free and it is not   *)
(* in the driver's queue.                                                  *)
LEMMA Unused ==
    ASSUME IInv, NEW b \in Bufs, refcnt[b] = 0
    PROVE  /\ \A p \in Procs : cur[p] # b
           /\ holder[b] = None
           /\ \A i \in DOMAIN idequeue : idequeue[i] # b
<1>1. Users(b) \in SUBSET Procs /\ IsFiniteSet(Users(b)) /\ Cardinality(Users(b)) = 0
  BY BlockIOAssumption, FS_Subset DEF IInv, NoBufferLeaked, Users
<1>2. \A p \in Procs : cur[p] # b
  BY <1>1, FS_EmptySet DEF Users
<1>3. holder[b] = None
  BY <1>2 DEF IInv, ProcInv, TypeOK
<1>4. \A i \in DOMAIN idequeue : idequeue[i] # b
  BY <1>2 DEF IInv, QueueMatchesWaiters, ToSet
<1> QED
  BY <1>2, <1>3, <1>4

(* A buffer with a reference is somebody's.                                *)
LEMMA Used ==
    ASSUME IInv, NEW b \in Bufs, refcnt[b] # 0
    PROVE  \E p \in Procs : cur[p] = b
<1>1. Cardinality(Users(b)) # 0
  BY DEF IInv, NoBufferLeaked, Users
<1>2. Users(b) # {}
  BY <1>1, FS_EmptySet
<1> QED
  BY <1>2 DEF Users

(* If no more buffers are pinned than before, the bound stays.             *)
LEMMA PinsShrink ==
    ASSUME IInv, LogPinned' \subseteq LogPinned
    PROVE  PinInv'
<1>1. LogPinned \in SUBSET Bufs /\ IsFiniteSet(LogPinned)
  BY BlockIOAssumption, FS_Subset DEF LogPinned
<1>2. IsFiniteSet(LogPinned') /\ Cardinality(LogPinned') <= Cardinality(LogPinned)
  BY <1>1, FS_Subset
<1>3. Cardinality(LogPinned') \in Nat /\ Cardinality(LogPinned) \in Nat
  BY <1>1, <1>2, FS_CardinalityType
<1> QED
  BY <1>2, <1>3, BlockIOAssumption DEF PinInv, IInv

(* NoBufferLeaked from its parts: a dirty buffer of nobody is pinned.      *)
LEMMA NoneLeaked ==
    ASSUME TypeOK', PinInv',
           panicked' => \A b \in Bufs : dirty'[b] \/ \E p \in Procs : cur'[p] = b,
           \A b \in Bufs : refcnt'[b] = Cardinality(Users(b)')
    PROVE  NoBufferLeaked'
<1>1. Pinned' \ {cur'[p] : p \in Procs} \in SUBSET LogPinned' /\ LogPinned' \in SUBSET Bufs
  BY DEF Pinned, LogPinned
<1>2. IsFiniteSet(LogPinned')
  BY <1>1, BlockIOAssumption, FS_Subset
<1>3. /\ Cardinality(Pinned' \ {cur'[p] : p \in Procs}) <= Cardinality(LogPinned')
      /\ IsFiniteSet(Pinned' \ {cur'[p] : p \in Procs})
  BY <1>1, <1>2, FS_Subset
<1>4. Cardinality(Pinned' \ {cur'[p] : p \in Procs}) \in Nat /\ Cardinality(LogPinned') \in Nat
  BY <1>2, <1>3, FS_CardinalityType
<1>5. Cardinality(Pinned' \ {cur'[p] : p \in Procs}) <= MaxPinned
  BY <1>3, <1>4, BlockIOAssumption DEF PinInv
<1> QED
  BY <1>5 DEF NoBufferLeaked, Users

(* No count exceeds the number of processes.                               *)
LEMMA CountInRange ==
    ASSUME NEW S \in SUBSET Procs
    PROVE  Cardinality(S) \in 0..Cardinality(Procs)
<1>1. IsFiniteSet(S) /\ Cardinality(S) <= Cardinality(Procs)
  BY BlockIOAssumption, FS_Subset
<1> QED
  BY <1>1, BlockIOAssumption, FS_CardinalityType

-----------------------------------------------------------------------------
(* The invariant: one lemma per action, bget in its three outcomes.        *)

(* Before the first bread.                                                 *)
LEMMA InitInv == Init => IInv
<1> SUFFICES ASSUME Init PROVE IInv
  OBVIOUS
<1> USE BlockIOAssumption DEF Init
<1>1. TypeOK /\ SeqsOK
  <2>1. 0 \in 0..Cardinality(Procs)
    BY FS_CardinalityType
  <2>2. lru \in Seq(Bufs) /\ Len(lru) = Cardinality(Bufs) /\ ToSet(lru) = Bufs
    BY InitialList
  <2>3. idequeue \in Seq(Bufs) /\ ToSet(idequeue) \subseteq Bufs
    BY DEF ToSet
  <2> QED
    BY <2>1, <2>2, <2>3 DEF TypeOK, SeqsOK, Labels
<1>2. \A b \in Bufs : Users(b) = {}
  BY DEF Users
<1>3. LogPinned = {}
  BY DEF LogPinned
<1>4. PinInv
  BY <1>3, FS_EmptySet DEF PinInv
<1>5. NoBufferLeaked
  <2>1. Pinned \ {cur[p] : p \in Procs} = {}
    BY DEF Pinned
  <2>2. \A b \in Bufs : refcnt[b] = Cardinality(Users(b))
    BY <1>2, FS_EmptySet
  <2>3. Cardinality(Pinned \ {cur[p] : p \in Procs}) <= MaxPinned
    <3>1. Cardinality(Pinned \ {cur[p] : p \in Procs}) = 0
      BY <2>1, FS_EmptySet
    <3> QED
      BY <3>1
  <2> QED
    BY <2>2, <2>3 DEF NoBufferLeaked, Users
<1>6. OneBufferPerBlock /\ ProcInv /\ FlagInv /\ QueueMatchesWaiters /\ ActiveInv /\ DataInv
  BY DEF OneBufferPerBlock, ProcInv, FlagInv, Synced, QueueMatchesWaiters, ActiveInv, DataInv, ToSet
<1> QED
  BY <1>1, <1>4, <1>5, <1>6 DEF IInv

(* bget finds the block: one more reference.                               *)
LEMMA BgetHit ==
    ASSUME IInv, NEW p \in Procs, NEW k \in Blocks, NEW b \in Cached(k), Awake(p, "idle"),
           refcnt' = [refcnt EXCEPT ![b] = @ + 1], cur' = [cur EXCEPT ![p] = b], Goto(p, "lock"),
           UNCHANGED <<blockno, flags, unread, panicked, lru, data, holder, ide, last>>
    PROVE  IInv'
<1> USE BlockIOAssumption DEF IInv, Goto, flags, ide
<1>1. b \in Bufs /\ blockno[b] = k /\ pc[p] = "idle" /\ cur[p] = None /\ ~panicked
  BY DEF Cached, Awake, ProcInv
<1>2. \A c \in Bufs : Users(c)' = IF c = b THEN Users(b) \cup {p} ELSE Users(c)
  BY <1>1 DEF Users, TypeOK
<1>3. \A c \in Bufs : Cardinality(Users(c)) = refcnt[c]
  BY DEF NoBufferLeaked, Users
<1>4. \A c \in Bufs : refcnt'[c] = Cardinality(Users(c)')
  <2>1. IsFiniteSet(Users(b)) /\ p \notin Users(b)
    BY <1>1, FS_Subset DEF Users
  <2>2. Cardinality(Users(b) \cup {p}) = Cardinality(Users(b)) + 1
    BY <2>1, FS_AddElement
  <2> QED
    BY <1>1, <1>2, <1>3, <2>2 DEF TypeOK
<1>5. TypeOK' /\ SeqsOK'
  <2>1. \A c \in Bufs : Users(c)' \in SUBSET Procs
    BY DEF Users
  <2>2. \A c \in Bufs : refcnt'[c] \in 0..Cardinality(Procs)
    BY <1>4, <2>1, CountInRange
  <2> QED
    BY <1>1, <2>2 DEF TypeOK, SeqsOK, Labels, ToSet
<1>6. OneBufferPerBlock'
  BY DEF OneBufferPerBlock
<1>7. LogPinned' \subseteq LogPinned
  BY <1>1 DEF LogPinned, TypeOK
<1>8. PinInv'
  BY <1>7, PinsShrink
<1>9. NoBufferLeaked'
  BY <1>1, <1>4, <1>5, <1>8, NoneLeaked
<1>10. ProcInv' /\ FlagInv'
  BY <1>1 DEF ProcInv, FlagInv, Synced, TypeOK
<1>11. QueueMatchesWaiters'
  BY <1>1 DEF QueueMatchesWaiters, Synced, ToSet, TypeOK
<1>12. ActiveInv' /\ DataInv'
  BY DEF ActiveInv, idestart, DataInv
<1> QED
  BY <1>5, <1>6, <1>8, <1>9, <1>10, <1>11, <1>12

(* bget recycles a clean buffer that nobody uses: the disk has the block   *)
(* that leaves the cache, and the driver does not have the buffer.         *)
LEMMA BgetRecycle ==
    ASSUME IInv, NEW p \in Procs, NEW k \in Blocks, NEW b \in Bufs, Awake(p, "idle"),
           Cached(k) = {}, Recyclable(b),
           blockno' = [blockno EXCEPT ![b] = k],
           valid' = [valid EXCEPT ![b] = FALSE], dirty' = [dirty EXCEPT ![b] = FALSE],
           refcnt' = [refcnt EXCEPT ![b] = 1], unread' = unread \ {b},
           cur' = [cur EXCEPT ![p] = b], Goto(p, "lock"),
           UNCHANGED <<panicked, lru, data, holder, ide, last>>
    PROVE  IInv'
<1> USE BlockIOAssumption DEF IInv, Goto, ide
<1>1. pc[p] = "idle" /\ cur[p] = None /\ ~panicked /\ refcnt[b] = 0 /\ ~dirty[b]
  BY DEF Awake, ProcInv, Recyclable
<1>2. \A c \in Bufs : blockno[c] # k
  BY DEF Cached
<1>3. /\ \A q \in Procs : cur[q] # b
      /\ holder[b] = None
      /\ \A i \in DOMAIN idequeue : idequeue[i] # b
  BY <1>1, Unused
<1>4. \A c \in Bufs : refcnt'[c] = Cardinality(Users(c)')
  <2>1. \A c \in Bufs : Users(c)' = IF c = b THEN {p} ELSE Users(c)
    BY <1>1, <1>3 DEF Users, TypeOK
  <2>2. \A c \in Bufs : Cardinality(Users(c)) = refcnt[c]
    BY DEF NoBufferLeaked, Users
  <2> QED
    BY <2>1, <2>2, FS_Singleton DEF TypeOK
<1>5. TypeOK' /\ SeqsOK'
  <2>1. \A c \in Bufs : Users(c)' \in SUBSET Procs
    BY DEF Users
  <2>2. \A c \in Bufs : refcnt'[c] \in 0..Cardinality(Procs)
    BY <1>4, <2>1, CountInRange
  <2> QED
    BY <1>1, <2>2 DEF TypeOK, SeqsOK, Labels, ToSet
<1>6. OneBufferPerBlock'
  BY <1>2 DEF OneBufferPerBlock, TypeOK
<1>7. LogPinned' \subseteq LogPinned
  BY <1>1, <1>3 DEF LogPinned, TypeOK
<1>8. PinInv'
  BY <1>7, PinsShrink
<1>9. NoBufferLeaked'
  BY <1>1, <1>4, <1>5, <1>8, NoneLeaked
<1>10. ProcInv'
  BY <1>1, <1>3 DEF ProcInv, TypeOK
<1>11. FlagInv'
  BY <1>1, <1>3 DEF FlagInv, Synced, TypeOK, ProcInv
<1>12. QueueMatchesWaiters'
  BY <1>1, <1>3 DEF QueueMatchesWaiters, Synced, ToSet, TypeOK
<1>13. ActiveInv'
  <2>1. active # None => Head(idequeue) \in Bufs /\ Head(idequeue) # b
    <3>1. idequeue # <<>> => 1 \in DOMAIN idequeue /\ Head(idequeue) = idequeue[1] /\ idequeue[1] \in Bufs
      BY DEF SeqsOK
    <3> QED
      BY <3>1, <1>3 DEF ActiveInv
  <2> QED
    BY <2>1 DEF ActiveInv, idestart, TypeOK
<1>14. DataInv'
  <2>1. \A j \in Blocks : (\E c \in Bufs : blockno[c] = j /\ dirty[c]) => \E c \in Bufs : blockno'[c] = j /\ dirty'[c]
    BY <1>1, <1>2 DEF TypeOK
  <2>2. \A c \in Bufs : valid'[c] /\ c \notin unread' => data[c] = last[blockno'[c]]
    BY DEF DataInv, TypeOK
  <2> QED
    BY <2>1, <2>2 DEF DataInv
<1> QED
  BY <1>5, <1>6, <1>8, <1>9, <1>10, <1>11, <1>12, <1>13, <1>14

(* bget panics: nothing else changes, and every buffer is dirty or used.   *)
LEMMA BgetPanic ==
    ASSUME IInv, ~\E b \in Bufs : Recyclable(b), panicked',
           UNCHANGED <<blockno, flags, refcnt, unread, cur, pc, lru, data, holder, ide, last>>
    PROVE  IInv'
<1> USE BlockIOAssumption DEF IInv, flags, ide
<1>1. TypeOK' /\ SeqsOK'
  BY DEF TypeOK, SeqsOK
<1>2. LogPinned' \subseteq LogPinned
  BY DEF LogPinned
<1>3. PinInv'
  BY <1>2, PinsShrink
<1>4. \A b \in Bufs : dirty'[b] \/ \E p \in Procs : cur'[p] = b
  BY Used DEF Recyclable
<1>5. NoBufferLeaked'
  <2>1. \A b \in Bufs : refcnt'[b] = Cardinality(Users(b)')
    BY DEF NoBufferLeaked, Users
  <2> QED
    BY <1>1, <1>3, <1>4, <2>1, NoneLeaked
<1>6. OneBufferPerBlock' /\ ProcInv' /\ FlagInv'
  BY DEF OneBufferPerBlock, ProcInv, FlagInv, Synced
<1>7. QueueMatchesWaiters' /\ ActiveInv' /\ DataInv'
  BY DEF QueueMatchesWaiters, Synced, ActiveInv, idestart, DataInv
<1> QED
  BY <1>1, <1>3, <1>5, <1>6, <1>7

(* bget, whatever it finds.                                                *)
LEMMA BgetInv ==
    ASSUME IInv, NEW p \in Procs, NEW k \in Blocks, bget(p, k)
    PROVE  IInv'
<1>1. CASE \E b \in Cached(k) :
             /\ refcnt' = [refcnt EXCEPT ![b] = @ + 1] /\ cur' = [cur EXCEPT ![p] = b] /\ Goto(p, "lock")
             /\ UNCHANGED <<blockno, flags, unread, panicked>>
  BY <1>1, BgetHit DEF bget
<1>2. CASE /\ Cached(k) = {} /\ \E b \in Bufs : Recyclable(b)
           /\ blockno' = [blockno EXCEPT ![Victim] = k]
           /\ valid' = [valid EXCEPT ![Victim] = FALSE] /\ dirty' = [dirty EXCEPT ![Victim] = FALSE]
           /\ refcnt' = [refcnt EXCEPT ![Victim] = 1] /\ unread' = unread \ {Victim}
           /\ cur' = [cur EXCEPT ![p] = Victim] /\ Goto(p, "lock") /\ UNCHANGED panicked
  <2>1. Victim \in Bufs /\ Recyclable(Victim)
    BY <1>2, VictimFound DEF IInv
  <2> QED
    BY <1>2, <2>1, BgetRecycle DEF bget
<1>3. CASE /\ ~\E b \in Bufs : Recyclable(b)
           /\ panicked' = TRUE
           /\ UNCHANGED <<blockno, flags, refcnt, unread, cur, pc>>
  BY <1>3, BgetPanic DEF bget
<1> QED
  BY <1>1, <1>2, <1>3 DEF bget

(* An action that leaves references and buffers' users alone keeps the     *)
(* counts.                                                                 *)
LEMMA SameUsers ==
    ASSUME IInv, UNCHANGED <<refcnt, cur>>
    PROVE  \A b \in Bufs : refcnt'[b] = Cardinality(Users(b)')
BY DEF IInv, NoBufferLeaked, Users

(* A process past bget has a buffer, and past acquiresleep its lock.       *)
LEMMA AtWork ==
    ASSUME IInv, NEW p \in Procs, pc[p] # "idle"
    PROVE  /\ cur[p] \in Bufs /\ cur[p] # None /\ blockno[cur[p]] \in Blocks
           /\ pc[p] \in {"iderw", "wait", "use"} => holder[cur[p]] = p
           /\ pc[p] = "use" => valid[cur[p]]
<1>1. cur[p] # None
  BY DEF IInv, ProcInv
<1>2. cur[p] \in Bufs
  BY <1>1 DEF IInv, TypeOK
<1>3. blockno[cur[p]] # None /\ (pc[p] \in {"iderw", "wait", "use"} => holder[cur[p]] = p)
  BY <1>1 DEF IInv, ProcInv
<1>4. pc[p] = "use" => valid[cur[p]]
  BY DEF IInv, FlagInv
<1> QED
  BY <1>1, <1>2, <1>3, <1>4 DEF IInv, TypeOK

(* acquiresleep, and what follows it up to iderw: the lock is free or the  *)
(* process sleeps.                                                         *)
LEMMA AcquireInv ==
    ASSUME IInv, NEW p \in Procs, acquiresleep(p)
    PROVE  IInv'
<1> USE BlockIOAssumption DEF IInv, acquiresleep, Goto, cache, flags, ide
<1> DEFINE b == cur[p]
<1>0. \/ UNCHANGED <<holder, pc>>
      \/ /\ holder[b] = None /\ holder' = [holder EXCEPT ![b] = p]
         /\ valid[b] /\ pc' = [pc EXCEPT ![p] = "use"]
      \/ /\ holder[b] = None /\ holder' = [holder EXCEPT ![b] = p]
         /\ ~valid[b] /\ pc' = [pc EXCEPT ![p] = "iderw"]
  OBVIOUS
<1>1. pc[p] = "lock" /\ b \in Bufs /\ b # None /\ ~panicked
  BY AtWork DEF Awake
<1>2. TypeOK' /\ SeqsOK'
  <2>1. holder' \in [Bufs -> Procs \cup {None}]
    BY <1>0, <1>1 DEF TypeOK
  <2>2. pc' \in [Procs -> Labels]
    BY <1>0 DEF TypeOK, Labels
  <2> QED
    BY <2>1, <2>2 DEF TypeOK, SeqsOK
<1>3. PinInv'
  <2>1. LogPinned' \subseteq LogPinned
    BY <1>0, <1>1 DEF LogPinned, TypeOK, FlagInv
  <2> QED
    BY <2>1, PinsShrink
<1>4. NoBufferLeaked'
  BY <1>1, <1>2, <1>3, SameUsers, NoneLeaked
<1>5. OneBufferPerBlock' /\ ActiveInv' /\ DataInv'
  BY DEF OneBufferPerBlock, ActiveInv, idestart, DataInv
<1>6. ProcInv'
  <2>1. CASE UNCHANGED <<holder, pc>>
    BY <2>1 DEF ProcInv
  <2>2. CASE /\ holder[b] = None /\ holder' = [holder EXCEPT ![b] = p]
             /\ pc' \in {[pc EXCEPT ![p] = "use"], [pc EXCEPT ![p] = "iderw"]}
    <3>1. \A q \in Procs : q # p => pc'[q] = pc[q]
      BY <2>2 DEF TypeOK
    <3>2. pc'[p] \in {"use", "iderw"}
      BY <2>2 DEF TypeOK
    <3>3. \A c \in Bufs : holder'[c] = IF c = b THEN p ELSE holder[c]
      BY <2>2, <1>1 DEF TypeOK
    <3>4. \A q \in Procs : (cur[q] = None) = (pc'[q] = "idle")
      BY <3>1, <3>2, <1>1 DEF ProcInv
    <3>5. ASSUME NEW q \in Procs, pc'[q] \in {"iderw", "wait", "use"} PROVE holder'[cur[q]] = q
      BY <3>5, <3>1, <3>2, <3>3, <2>2, <1>1, AtWork
    <3>6. ASSUME NEW c \in Bufs, holder'[c] # None
          PROVE  cur[holder'[c]] = c /\ pc'[holder'[c]] \in {"iderw", "wait", "use"}
      <4>1. c # b => holder[c] \in Procs /\ holder[c] # p
        BY <3>6, <3>3, <1>1 DEF ProcInv, TypeOK
      <4> QED
        BY <4>1, <3>6, <3>1, <3>2, <3>3 DEF ProcInv
    <3> QED
      BY <3>4, <3>5, <3>6 DEF ProcInv
  <2> QED
    BY <1>0, <2>1, <2>2
<1>7. FlagInv'
  BY <1>0, <1>1 DEF FlagInv, Synced, TypeOK
<1>8. QueueMatchesWaiters'
  <2>1. \A c \in ToSet(idequeue) : \A q \in Procs : holder[c] = q => holder'[c] = q
    BY <1>0, <1>1 DEF TypeOK
  <2>2. \A q \in Procs : pc[q] = "wait" => pc'[q] = "wait"
    BY <1>0, <1>1 DEF TypeOK
  <2> QED
    BY <2>1, <2>2 DEF QueueMatchesWaiters, Synced
<1> QED
  BY <1>2, <1>3, <1>4, <1>5, <1>6, <1>7, <1>8

(* The holder of a buffer changes its contents, and goes on to bwrite or   *)
(* leaves it to the log.                                                   *)
LEMMA HolderWrites ==
    ASSUME IInv, NEW p \in Procs, NEW v \in Values, Awake(p, "use"),
           data' = [data EXCEPT ![cur[p]] = v], dirty' = [dirty EXCEPT ![cur[p]] = TRUE],
           last' = [last EXCEPT ![blockno[cur[p]]] = v], unread' = unread \ {cur[p]},
           pc' = pc \/ Goto(p, "iderw"), PinInv',
           UNCHANGED <<cache, valid, holder, ide, cur, panicked>>
    PROVE  IInv'
<1> USE BlockIOAssumption DEF IInv, Goto, cache, ide
<1> DEFINE b == cur[p]
<1>1. /\ pc[p] = "use" /\ b \in Bufs /\ b # None /\ ~panicked /\ holder[b] = p
      /\ blockno[b] \in Blocks /\ valid[b]
  BY AtWork DEF Awake
<1>2. TypeOK' /\ SeqsOK'
  BY <1>1 DEF TypeOK, SeqsOK, Labels
<1>3. NoBufferLeaked'
  BY <1>1, <1>2, SameUsers, NoneLeaked
<1>4. OneBufferPerBlock'
  BY DEF OneBufferPerBlock
<1>5. ProcInv'
  <2>1. \A q \in Procs : pc'[q] = pc[q] \/ (q = p /\ pc'[q] = "iderw")
    BY DEF TypeOK
  <2>2. \A q \in Procs : /\ (cur[q] = None) = (pc'[q] = "idle")
                         /\ pc'[q] \in {"iderw", "wait", "use"} <=> pc[q] \in {"iderw", "wait", "use"}
    BY <1>1, <2>1 DEF ProcInv
  <2>3. \A c \in Bufs : holder[c] # None => holder[c] \in Procs
    BY DEF TypeOK
  <2> QED
    BY <2>2, <2>3 DEF ProcInv
<1>6. FlagInv'
  BY <1>1 DEF FlagInv, Synced, TypeOK, ProcInv
<1>7. \A c \in ToSet(idequeue) : c # b
  BY <1>1 DEF QueueMatchesWaiters
<1>8. QueueMatchesWaiters'
  BY <1>1, <1>7 DEF QueueMatchesWaiters, Synced, TypeOK
<1>9. ActiveInv'
  <2>1. idequeue # <<>> => Head(idequeue) \in ToSet(idequeue)
    BY DEF SeqsOK, ToSet
  <2> QED
    BY <1>1, <1>7, <2>1 DEF ActiveInv, idestart, TypeOK
<1>10. DataInv'
  <2>1. \A c \in Bufs : blockno[c] = blockno[b] => c = b
    BY <1>1 DEF OneBufferPerBlock
  <2>2. ASSUME NEW c \in Bufs, valid'[c], c \notin unread' PROVE data'[c] = last'[blockno'[c]]
    <3>1. CASE c = b
      BY <1>1, <3>1 DEF TypeOK
    <3>2. CASE c # b
      <4>1. blockno[c] # blockno[b] /\ blockno[c] \in Blocks
        BY <2>1, <2>2, <3>2 DEF FlagInv, TypeOK
      <4> QED
        BY <1>1, <2>2, <3>2, <4>1 DEF DataInv, TypeOK
    <3> QED
      BY <3>1, <3>2
  <2>3. ASSUME NEW k \in Blocks PROVE disk'[k] = last'[k] \/ \E c \in Bufs : blockno'[c] = k /\ dirty'[c]
    BY <1>1 DEF DataInv, TypeOK
  <2> QED
    BY <2>2, <2>3 DEF DataInv
<1> QED
  BY <1>2, <1>3, <1>4, <1>5, <1>6, <1>8, <1>9, <1>10

(* bwrite: the buffer is written back before the holder goes on.           *)
LEMMA BwriteInv ==
    ASSUME IInv, NEW p \in Procs, NEW v \in Values, bwrite(p, v)
    PROVE  IInv'
<1>1. LogPinned' \subseteq LogPinned
  BY BlockIOAssumption DEF LogPinned, bwrite, Goto, IInv, TypeOK, Awake, ProcInv
<1>2. PinInv'
  BY <1>1, PinsShrink
<1> QED
  BY <1>2, HolderWrites DEF bwrite

(* log_write pins within the bound.                                        *)
LEMMA LogWriteInv ==
    ASSUME IInv, NEW p \in Procs, NEW v \in Values, log_write(p, v)
    PROVE  IInv'
<1>1. LogPinned' \in SUBSET (Pinned \cup {cur[p]}) /\ Pinned \cup {cur[p]} \in SUBSET Bufs
  <2>1. cur[p] \in Bufs
    BY AtWork DEF log_write, Awake
  <2> QED
    BY <2>1 DEF LogPinned, Pinned, log_write, IInv, TypeOK
<1>2. IsFiniteSet(Pinned \cup {cur[p]})
  BY <1>1, BlockIOAssumption, FS_Subset
<1>3. Cardinality(LogPinned') <= Cardinality(Pinned \cup {cur[p]}) /\ IsFiniteSet(LogPinned')
  BY <1>1, <1>2, FS_Subset
<1>4. Cardinality(LogPinned') \in Nat /\ Cardinality(Pinned \cup {cur[p]}) \in Nat
  BY <1>2, <1>3, FS_CardinalityType
<1>5. PinInv'
  BY <1>3, <1>4, BlockIOAssumption DEF PinInv, log_write
<1> QED
  BY <1>5, HolderWrites DEF log_write

(* releasesleep gives up the lock, not the reference.                      *)
LEMMA ReleaseInv ==
    ASSUME IInv, NEW p \in Procs, releasesleep(p)
    PROVE  IInv'
<1> USE BlockIOAssumption DEF IInv, releasesleep, Goto, cache, flags, ide
<1> DEFINE b == cur[p]
<1>1. pc[p] = "use" /\ b \in Bufs /\ b # None /\ ~panicked /\ holder[b] = p
  BY AtWork DEF Awake
<1>2. TypeOK' /\ SeqsOK'
  BY <1>1 DEF TypeOK, SeqsOK, Labels
<1>3. PinInv'
  <2>1. LogPinned' \subseteq LogPinned
    BY <1>1 DEF LogPinned, TypeOK
  <2> QED
    BY <2>1, PinsShrink
<1>4. NoBufferLeaked'
  BY <1>1, <1>2, <1>3, SameUsers, NoneLeaked
<1>5. OneBufferPerBlock' /\ ActiveInv' /\ DataInv'
  BY DEF OneBufferPerBlock, ActiveInv, idestart, DataInv
<1>6. ProcInv' /\ FlagInv'
  BY <1>1 DEF ProcInv, FlagInv, Synced, TypeOK
<1>7. QueueMatchesWaiters'
  BY <1>1 DEF QueueMatchesWaiters, Synced, ToSet, TypeOK
<1> QED
  BY <1>2, <1>3, <1>4, <1>5, <1>6, <1>7

(* The rest of brelse: one reference less, and the list in a new order.    *)
LEMMA BrelseInv ==
    ASSUME IInv, NEW p \in Procs, brelse(p)
    PROVE  IInv'
<1> USE BlockIOAssumption DEF IInv, brelse, Goto, Dropped, flags, ide
<1> DEFINE b == cur[p]
<1>1. pc[p] = "brelse" /\ b \in Bufs /\ b # None /\ ~panicked
  BY AtWork DEF Awake
<1>2. \A c \in Bufs : refcnt'[c] = Cardinality(Users(c)')
  <2>1. \A c \in Bufs : Users(c)' = IF c = b THEN Users(b) \ {p} ELSE Users(c)
    BY <1>1 DEF Users, TypeOK
  <2>2. \A c \in Bufs : Cardinality(Users(c)) = refcnt[c]
    BY DEF NoBufferLeaked, Users
  <2>3. IsFiniteSet(Users(b)) /\ p \in Users(b)
    BY <1>1, FS_Subset DEF Users
  <2>4. Cardinality(Users(b) \ {p}) = Cardinality(Users(b)) - 1
    BY <2>3, FS_RemoveElement
  <2> QED
    BY <1>1, <2>1, <2>2, <2>4 DEF TypeOK
<1>3. TypeOK' /\ SeqsOK'
  <2>1. \A c \in Bufs : Users(c)' \in SUBSET Procs
    BY DEF Users
  <2>2. \A c \in Bufs : refcnt'[c] \in 0..Cardinality(Procs)
    BY <1>2, <2>1, CountInRange
  <2>3. lru' \in Seq(Bufs) /\ Len(lru') = Cardinality(Bufs) /\ ToSet(lru') = Bufs
    BY <1>1, RecentList DEF TypeOK
  <2> QED
    BY <1>1, <2>2, <2>3 DEF TypeOK, SeqsOK, Labels
<1>4. PinInv'
  <2>1. LogPinned' \subseteq LogPinned
    BY <1>1 DEF LogPinned, TypeOK
  <2> QED
    BY <2>1, PinsShrink
<1>5. NoBufferLeaked'
  BY <1>1, <1>2, <1>3, <1>4, NoneLeaked
<1>6. OneBufferPerBlock' /\ ActiveInv' /\ DataInv'
  BY DEF OneBufferPerBlock, ActiveInv, idestart, DataInv
<1>7. ProcInv' /\ FlagInv'
  BY <1>1 DEF ProcInv, FlagInv, Synced, TypeOK
<1>8. QueueMatchesWaiters'
  BY <1>1 DEF QueueMatchesWaiters, Synced, ToSet, TypeOK
<1> QED
  BY <1>3, <1>4, <1>5, <1>6, <1>7, <1>8

(* iderw queues a buffer that is not there, and starts an idle disk.       *)
LEMMA IderwInv ==
    ASSUME IInv, NEW p \in Procs, iderw(p)
    PROVE  IInv'
<1> USE BlockIOAssumption DEF IInv, iderw, Goto, cache, flags
<1> DEFINE b == cur[p]
<1>1. pc[p] = "iderw" /\ b \in Bufs /\ b # None /\ ~panicked /\ holder[b] = p /\ ~Synced(b)
  BY AtWork DEF Awake, FlagInv
<1>2. \A i \in DOMAIN idequeue : idequeue[i] # b
  BY <1>1 DEF QueueMatchesWaiters, ToSet
<1>3. /\ idequeue' \in Seq(Bufs) /\ Len(idequeue') = Len(idequeue) + 1 /\ Len(idequeue) \in Nat
      /\ \A i \in 1..Len(idequeue) : idequeue'[i] = idequeue[i]
      /\ idequeue'[Len(idequeue) + 1] = b
  BY <1>1 DEF SeqsOK
<1>4. DOMAIN idequeue' = 1..(Len(idequeue) + 1) /\ DOMAIN idequeue = 1..Len(idequeue)
  BY <1>3 DEF SeqsOK
<1>5. ToSet(idequeue') \subseteq ToSet(idequeue) \cup {b}
  BY <1>3, <1>4 DEF ToSet
<1>6. idestart(b) \in Requests /\ idestart(b) # None
  BY <1>1 DEF idestart, Requests, TypeOK
<1>7. TypeOK' /\ SeqsOK'
  <2>1. active' \in Requests \cup {None}
    BY <1>6 DEF StartIfIdle, SeqsOK
  <2> QED
    BY <1>1, <1>3, <1>5, <2>1 DEF TypeOK, SeqsOK, Labels
<1>8. PinInv'
  <2>1. LogPinned' \subseteq LogPinned
    BY <1>1 DEF LogPinned, TypeOK
  <2> QED
    BY <2>1, PinsShrink
<1>9. NoBufferLeaked'
  BY <1>1, <1>7, <1>8, SameUsers, NoneLeaked
<1>10. OneBufferPerBlock' /\ DataInv'
  BY DEF OneBufferPerBlock, DataInv
<1>11. ProcInv' /\ FlagInv'
  BY <1>1 DEF ProcInv, FlagInv, Synced, TypeOK
<1>12. idequeue' # <<>> /\ Head(idequeue') = IF idequeue = <<>> THEN b ELSE Head(idequeue)
  <2>1. idequeue' # <<>> /\ Head(idequeue') = idequeue'[1]
    BY <1>3
  <2>2. idequeue # <<>> => Head(idequeue) = idequeue[1] /\ 1 \in 1..Len(idequeue)
    BY DEF SeqsOK
  <2> QED
    BY <2>1, <2>2, <1>3
<1>13. ActiveInv' /\ active' # None
  BY <1>6, <1>12 DEF ActiveInv, StartIfIdle, idestart, QueueMatchesWaiters
<1>14. QueueMatchesWaiters'
  <2>1. active'.buf = Head(idequeue')
    BY <1>13 DEF ActiveInv, idestart
  <2>2. \A i, j \in DOMAIN idequeue' : idequeue'[i] = idequeue'[j] => i = j
    BY <1>2, <1>3, <1>4 DEF QueueMatchesWaiters
  <2>3. \A c \in ToSet(idequeue') : ~Synced(c)'
    BY <1>1, <1>5 DEF QueueMatchesWaiters, Synced
  <2>4. \A c \in ToSet(idequeue') : \E q \in Procs : cur'[q] = c /\ holder'[c] = q /\ pc'[q] = "wait"
    BY <1>1, <1>5 DEF QueueMatchesWaiters, TypeOK
  <2> QED
    BY <2>1, <2>2, <2>3, <2>4, <1>12, <1>13 DEF QueueMatchesWaiters
<1> QED
  BY <1>7, <1>8, <1>9, <1>10, <1>11, <1>13, <1>14

(* iderw's loop ends only when the buffer is synchronised.                 *)
LEMMA IowaitInv ==
    ASSUME IInv, NEW p \in Procs, iowait(p)
    PROVE  IInv'
<1> USE BlockIOAssumption DEF IInv, iowait, Goto, cache, flags, ide
<1> DEFINE b == cur[p]
<1>1. pc[p] = "wait" /\ b \in Bufs /\ b # None /\ ~panicked /\ holder[b] = p
  BY AtWork DEF Awake
<1>2. pc' = pc \/ (valid[b] /\ ~dirty[b] /\ pc' = [pc EXCEPT ![p] = "use"])
  BY DEF Synced
<1>3. TypeOK' /\ SeqsOK'
  BY <1>2 DEF TypeOK, SeqsOK, Labels
<1>4. PinInv'
  <2>1. LogPinned' \subseteq LogPinned
    BY <1>1, <1>2 DEF LogPinned, TypeOK
  <2> QED
    BY <2>1, PinsShrink
<1>5. NoBufferLeaked'
  BY <1>1, <1>3, <1>4, SameUsers, NoneLeaked
<1>6. OneBufferPerBlock' /\ ActiveInv' /\ DataInv'
  BY DEF OneBufferPerBlock, ActiveInv, idestart, DataInv
<1>7. ProcInv' /\ FlagInv'
  <2>1. \A q \in Procs : pc'[q] = pc[q] \/ (q = p /\ pc'[q] = "use" /\ valid[cur[q]])
    BY <1>2 DEF TypeOK
  <2>2. \A q \in Procs : /\ pc'[q] = "idle" <=> pc[q] = "idle"
                         /\ pc'[q] \in {"iderw", "wait", "use"} <=> pc[q] \in {"iderw", "wait", "use"}
    BY <1>1, <2>1
  <2>3. \A c \in Bufs : holder[c] # None => holder[c] \in Procs
    BY DEF TypeOK
  <2>4. ProcInv'
    BY <2>2, <2>3 DEF ProcInv
  <2> QED
    BY <2>1, <2>4 DEF FlagInv, Synced
<1>8. QueueMatchesWaiters'
  BY <1>1, <1>2 DEF QueueMatchesWaiters, Synced, TypeOK
<1> QED
  BY <1>3, <1>4, <1>5, <1>6, <1>7, <1>8

(* ideintr finishes the first request and starts the next one.             *)
LEMMA IdeintrInv ==
    ASSUME IInv, NEW fails \in BOOLEAN, ideintr(fails)
    PROVE  IInv'
<1> USE BlockIOAssumption DEF IInv, ideintr, cache
<1> DEFINE b == Head(idequeue)
           n == Len(idequeue)
<1>1. idequeue # <<>> /\ active = idestart(b) /\ ~panicked
  BY DEF ActiveInv
<1>2. n \in Nat \ {0} /\ DOMAIN idequeue = 1..n /\ b = idequeue[1] /\ b \in Bufs /\ b \in ToSet(idequeue)
  BY <1>1 DEF SeqsOK, ToSet
<1>3. /\ idequeue' \in Seq(Bufs) /\ Len(idequeue') = n - 1 /\ DOMAIN idequeue' = 1..(n - 1)
      /\ \A i \in 1..(n - 1) : idequeue'[i] = idequeue[i + 1]
  BY <1>1, <1>2 DEF SeqsOK
<1>4. PICK p \in Procs : cur[p] = b /\ holder[b] = p /\ pc[p] = "wait"
  BY <1>2 DEF QueueMatchesWaiters
<1>5. ~Synced(b) /\ blockno[b] \in Blocks
  BY <1>2, <1>4, AtWork DEF QueueMatchesWaiters
<1>6. ToSet(idequeue') \subseteq ToSet(idequeue) /\ b \notin ToSet(idequeue')
  <2>1. \A i \in 1..(n - 1) : i + 1 \in 1..n /\ i + 1 # 1
    BY <1>2
  <2>2. \A i \in DOMAIN idequeue' : idequeue'[i] \in ToSet(idequeue) /\ idequeue'[i] # b
    BY <2>1, <1>2, <1>3 DEF QueueMatchesWaiters, ToSet
  <2> QED
    BY <2>2 DEF ToSet
<1>7. disk' \in [Blocks -> Values] /\ data' \in [Bufs -> Values] /\ unread' \subseteq Bufs
  <2>1. dirty[b] => active.data \in Values /\ active.buf = b
    BY <1>1, <1>2 DEF idestart, TypeOK
  <2>2. disk' \in [Blocks -> Values]
    BY <1>1, <1>5, <2>1 DEF Performed, TypeOK, idestart
  <2> QED
    BY <1>2, <1>5, <2>2 DEF TypeOK
<1>8. /\ StartNext(Tail(idequeue)) \in Requests \cup {None}
      /\ (StartNext(Tail(idequeue)) = None) = (Tail(idequeue) = <<>>)
      /\ Tail(idequeue) # <<>> => Head(Tail(idequeue)) \in ToSet(idequeue')
  <2>1. ASSUME Tail(idequeue) # <<>>
        PROVE  Head(Tail(idequeue)) \in ToSet(idequeue') /\ Head(Tail(idequeue)) \in Bufs
    <3>1. idequeue' # <<>> /\ idequeue' = Tail(idequeue)
      BY <2>1
    <3>2. Len(idequeue') \in Nat \ {0}
      BY <3>1, <1>3, EmptySeq
    <3>3. Head(idequeue') = idequeue'[1] /\ 1 \in DOMAIN idequeue' /\ idequeue'[1] \in Bufs
      BY <3>2, <1>3
    <3> QED
      BY <3>1, <3>3 DEF ToSet
  <2>2. \A c \in Bufs : idestart(c) \in Requests /\ idestart(c) # None
    BY DEF idestart, Requests, TypeOK
  <2> QED
    BY <2>1, <2>2 DEF StartNext
<1>9. TypeOK' /\ SeqsOK'
  <2>1. valid' \in [Bufs -> BOOLEAN] /\ dirty' \in [Bufs -> BOOLEAN]
    BY <1>2 DEF TypeOK
  <2>2. ToSet(idequeue') \subseteq Bufs
    BY <1>6 DEF TypeOK
  <2>3. SeqsOK'
    BY <1>3, <1>8 DEF SeqsOK
  <2> QED
    BY <2>1, <2>2, <2>3, <1>7 DEF TypeOK
<1>10. PinInv'
  <2>1. LogPinned' \subseteq LogPinned
    BY <1>2 DEF LogPinned, TypeOK
  <2> QED
    BY <2>1, PinsShrink
<1>11. NoBufferLeaked'
  BY <1>1, <1>9, <1>10, SameUsers, NoneLeaked
<1>12. OneBufferPerBlock' /\ ProcInv'
  BY DEF OneBufferPerBlock, ProcInv
<1>13. FlagInv'
  BY <1>2, <1>4, <1>5, AtWork DEF FlagInv, Synced, TypeOK, ProcInv
<1>14. ActiveInv'
  <2>1. SUFFICES ASSUME active' # None PROVE idequeue' # <<>> /\ active' = idestart(Head(idequeue))'
    BY DEF ActiveInv
  <2>2. idequeue' # <<>> /\ Head(idequeue') \in ToSet(idequeue') /\ active' = idestart(Head(Tail(idequeue)))
    BY <2>1, <1>8 DEF StartNext
  <2>3. Head(idequeue') \in Bufs /\ Head(idequeue') # b /\ Head(idequeue') = Head(Tail(idequeue))
    BY <2>2, <1>6 DEF TypeOK
  <2>4. dirty'[Head(idequeue')] = dirty[Head(idequeue')] /\ data'[Head(idequeue')] = data[Head(idequeue')]
    BY <2>3, <1>2 DEF TypeOK
  <2> QED
    BY <2>2, <2>3, <2>4 DEF idestart
<1>15. QueueMatchesWaiters'
  <2>1. (active' = None) = (idequeue' = <<>>)
    <3>1. active' = StartNext(Tail(idequeue)) /\ idequeue' = Tail(idequeue)
      OBVIOUS
    <3> QED
      BY <3>1, <1>8, Zenon
  <2>2. active' # None => active'.buf = Head(idequeue')
    BY <1>8, <1>14 DEF ActiveInv, idestart
  <2>3. \A i, j \in DOMAIN idequeue' : idequeue'[i] = idequeue'[j] => i = j
    BY <1>2, <1>3 DEF QueueMatchesWaiters
  <2>4. \A c \in ToSet(idequeue') : ~Synced(c)'
    BY <1>6 DEF QueueMatchesWaiters, Synced, TypeOK
  <2>5. \A c \in ToSet(idequeue') : \E q \in Procs : cur'[q] = c /\ holder'[c] = q /\ pc'[q] = "wait"
    BY <1>6 DEF QueueMatchesWaiters
  <2> QED
    BY <2>1, <2>2, <2>3, <2>4, <2>5 DEF QueueMatchesWaiters
<1>16. DataInv'
  <2>1. \A c \in Bufs : blockno[c] = blockno[b] => c = b
    BY <1>2, <1>5 DEF OneBufferPerBlock
  <2>2. CASE dirty[b]
    <3>1. valid[b] /\ b \notin unread /\ data[b] = last[blockno[b]]
      BY <2>2, <1>2 DEF FlagInv, DataInv
    <3>2. disk' = [disk EXCEPT ![blockno[b]] = data[b]] /\ data' = data /\ unread' = unread
      BY <2>2, <1>1 DEF Performed, idestart
    <3>3. \A c \in Bufs : valid'[c] /\ c \notin unread' => data'[c] = last'[blockno'[c]]
      BY <3>1, <3>2 DEF DataInv, TypeOK
    <3>4. ASSUME NEW k \in Blocks PROVE disk'[k] = last'[k] \/ \E c \in Bufs : blockno'[c] = k /\ dirty'[c]
      BY <3>1, <3>2, <1>2, <1>5 DEF DataInv, TypeOK
    <3> QED
      BY <3>3, <3>4 DEF DataInv
  <2>3. CASE ~dirty[b]
    <3>1. disk' = disk /\ disk[blockno[b]] = last[blockno[b]]
      BY <2>1, <2>3, <1>1, <1>5 DEF Performed, idestart, DataInv
    <3>2. \A c \in Bufs : valid'[c] /\ c \notin unread' => data'[c] = last'[blockno'[c]]
      BY <2>3, <3>1, <1>2 DEF DataInv, TypeOK
    <3>3. \A k \in Blocks : disk'[k] = last'[k] \/ \E c \in Bufs : blockno'[c] = k /\ dirty'[c]
      BY <2>3, <3>1, <1>2 DEF DataInv, TypeOK
    <3> QED
      BY <3>2, <3>3 DEF DataInv
  <2> QED
    BY <2>2, <2>3
<1> QED
  BY <1>9, <1>10, <1>11, <1>12, <1>13, <1>14, <1>15, <1>16

(* A step that changes nothing keeps the invariant.                        *)
LEMMA StutterInv ==
    ASSUME IInv, UNCHANGED vars
    PROVE  IInv'
<1> USE DEF vars, cache, flags, ide, IInv
<1>1. TypeOK' /\ SeqsOK' /\ OneBufferPerBlock' /\ ProcInv' /\ FlagInv'
  BY DEF TypeOK, SeqsOK, OneBufferPerBlock, ProcInv, FlagInv, Synced
<1>2. NoBufferLeaked' /\ PinInv'
  BY DEF NoBufferLeaked, Pinned, PinInv, LogPinned
<1>3. QueueMatchesWaiters' /\ ActiveInv' /\ DataInv'
  BY DEF QueueMatchesWaiters, Synced, ActiveInv, idestart, DataInv
<1> QED
  BY <1>1, <1>2, <1>3

(* The whole invariant holds in every reachable state.                     *)
THEOREM Invariance == Spec => []IInv
<1>1. IInv /\ [Next]_vars => IInv'
  <2> SUFFICES ASSUME IInv, [Next]_vars PROVE IInv'
    OBVIOUS
  <2>1. ASSUME NEW p \in Procs, NEW k \in Blocks, bget(p, k) PROVE IInv'
    BY <2>1, BgetInv
  <2>2. ASSUME NEW p \in Procs, NEW v \in Values, bwrite(p, v) \/ log_write(p, v) PROVE IInv'
    BY <2>2, BwriteInv, LogWriteInv
  <2>3. ASSUME NEW p \in Procs, acquiresleep(p) \/ releasesleep(p) \/ brelse(p) PROVE IInv'
    BY <2>3, AcquireInv, ReleaseInv, BrelseInv
  <2>4. ASSUME NEW p \in Procs, iderw(p) \/ iowait(p) PROVE IInv'
    BY <2>4, IderwInv, IowaitInv
  <2>5. ASSUME NEW fails \in BOOLEAN, ideintr(fails) PROVE IInv'
    BY <2>5, IdeintrInv
  <2>6. CASE UNCHANGED vars
    BY <2>6, StutterInv
  <2> QED
    BY <2>1, <2>2, <2>3, <2>4, <2>5, <2>6 DEF Next
<1> QED
  BY InitInv, <1>1, PTL DEF Spec

(* bget, brelse: one buffer per block, references counted, no buffer lost  *)
(* to recycling, and the list of buffers whole.                            *)
THEOREM CacheExact == Spec => []BuffersExact
<1>1. IInv => BuffersExact
  BY DEF IInv, BuffersExact
<1> QED
  BY <1>1, Invariance, PTL

(* bread returns what was last put into the block, unless the disk failed  *)
(* the read.                                                               *)
THEOREM LastWriteRead == Spec => []ReadsLastWrite
<1>1. IInv => ReadsLastWrite
  <2> SUFFICES ASSUME IInv, NEW p \in Procs, pc[p] = "use", cur[p] \notin unread
               PROVE  data[cur[p]] = last[blockno[cur[p]]]
    BY DEF ReadsLastWrite
  <2> QED
    BY AtWork DEF IInv, DataInv
<1> QED
  BY <1>1, Invariance, PTL

(* iderw, ideintr: the disk works on the first request, and each request   *)
(* has its waiting process.                                                *)
THEOREM QueueMatches == Spec => []QueueMatchesWaiters
<1>1. IInv => QueueMatchesWaiters
  BY DEF IInv
<1> QED
  BY <1>1, Invariance, PTL
=============================================================================
