---------------------------- MODULE ConsoleProofs ----------------------------
(***************************************************************************)
(* Proofs about console input, for every size of the ring, every wrap of   *)
(* the indices that is a multiple of it, and any number of readers: the    *)
(* indices stay in order, no reader sleeps over a line, and the ring       *)
(* implements the line editor.                                             *)
(*                                                                         *)
(* Everything in the ring is counted from r: the character at distance i   *)
(* is at index (r + i) % Wrap, and as long as there are at most INPUT_BUF  *)
(* of them, no two share a cell.                                           *)
(***************************************************************************)
EXTENDS Console, SetLemmas, SequenceTheorems, TLAPS

\* console.c: INPUT_BUF is 128, the indices are uint and wrap at 2^32.
ConsoleConstants ==
    /\ INPUT_BUF \in Nat \ {0}
    /\ Wrap \in Nat /\ Wrap > INPUT_BUF
    /\ Wrap % INPUT_BUF = 0
    /\ ReadSize \in Nat \ {0}
    /\ Letters \cap {"nl", "^D"} = {}

Index == 0 .. Wrap - 1
Chars == Letters \cup {"nl", "^D", "nul"}

TypeOK ==
    /\ buf \in [Ring -> Chars]
    /\ r \in Index /\ w \in Index /\ e \in Index
    /\ rd \in [Readers -> [pc : {"user", "run", "sleep"}, n : 0 .. ReadSize, killed : BOOLEAN]]

\* The n characters from distance i of x on, in a ring b.
Cells(b, x, i, n) == [k \in 1 .. n |-> b[((x + i + k - 1) % Wrap) % INPUT_BUF]]

Handed == Minus(w, r)
Held == Minus(e, r)
Line == Between(w, e)
Queue == Between(r, w)

\* A full ring has been handed over, and the line being edited has no line end.
LineInv ==
    /\ Held = INPUT_BUF => Handed = Held
    /\ \A i \in Handed .. Held - 1 : buf[((r + i) % Wrap) % INPUT_BUF] # "nl"

\* A reader sleeps only at r = w, and one that reads wants something.
ReaderInv == \A p \in Readers : /\ rd[p].pc = "sleep" => r = w
                                /\ rd[p].pc # "user" => rd[p].n >= 1

\* The inductive invariant.
IInv ==
    /\ ConsoleConstants
    /\ TypeOK
    /\ Handed <= Held /\ Held <= INPUT_BUF
    /\ LineInv
    /\ ReaderInv

-----------------------------------------------------------------------------
(* Indices that wrap.                                                      *)

(* The difference of two indices is the distance from one to the other.    *)
LEMMA Distance ==
    ASSUME ConsoleConstants, NEW x \in Index, NEW y \in Index
    PROVE  /\ Minus(x, y) \in Index
           /\ Minus(x, y) = IF y <= x THEN x - y ELSE x - y + Wrap
           /\ (y + Minus(x, y)) % Wrap = x
           /\ Minus(x, y) = 0 <=> x = y
<1>1. Wrap \in Nat \ {0} /\ x \in Int /\ y \in Int /\ 0 <= x /\ x < Wrap /\ 0 <= y /\ y < Wrap
  BY DEF ConsoleConstants, Index
<1>2. Minus(x, y) = IF y <= x THEN x - y ELSE x - y + Wrap
  BY <1>1 DEF Minus
<1>3. \A z \in Int : 0 <= z /\ z < Wrap => (z + Wrap) % Wrap = z /\ z % Wrap = z
  BY <1>1
<1> QED
  BY <1>1, <1>2, <1>3 DEF Index

(* Going on from an index by less than a round.                            *)
LEMMA Further ==
    ASSUME ConsoleConstants, NEW x \in Index, NEW y \in Index, NEW d \in Nat, Minus(x, y) + d < Wrap
    PROVE  /\ (x + d) % Wrap \in Index
           /\ Minus((x + d) % Wrap, y) = Minus(x, y) + d
           /\ (x + d) % Wrap = (y + Minus(x, y) + d) % Wrap
<1>1. Wrap \in Nat \ {0} /\ x \in Int /\ y \in Int /\ 0 <= x /\ x < Wrap /\ 0 <= y /\ y < Wrap
  BY DEF ConsoleConstants, Index
<1>2. Minus(x, y) = (IF y <= x THEN x - y ELSE x - y + Wrap)
  BY Distance
<1>3. \A z \in Int : 0 <= z /\ z < Wrap => (z + Wrap) % Wrap = z /\ z % Wrap = z
  BY <1>1
<1>4. (x + d) % Wrap = IF x + d < Wrap THEN x + d ELSE x + d - Wrap
  <2>1. CASE x + d < Wrap
    BY <1>1, <1>3, <2>1
  <2>2. CASE x + d >= Wrap
    <3>1. x + d - Wrap \in Int /\ 0 <= x + d - Wrap /\ x + d - Wrap < Wrap
      BY <1>1, <1>2, <2>2
    <3>2. ((x + d - Wrap) + Wrap) % Wrap = x + d - Wrap
      BY <1>3, <3>1
    <3>3. (x + d - Wrap) + Wrap = x + d
      BY <1>1
    <3> QED
      BY <1>1, <2>2, <3>2, <3>3
  <2> QED
    BY <1>1, <2>1, <2>2
<1>5. (x + d) % Wrap \in Index
  BY <1>1, <1>2, <1>4 DEF Index
<1>6. Minus((x + d) % Wrap, y) = (IF y <= (x + d) % Wrap THEN ((x + d) % Wrap) - y ELSE ((x + d) % Wrap) - y + Wrap)
  BY <1>5, Distance
<1>7. Minus((x + d) % Wrap, y) = Minus(x, y) + d
  BY <1>1, <1>2, <1>4, <1>6
<1>8. (y + Minus((x + d) % Wrap, y)) % Wrap = (x + d) % Wrap
  BY <1>5, Distance
<1>9. y + (Minus(x, y) + d) = y + Minus(x, y) + d
  BY <1>1, <1>2
<1> QED
  BY <1>5, <1>7, <1>8, <1>9

(* Going back from an index by no more than the distance.                  *)
LEMMA Nearer ==
    ASSUME ConsoleConstants, NEW x \in Index, NEW y \in Index, NEW d \in Nat, d <= Minus(x, y)
    PROVE  Minus(x, d) \in Index /\ Minus(Minus(x, d), y) = Minus(x, y) - d
<1>1. Wrap \in Nat \ {0} /\ x \in Int /\ y \in Int /\ 0 <= x /\ x < Wrap /\ 0 <= y /\ y < Wrap
  BY DEF ConsoleConstants, Index
<1>2. Minus(x, y) = (IF y <= x THEN x - y ELSE x - y + Wrap) /\ Minus(x, y) < Wrap
  BY <1>1, Distance DEF Index
<1>3. d \in Index
  BY <1>1, <1>2 DEF Index
<1>4. Minus(x, d) = (IF d <= x THEN x - d ELSE x - d + Wrap) /\ Minus(x, d) \in Index
  BY <1>3, Distance
<1>5. Minus(Minus(x, d), y) = IF y <= Minus(x, d) THEN Minus(x, d) - y ELSE Minus(x, d) - y + Wrap
  BY <1>4, Distance
<1> QED
  BY <1>1, <1>2, <1>4, <1>5

(* The distance between two indices, both counted from a third.            *)
LEMMA Apart ==
    ASSUME ConsoleConstants, NEW x \in Index, NEW y \in Index, NEW z \in Index, Minus(y, x) <= Minus(z, x)
    PROVE  Minus(z, y) = Minus(z, x) - Minus(y, x)
<1>1. Wrap \in Nat \ {0} /\ x \in Int /\ y \in Int /\ z \in Int /\ 0 <= x /\ x < Wrap /\ 0 <= y /\ y < Wrap /\ 0 <= z /\ z < Wrap
  BY DEF ConsoleConstants, Index
<1>2. /\ Minus(y, x) = IF x <= y THEN y - x ELSE y - x + Wrap
      /\ Minus(z, x) = IF x <= z THEN z - x ELSE z - x + Wrap
      /\ Minus(z, y) = IF y <= z THEN z - y ELSE z - y + Wrap
  BY Distance
<1> QED
  BY <1>1, <1>2

(* No two of INPUT_BUF characters in a row share a cell of the ring, also  *)
(* where the indices wrap.                                                 *)
LEMMA OwnCell ==
    ASSUME ConsoleConstants, NEW x \in Index, NEW i \in 0 .. INPUT_BUF - 1, NEW j \in 0 .. INPUT_BUF - 1,
           ((x + i) % Wrap) % INPUT_BUF = ((x + j) % Wrap) % INPUT_BUF
    PROVE  i = j
<1> DEFINE B == INPUT_BUF
<1>1. PICK m \in Int : Wrap = B * m
  BY DEF ConsoleConstants
<1>2. B \in Nat \ {0} /\ Wrap \in Nat \ {0} /\ x \in Nat /\ x < Wrap /\ Wrap > B
  BY DEF ConsoleConstants, Index
<1> HIDE DEF B
<1>3. \A z \in Int : z % B = z - B * (z \div B) /\ z \div B \in Int
  BY <1>2
<1>4. \A k \in 0 .. B - 1 : \E s \in {0, 1} : (x + k) % Wrap = x + k - B * (m * s)
  <2> SUFFICES ASSUME NEW k \in 0 .. B - 1 PROVE \E s \in {0, 1} : (x + k) % Wrap = x + k - B * (m * s)
    OBVIOUS
  <2>1. CASE x + k < Wrap
    <3>1. (x + k) % Wrap = x + k - B * (m * 0)
      BY <1>1, <1>2, <2>1
    <3> QED
      BY <3>1
  <2>2. CASE x + k >= Wrap
    <3>1. (x + k) % Wrap = x + k - Wrap
      BY <1>2, <2>2
    <3>2. (x + k) % Wrap = x + k - B * (m * 1)
      BY <1>1, <1>2, <3>1
    <3> QED
      BY <3>2
  <2> QED
    BY <1>2, <2>1, <2>2
<1>5. PICK s \in {0, 1}, t \in {0, 1} : (x + i) % Wrap = x + i - B * (m * s) /\ (x + j) % Wrap = x + j - B * (m * t)
  BY <1>4 DEF B
<1> DEFINE qi == ((x + i) % Wrap) \div B
           qj == ((x + j) % Wrap) \div B
           z == (m * s + qi) - (m * t + qj)
<1>6. i \in Int /\ j \in Int /\ (x + i) % Wrap \in Int /\ (x + j) % Wrap \in Int /\ qi \in Int /\ qj \in Int
  BY <1>2 DEF B
<1>7. (x + i - B * (m * s)) - B * qi = (x + j - B * (m * t)) - B * qj
  <2>1. ((x + i) % Wrap) % B = ((x + i) % Wrap) - B * qi /\ ((x + j) % Wrap) % B = ((x + j) % Wrap) - B * qj
    BY <1>3, <1>6
  <2>2. ((x + i) % Wrap) % B = ((x + j) % Wrap) % B
    BY DEF B
  <2> QED
    BY <1>5, <2>1, <2>2
<1> HIDE DEF qi, qj
<1>8. i - j = B * z /\ z \in Int
  BY <1>2, <1>6, <1>7
<1> HIDE DEF z
<1>9. -B < i - j /\ i - j < B
  BY <1>2, <1>6 DEF B
<1>10. z >= 1 => B * z >= B
  BY <1>2, <1>8
<1>11. z <= -1 => B * z <= -B
  BY <1>2, <1>8
<1>12. z = 0
  BY <1>2, <1>6, <1>8, <1>9, <1>10, <1>11
<1> QED
  BY <1>2, <1>6, <1>8, <1>12

-----------------------------------------------------------------------------
(* What is in the ring, counted from r.                                    *)

(* A stretch of the ring, by its ends or by its distance from x.           *)
LEMMA Stretch ==
    ASSUME ConsoleConstants, NEW b, NEW x \in Index, NEW f \in Index, NEW t \in Index,
           Minus(f, x) <= Minus(t, x)
    PROVE  [k \in 1 .. Minus(t, f) |-> b[((f + k - 1) % Wrap) % INPUT_BUF]]
              = Cells(b, x, Minus(f, x), Minus(t, x) - Minus(f, x))
<1>1. Minus(t, f) = Minus(t, x) - Minus(f, x)
  BY Apart
<1>2. Minus(t, x) \in Nat /\ Minus(f, x) \in Nat /\ Minus(t, x) < Wrap /\ Wrap \in Nat /\ f \in Int /\ x \in Int
  <2>1. Minus(t, x) \in Index /\ Minus(f, x) \in Index
    BY Distance
  <2> QED
    BY <2>1 DEF Index, ConsoleConstants
<1>3. \A k \in 1 .. Minus(t, f) : (f + k - 1) % Wrap = (x + Minus(f, x) + k - 1) % Wrap
  <2> SUFFICES ASSUME NEW k \in 1 .. Minus(t, f) PROVE (f + k - 1) % Wrap = (x + Minus(f, x) + k - 1) % Wrap
    OBVIOUS
  <2>1. k - 1 \in Nat /\ Minus(f, x) + (k - 1) < Wrap
    BY <1>1, <1>2
  <2>2. (f + (k - 1)) % Wrap = (x + Minus(f, x) + (k - 1)) % Wrap
    BY <2>1, Further
  <2>3. f + (k - 1) = f + k - 1 /\ x + Minus(f, x) + (k - 1) = x + Minus(f, x) + k - 1
    BY <1>1, <1>2
  <2> QED
    BY <2>2, <2>3
<1> QED
  BY <1>1, <1>3 DEF Cells

(* The line and the queue as stretches, in this state.                     *)
LEMMA Shape ==
    ASSUME ConsoleConstants, r \in Index, w \in Index, e \in Index, Handed <= Held
    PROVE  /\ Queue = Cells(buf, r, 0, Handed)
           /\ Line = Cells(buf, r, Handed, Held - Handed)
           /\ Handed \in Nat /\ Held \in Nat
<1>1. Handed \in Nat /\ Held \in Nat /\ Minus(r, r) = 0
  BY Distance DEF Handed, Held, Index
<1>2. Queue = Cells(buf, r, Minus(r, r), Minus(w, r) - Minus(r, r))
  <2>1. Minus(r, r) <= Minus(w, r)
    BY <1>1 DEF Handed
  <2> QED
    BY <2>1, Stretch DEF Queue, Between
<1>3. Minus(w, r) - Minus(r, r) = Handed
  BY <1>1 DEF Handed
<1>4. Line = Cells(buf, r, Minus(w, r), Minus(e, r) - Minus(w, r))
  BY Stretch DEF Line, Between, Handed, Held
<1> QED
  BY <1>1, <1>2, <1>3, <1>4 DEF Handed, Held

(* The same in the next state.                                             *)
LEMMA ShapeNext ==
    ASSUME ConsoleConstants, r' \in Index, w' \in Index, e' \in Index, Handed' <= Held'
    PROVE  /\ Queue' = Cells(buf', r', 0, Handed')
           /\ Line' = Cells(buf', r', Handed', Held' - Handed')
           /\ Handed' \in Nat /\ Held' \in Nat
<1>1. Handed' \in Nat /\ Held' \in Nat /\ Minus(r', r') = 0
  BY Distance DEF Handed, Held, Index
<1>2. Queue' = Cells(buf', r', Minus(r', r'), Minus(w', r') - Minus(r', r'))
  BY <1>1, Stretch DEF Queue, Between, Handed, Minus
<1>3. Minus(w', r') - Minus(r', r') = Handed'
  BY <1>1 DEF Handed, Minus
<1>4. Line' = Cells(buf', r', Minus(w', r'), Minus(e', r') - Minus(w', r'))
  BY Stretch DEF Line, Between, Handed, Held, Minus
<1> QED
  BY <1>1, <1>2, <1>3, <1>4 DEF Handed, Held, Minus

(* At the start the ring is empty.                                         *)
LEMMA InitInv == ConsoleConstants /\ ConsoleInit => IInv /\ Terminal!Init
<1> SUFFICES ASSUME ConsoleConstants, ConsoleInit PROVE IInv /\ Terminal!Init
  OBVIOUS
<1>1. r = 0 /\ w = 0 /\ e = 0 /\ 0 \in Index /\ INPUT_BUF \in Nat
  BY DEF ConsoleInit, Index, ConsoleConstants
<1>2. Minus(0, 0) = 0
  BY <1>1, Distance
<1>3. TypeOK
  BY <1>1 DEF ConsoleInit, TypeOK, Idle, Chars, ConsoleConstants
<1>4. LineInv /\ ReaderInv /\ Handed <= Held /\ Held <= INPUT_BUF
  BY <1>1, <1>2 DEF ConsoleInit, LineInv, ReaderInv, Handed, Held, Idle
<1>5. Between(0, 0) = << >>
  BY <1>2 DEF Between
<1>6. Terminal!Init
  BY <1>1, <1>5 DEF Terminal!Init
<1> QED
  BY <1>3, <1>4, <1>6 DEF IInv

(* What every step starts from.                                            *)
LEMMA Basics ==
    ASSUME IInv
    PROVE  /\ ConsoleConstants /\ TypeOK /\ r \in Index /\ w \in Index /\ e \in Index
           /\ Held \in Nat /\ Handed \in Nat /\ Handed <= Held /\ Held <= INPUT_BUF
           /\ INPUT_BUF \in Nat \ {0} /\ Wrap \in Nat \ {0} /\ INPUT_BUF < Wrap
           /\ Queue = Cells(buf, r, 0, Handed) /\ Line = Cells(buf, r, Handed, Held - Handed)
           /\ Len(Queue) = Handed /\ Len(Line) = Held - Handed
<1>1. /\ ConsoleConstants /\ TypeOK /\ r \in Index /\ w \in Index /\ e \in Index
      /\ Handed <= Held /\ Held <= INPUT_BUF
      /\ INPUT_BUF \in Nat \ {0} /\ Wrap \in Nat \ {0} /\ INPUT_BUF < Wrap
  BY DEF IInv, TypeOK, ConsoleConstants
<1>2. /\ Queue = Cells(buf, r, 0, Handed) /\ Line = Cells(buf, r, Handed, Held - Handed)
      /\ Held \in Nat /\ Handed \in Nat
  BY <1>1, Shape
<1>3. Len(Queue) = Handed
  BY <1>2 DEF Cells
<1>4. Len(Line) = Held - Handed
  <2>1. Held - Handed \in Nat
    BY <1>1, <1>2
  <2> QED
    BY <1>2, <2>1 DEF Cells
<1> QED
  BY <1>1, <1>2, <1>3, <1>4

-----------------------------------------------------------------------------
(* Keys.                                                                   *)

(* A key enters the cell after the last character; everything held stays   *)
(* where it is.                                                            *)
LEMMA KeyEnters ==
    ASSUME IInv, NEW c \in Letters \cup {"nl", "^D"}, consoleintr(c)
    PROVE  /\ e' \in Index /\ buf' \in [Ring -> Chars] /\ Minus(e', r) = Held + 1 /\ Held < INPUT_BUF
           /\ \A i \in 0 .. INPUT_BUF - 1 :
                buf'[((r + i) % Wrap) % INPUT_BUF] = IF i = Held THEN c ELSE buf[((r + i) % Wrap) % INPUT_BUF]
           /\ e' = (r + INPUT_BUF) % Wrap <=> Held + 1 = INPUT_BUF
<1>0. ConsoleConstants /\ TypeOK /\ r \in Index /\ e \in Index /\ Held \in Nat /\ INPUT_BUF \in Nat \ {0} /\ Wrap \in Nat \ {0} /\ INPUT_BUF < Wrap
  BY Basics
<1>1. Held < INPUT_BUF /\ e' = (e + 1) % Wrap /\ buf' = [buf EXCEPT ![e % INPUT_BUF] = c]
  BY DEF consoleintr, Fits, Held
<1>2. e' \in Index /\ Minus(e', r) = Held + 1
  <2>1. Minus(e, r) + 1 < Wrap
    BY <1>0, <1>1 DEF Held
  <2> QED
    BY <1>0, <1>1, <2>1, Further DEF Held
<1>3. (r + Held) % Wrap = e
  BY <1>0, Distance DEF Held
<1>4. \A i \in Nat : ((r + i) % Wrap) % INPUT_BUF \in Ring
  <2>1. \A i \in Nat : (r + i) % Wrap \in Nat
    BY <1>0 DEF Index
  <2>2. \A z \in Nat : z % INPUT_BUF \in 0 .. INPUT_BUF - 1
    BY <1>0
  <2> QED
    BY <2>1, <2>2 DEF Ring
<1>5. buf' \in [Ring -> Chars]
  BY <1>0, <1>1 DEF TypeOK, Chars
<1>6. \A i \in 0 .. INPUT_BUF - 1 :
        buf'[((r + i) % Wrap) % INPUT_BUF] = IF i = Held THEN c ELSE buf[((r + i) % Wrap) % INPUT_BUF]
  <2> SUFFICES ASSUME NEW i \in 0 .. INPUT_BUF - 1
               PROVE  buf'[((r + i) % Wrap) % INPUT_BUF] = IF i = Held THEN c ELSE buf[((r + i) % Wrap) % INPUT_BUF]
    OBVIOUS
  <2> DEFINE at == ((r + i) % Wrap) % INPUT_BUF
  <2>1. at \in Ring
    BY <1>4
  <2>2. at = e % INPUT_BUF => i = Held
    <3>1. Held \in 0 .. INPUT_BUF - 1
      BY <1>0, <1>1
    <3> QED
      BY <1>0, <1>3, <3>1, OwnCell
  <2>3. i = Held => at = e % INPUT_BUF
    BY <1>3
  <2> HIDE DEF at
  <2>4. buf'[at] = IF i = Held THEN c ELSE buf[at]
    BY <1>0, <1>1, <2>1, <2>2, <2>3 DEF TypeOK
  <2> QED
    BY <2>4 DEF at
<1>7. e' = (r + INPUT_BUF) % Wrap <=> Held + 1 = INPUT_BUF
  <2>1. Minus(r, r) = 0
    BY <1>0, Distance
  <2>2. Minus((r + INPUT_BUF) % Wrap, r) = INPUT_BUF
    BY <1>0, <2>1, Further
  <2>3. (r + (Held + 1)) % Wrap = e'
    BY <1>0, <1>2, Distance
  <2> QED
    BY <1>2, <2>2, <2>3
<1> QED
  BY <1>1, <1>2, <1>5, <1>6, <1>7

(* consoleintr with a character: it joins the line, and hands it over if   *)
(* it is a line end, an end of file or the last that fits.                 *)
LEMMA KeyStep ==
    ASSUME IInv, NEW c \in Letters \cup {"nl", "^D"}, consoleintr(c)
    PROVE  IInv' /\ Terminal!Next
<1>0. /\ ConsoleConstants /\ TypeOK /\ r \in Index /\ e \in Index /\ w \in Index /\ Held \in Nat /\ Handed \in Nat
      /\ Handed <= Held /\ INPUT_BUF \in Nat \ {0} /\ Wrap \in Nat \ {0} /\ r' = r
  BY Basics DEF consoleintr
<1>1. /\ e' \in Index /\ buf' \in [Ring -> Chars] /\ Held' = Held + 1 /\ Held < INPUT_BUF
      /\ \A i \in 0 .. INPUT_BUF - 1 :
           buf'[((r + i) % Wrap) % INPUT_BUF] = IF i = Held THEN c ELSE buf[((r + i) % Wrap) % INPUT_BUF]
      /\ e' = (r + INPUT_BUF) % Wrap <=> Held + 1 = INPUT_BUF
  <2>1. Held' = Minus(e', r)
    BY <1>0 DEF Held, Minus
  <2> QED
    BY <2>1, KeyEnters
<1>2. Queue = Cells(buf, r, 0, Handed) /\ Line = Cells(buf, r, Handed, Held - Handed)
  BY Basics
<1>3. Len(Queue) = Handed /\ Len(Line) = Held - Handed
  BY Basics
<1>4. CASE Commits(c, e')
  <2>1. w' = e' /\ rd' = wakeup
    BY <1>4 DEF consoleintr
  <2>2. Handed' = Held' /\ w' \in Index
    BY <1>1, <2>1 DEF Handed, Held
  <2>3. rd' \in [Readers -> [pc : {"user", "run", "sleep"}, n : 0 .. ReadSize, killed : BOOLEAN]]
        /\ \A p \in Readers : rd'[p].pc # "sleep" /\ (rd'[p].pc # "user" => rd[p].pc # "user" /\ rd'[p].n = rd[p].n)
    BY <1>0, <2>1 DEF TypeOK, wakeup
  <2>4. IInv'
    <3>1. TypeOK'
      BY <1>0, <1>1, <2>2, <2>3 DEF TypeOK
    <3>2. LineInv'
      BY <1>0, <1>1, <2>2 DEF LineInv
    <3>3. ReaderInv'
      BY <2>3 DEF ReaderInv, IInv
    <3> QED
      BY <1>0, <1>1, <2>2, <3>1, <3>2, <3>3 DEF IInv, ConsoleConstants
  <2>5. Queue' = Cells(buf', r, 0, Held + 1) /\ Line' = Cells(buf', r, Held + 1, 0)
    <3>1. Handed' <= Held'
      BY <1>0, <1>1, <2>2
    <3>2. Queue' = Cells(buf', r', 0, Handed') /\ Line' = Cells(buf', r', Handed', Held' - Handed')
      BY <1>0, <1>1, <2>2, <3>1, ShapeNext
    <3>3. Held' - Handed' = 0
      BY <1>0, <1>1, <2>2
    <3> QED
      BY <1>0, <1>1, <2>2, <3>2, <3>3
  <2>6. Line' = << >>
    BY <2>5 DEF Cells
  <2>7. Queue' = Queue \o Append(Line, c)
    <3> DEFINE s == Queue \o Append(Line, c)
    <3>1. s = [k \in 1 .. Held + 1 |-> IF k <= Handed THEN Queue[k] ELSE IF k <= Held THEN Line[k - Handed] ELSE c]
      BY <1>0, <1>2 DEF Cells
    <3>2. \A k \in 1 .. Held + 1 : Queue'[k] = IF k <= Handed THEN Queue[k] ELSE IF k <= Held THEN Line[k - Handed] ELSE c
      <4> SUFFICES ASSUME NEW k \in 1 .. Held + 1
                   PROVE  Queue'[k] = IF k <= Handed THEN Queue[k] ELSE IF k <= Held THEN Line[k - Handed] ELSE c
        OBVIOUS
      <4>1. k - 1 \in 0 .. INPUT_BUF - 1 /\ r + 0 + k - 1 = r + (k - 1) /\ r \in Int
        BY <1>0, <1>1 DEF Index
      <4>2. Queue'[k] = IF k - 1 = Held THEN c ELSE buf[((r + (k - 1)) % Wrap) % INPUT_BUF]
        BY <1>1, <2>5, <4>1 DEF Cells
      <4>3. k <= Handed => Queue[k] = buf[((r + (k - 1)) % Wrap) % INPUT_BUF]
        BY <1>0, <1>2, <4>1 DEF Cells
      <4>4. k > Handed /\ k <= Held => Line[k - Handed] = buf[((r + (k - 1)) % Wrap) % INPUT_BUF]
        <5> SUFFICES ASSUME k > Handed, k <= Held PROVE Line[k - Handed] = buf[((r + (k - 1)) % Wrap) % INPUT_BUF]
          OBVIOUS
        <5>1. k - Handed \in 1 .. Held - Handed /\ r + Handed + (k - Handed) - 1 = r + (k - 1)
          BY <1>0, <4>1
        <5> QED
          BY <1>2, <5>1 DEF Cells
      <4> QED
        BY <1>0, <4>1, <4>2, <4>3, <4>4
    <3> QED
      BY <2>5, <3>1, <3>2 DEF Cells
  <2>8. Terminal!Next
    <3>1. Len(Line) + Len(Queue) < INPUT_BUF
      BY <1>0, <1>1, <1>3
    <3>2. CASE c \in {"nl", "^D"}
      <4>1. Terminal!LineEnd(c)
        BY <2>6, <2>7, <3>1 DEF Terminal!LineEnd, Terminal!Room, Line, Queue
      <4> QED
        BY <3>2, <4>1 DEF Terminal!Next
    <3>3. CASE c \notin {"nl", "^D"}
      <4>1. Len(Line) + Len(Queue) + 1 = INPUT_BUF
        BY <1>0, <1>1, <1>3, <1>4, <3>3 DEF Commits
      <4>2. Terminal!Letter(c)
        BY <2>6, <2>7, <3>1, <4>1 DEF Terminal!Letter, Terminal!Room, Line, Queue
      <4> QED
        BY <3>3, <4>2 DEF Terminal!Next
    <3> QED
      BY <3>2, <3>3
  <2> QED
    BY <2>4, <2>8
<1>5. CASE ~Commits(c, e')
  <2>1. w' = w /\ rd' = rd
    BY <1>5 DEF consoleintr
  <2>2. Handed' = Handed /\ Handed' <= Held' /\ c \in Letters /\ c # "nl" /\ Held + 1 # INPUT_BUF
    BY <1>0, <1>1, <1>5, <2>1 DEF Handed, Commits, Minus
  <2>3. IInv'
    <3>1. TypeOK'
      BY <1>0, <1>1, <2>1 DEF TypeOK
    <3>2. LineInv'
      <4>1. \A i \in Handed .. Held : buf'[((r + i) % Wrap) % INPUT_BUF] # "nl"
        <5> SUFFICES ASSUME NEW i \in Handed .. Held PROVE buf'[((r + i) % Wrap) % INPUT_BUF] # "nl"
          OBVIOUS
        <5>1. i \in 0 .. INPUT_BUF - 1 /\ (i # Held => i \in Handed .. Held - 1)
          BY <1>0, <1>1
        <5> QED
          BY <1>1, <2>2, <5>1 DEF IInv, LineInv
      <4>2. Held' - 1 = Held
        BY <1>0, <1>1
      <4> QED
        BY <1>0, <1>1, <2>2, <4>1, <4>2 DEF LineInv
    <3>3. ReaderInv'
      BY <1>0, <2>1 DEF ReaderInv, IInv
    <3> QED
      BY <1>0, <1>1, <2>2, <3>1, <3>2, <3>3 DEF IInv, ConsoleConstants
  <2>4. Queue' = Cells(buf', r, 0, Handed) /\ Line' = Cells(buf', r, Handed, Held + 1 - Handed)
    BY <1>0, <1>1, <2>1, <2>2, ShapeNext
  <2>5. Queue' = Queue
    <3>1. \A k \in 1 .. Handed : k - 1 \in 0 .. INPUT_BUF - 1 /\ k - 1 # Held /\ r + 0 + k - 1 = r + (k - 1)
      BY <1>0, <1>1 DEF Index
    <3> QED
      BY <1>1, <1>2, <2>4, <3>1 DEF Cells
  <2>6. Line' = Append(Line, c)
    <3>1. Append(Line, c) = [k \in 1 .. Held + 1 - Handed |-> IF k <= Held - Handed THEN Line[k] ELSE c]
      BY <1>0, <1>2 DEF Cells
    <3>2. \A k \in 1 .. Held + 1 - Handed : Line'[k] = IF k <= Held - Handed THEN Line[k] ELSE c
      <4> SUFFICES ASSUME NEW k \in 1 .. Held + 1 - Handed PROVE Line'[k] = IF k <= Held - Handed THEN Line[k] ELSE c
        OBVIOUS
      <4>1. Handed + k - 1 \in 0 .. INPUT_BUF - 1 /\ r + Handed + k - 1 = r + (Handed + k - 1)
        BY <1>0, <1>1 DEF Index
      <4>2. Line'[k] = IF Handed + k - 1 = Held THEN c ELSE buf[((r + Handed + k - 1) % Wrap) % INPUT_BUF]
        BY <1>1, <2>4, <4>1 DEF Cells
      <4>3. k <= Held - Handed => Line[k] = buf[((r + Handed + k - 1) % Wrap) % INPUT_BUF]
        BY <1>0, <1>2 DEF Cells
      <4> QED
        BY <1>0, <4>2, <4>3
    <3> QED
      BY <2>4, <3>1, <3>2 DEF Cells
  <2>7. Terminal!Next
    <3>1. Len(Line) + Len(Queue) < INPUT_BUF /\ Len(Line) + Len(Queue) + 1 # INPUT_BUF
      BY <1>0, <1>1, <1>3, <2>2
    <3>2. Terminal!Letter(c)
      BY <2>5, <2>6, <3>1 DEF Terminal!Letter, Terminal!Room, Line, Queue
    <3> QED
      BY <2>2, <3>2 DEF Terminal!Next
  <2> QED
    BY <2>3, <2>7
<1> QED
  BY <1>4, <1>5

(* Backspace takes the last character of the line, never one handed over.  *)
LEMMA BackspaceStep ==
    ASSUME IInv, Backspace
    PROVE  IInv' /\ Terminal!Next
<1>0. e # w /\ e' = Minus(e, 1) /\ UNCHANGED <<buf, r, w, rd>>
  BY DEF Backspace
<1>1. Handed < Held
  <2>1. Minus(e, w) = Held - Handed /\ Minus(e, w) # 0
    BY <1>0, Basics, Apart, Distance DEF Held, Handed
  <2> QED
    BY <2>1, Basics
<1>2. e' \in Index /\ Held' = Held - 1 /\ Handed' = Handed
  <2>1. 1 <= Minus(e, r)
    BY <1>1, Basics DEF Held
  <2>2. Minus(e, 1) \in Index /\ Minus(Minus(e, 1), r) = Minus(e, r) - 1
    BY <2>1, Basics, Nearer
  <2> QED
    BY <1>0, <2>2 DEF Held, Handed, Minus
<1>3. IInv'
  <2>1. TypeOK'
    BY <1>0, <1>2, Basics DEF TypeOK
  <2>2. LineInv'
    BY <1>0, <1>1, <1>2, Basics DEF IInv, LineInv
  <2>3. ReaderInv'
    BY <1>0 DEF IInv, ReaderInv
  <2>4. Handed' <= Held' /\ Held' <= INPUT_BUF
    BY <1>1, <1>2, Basics
  <2> QED
    BY <2>1, <2>2, <2>3, <2>4, Basics DEF IInv, ConsoleConstants
<1>4. Queue' = Cells(buf, r, 0, Handed) /\ Line' = Cells(buf, r, Handed, Held - 1 - Handed)
  <2>1. Handed' <= Held' /\ r' \in Index /\ w' \in Index
    BY <1>0, <1>1, <1>2, Basics
  <2> QED
    BY <1>0, <1>2, <2>1, ShapeNext, Basics
<1>5. Line # << >> /\ Line' = SubSeq(Line, 1, Len(Line) - 1)
  <2>1. Len(Line) = Held - Handed /\ Held - Handed \in Nat \ {0} /\ Line = Cells(buf, r, Handed, Held - Handed)
    BY <1>1, Basics
  <2>2. SubSeq(Line, 1, Len(Line) - 1) = [k \in 1 .. Held - Handed - 1 |-> Line[k]]
    BY <2>1 DEF Cells
  <2>3. Held - 1 - Handed = Held - Handed - 1
    BY Basics
  <2>4. \A k \in 1 .. Held - Handed - 1 : Line[k] = buf[((r + Handed + k - 1) % Wrap) % INPUT_BUF]
    BY <2>1 DEF Cells
  <2>5. Line # << >>
    BY <2>1
  <2> QED
    BY <1>4, <2>2, <2>3, <2>4, <2>5 DEF Cells
<1>6. Queue' = Queue
  BY <1>4, Basics
<1>7. Terminal!Erase
  BY <1>5, <1>6 DEF Terminal!Erase, Line, Queue
<1> QED
  BY <1>3, <1>7 DEF Terminal!Next

(* ^U goes back to the start of the line: the loop's test for a newline    *)
(* never stops it, because none is in the line.                            *)
LEMMA LineKillStep ==
    ASSUME IInv, LineKill
    PROVE  IInv' /\ Terminal!Next
<1> DEFINE d == Minus(e, w)
           back == {k \in 0 .. d : /\ \A j \in 1 .. k : buf[Minus(e, j) % INPUT_BUF] # "nl"
                                   /\ k = d \/ buf[Minus(e, k + 1) % INPUT_BUF] = "nl"}
<1>0. e' = Minus(e, CHOOSE k \in back : \A j \in back : k <= j) /\ UNCHANGED <<buf, r, w, rd>>
  BY DEF LineKill
<1>1. d = Held - Handed /\ d \in Nat
  BY Basics, Apart DEF Held, Handed
<1> HIDE DEF d
<1>2. \A j \in 1 .. d : buf[Minus(e, j) % INPUT_BUF] # "nl"
  <2> SUFFICES ASSUME NEW j \in 1 .. d PROVE buf[Minus(e, j) % INPUT_BUF] # "nl"
    OBVIOUS
  <2>1. j \in Nat /\ j <= Minus(e, r) /\ Minus(e, r) = Held
    BY <1>1, Basics DEF Held
  <2>2. Minus(e, j) \in Index /\ Minus(Minus(e, j), r) = Held - j
    BY <2>1, Basics, Nearer
  <2>3. (r + (Held - j)) % Wrap = Minus(e, j)
    BY <2>2, Basics, Distance
  <2>4. Held - j \in Handed .. Held - 1
    BY <1>1, <2>1, Basics
  <2> QED
    BY <2>3, <2>4 DEF IInv, LineInv
<1>3. \A k \in back : k = d
  BY <1>1, <1>2
<1>4. d \in back
  BY <1>1, <1>2
<1> HIDE DEF back
<1>5. (CHOOSE k \in back : \A j \in back : k <= j) = d
  <2>1. \E k \in back : \A j \in back : k <= j
    BY <1>1, <1>3, <1>4
  <2>2. (CHOOSE k \in back : \A j \in back : k <= j) \in back
    BY <2>1
  <2> QED
    BY <1>3, <2>2
<1>6. e' = w
  <2>1. e' = Minus(e, d)
    BY <1>0, <1>5
  <2>2. Minus(e, d) \in Index /\ Minus(Minus(e, d), w) = 0
    <3>1. d <= Minus(e, w)
      BY <1>1 DEF d
    <3>2. Minus(e, d) \in Index /\ Minus(Minus(e, d), w) = Minus(e, w) - d
      BY <1>1, <3>1, Basics, Nearer
    <3> QED
      BY <1>1, <3>2 DEF d
  <2> QED
    BY <2>1, <2>2, Basics, Distance
<1>7. Held' = Handed /\ Handed' = Handed
  BY <1>0, <1>6 DEF Held, Handed, Minus
<1>8. IInv'
  <2>1. TypeOK'
    BY <1>0, <1>6, Basics DEF TypeOK
  <2>2. LineInv'
    BY <1>0, <1>7, Basics DEF LineInv
  <2>3. ReaderInv'
    BY <1>0 DEF IInv, ReaderInv
  <2>4. Handed' <= Held' /\ Held' <= INPUT_BUF
    BY <1>7, Basics
  <2> QED
    BY <2>1, <2>2, <2>3, <2>4, Basics DEF IInv, ConsoleConstants
<1>9. Queue' = Cells(buf, r, 0, Handed) /\ Line' = Cells(buf, r, Handed, 0)
  <2>1. Handed' <= Held' /\ r' \in Index /\ w' \in Index /\ e' \in Index /\ Held' - Handed' = 0
    BY <1>0, <1>6, <1>7, Basics
  <2> QED
    BY <1>0, <1>7, <2>1, ShapeNext, Basics
<1>10. Line' = << >> /\ Queue' = Queue
  BY <1>9, Basics DEF Cells
<1>11. Terminal!KillLine
  BY <1>10 DEF Terminal!KillLine, Line, Queue
<1> QED
  BY <1>8, <1>11 DEF Terminal!Next

-----------------------------------------------------------------------------
(* Readers.                                                                *)

(* consoleread's loop stops at the first line end, end of file or the      *)
(* count, or else takes everything that was handed over.                   *)
LEMMA LoopStops ==
    ASSUME NEW q, NEW l \in Nat, q = [k \in 1 .. l |-> q[k]], Len(q) = l, NEW n \in Nat \ {0}
    PROVE  \/ /\ Stop(q, n) = 0 /\ l < n
              /\ \A i \in 1 .. l : q[i] \notin {"nl", "^D"}
           \/ /\ Stop(q, n) \in 1 .. l /\ Stop(q, n) <= n
              /\ \A i \in 1 .. Stop(q, n) - 1 : q[i] \notin {"nl", "^D"}
<1> DEFINE at == {i \in DOMAIN q : q[i] \in {"nl", "^D"} \/ i = n}
<1>1. DOMAIN q = 1 .. l
  OBVIOUS
<1>2. CASE at = {}
  <2>1. Stop(q, n) = 0
    BY <1>2 DEF Stop
  <2>2. l < n
    BY <1>1, <1>2
  <2> QED
    BY <1>1, <1>2, <2>1, <2>2
<1>3. CASE at # {}
  <2>1. at \in SUBSET Nat
    BY <1>1
  <2>2. \A i \in at : i \in 1 .. l
    BY <1>1
  <2>3. \A i \in 1 .. l : q[i] \in {"nl", "^D"} \/ i = n => i \in at
    BY <1>1
  <2>4. Stop(q, n) = CHOOSE i \in at : \A j \in at : i <= j
    BY <1>3 DEF Stop
  <2> HIDE DEF at
  <2>5. \E i \in at : \A j \in at : i <= j
    BY <1>3, <2>1, LeastElement
  <2>6. Stop(q, n) \in at /\ \A j \in at : Stop(q, n) <= j
    BY <2>4, <2>5
  <2>7. Stop(q, n) \in 1 .. l
    BY <2>2, <2>6
  <2>8. Stop(q, n) <= n
    BY <2>3, <2>6, <2>7
  <2>9. \A i \in 1 .. Stop(q, n) - 1 : i \notin at /\ i \in 1 .. l
    <3> SUFFICES ASSUME NEW i \in 1 .. Stop(q, n) - 1 PROVE i \notin at /\ i \in 1 .. l
      OBVIOUS
    <3>1. i < Stop(q, n) /\ i \in Nat /\ Stop(q, n) \in Nat /\ i \in 1 .. l
      BY <2>7
    <3>2. ~(Stop(q, n) <= i)
      BY <3>1
    <3> QED
      BY <2>6, <3>1, <3>2
  <2> QED
    BY <2>3, <2>7, <2>8, <2>9
<1> QED
  BY <1>2, <1>3

(* consoleread takes characters in order, at most a line, and an end of    *)
(* file only on its own; it goes to sleep only when nothing is left.       *)
LEMMA ReadStep ==
    ASSUME IInv, NEW p \in Readers, consoleread(p)
    PROVE  IInv' /\ (Terminal!Next \/ UNCHANGED <<Line, Queue>>)
<1> DEFINE n == rd[p].n
           q == Queue
           stop == Stop(q, n)
           t == IF stop = 0 THEN Len(q) ELSE Consumed(q, n)
<1>0. /\ rd[p].pc = "run" /\ r' = (r + t) % Wrap
      /\ rd' = [rd EXCEPT ![p] = IF stop # 0 THEN [@ EXCEPT !.pc = "user", !.n = 0]
                                 ELSE IF @.killed THEN [@ EXCEPT !.pc = "user", !.n = 0]
                                 ELSE [@ EXCEPT !.pc = "sleep", !.n = n - t]]
      /\ UNCHANGED <<buf, w, e>>
  BY DEF consoleread, Queue
<1>1. n \in 1 .. ReadSize /\ ReadSize \in Nat \ {0} /\ rd[p] \in [pc : {"user", "run", "sleep"}, n : 0 .. ReadSize, killed : BOOLEAN]
  BY <1>0, Basics DEF IInv, ReaderInv, TypeOK, ConsoleConstants
<1>2. q = Cells(buf, r, 0, Handed) /\ Len(q) = Handed /\ Handed \in Nat
  BY Basics
<1>3. q = [k \in 1 .. Handed |-> q[k]]
  BY <1>2 DEF Cells
<1> HIDE DEF n, q, stop
<1>4. \/ stop = 0 /\ Handed < n /\ \A i \in 1 .. Handed : q[i] \notin {"nl", "^D"}
      \/ stop \in 1 .. Handed /\ stop <= n /\ \A i \in 1 .. stop - 1 : q[i] \notin {"nl", "^D"}
  <2>1. n \in Nat \ {0}
    BY <1>1
  <2> QED
    BY <1>2, <1>3, <2>1, LoopStops DEF stop
<1>5. /\ t \in 0 .. Handed
      /\ stop = 0 => t = Handed /\ t < n
      /\ \/ t = 1 /\ q[1] = "^D"
         \/ \A i \in 1 .. t : q[i] # "^D" /\ (q[i] = "nl" => i = t)
  <2>1. CASE stop = 0
    BY <1>1, <1>2, <1>4, <2>1
  <2>2. CASE stop # 0
    <3>1. stop \in 1 .. Handed /\ stop <= n /\ \A i \in 1 .. stop - 1 : q[i] \notin {"nl", "^D"}
      BY <1>4, <2>2
    <3>2. t = IF q[stop] = "^D" /\ n - (stop - 1) < ReadSize THEN stop - 1 ELSE stop
      BY <2>2 DEF Consumed, stop
    <3>3. CASE q[stop] = "^D" /\ n - (stop - 1) < ReadSize
      <4>1. t = stop - 1
        BY <3>2, <3>3
      <4> QED
        BY <1>1, <1>2, <2>2, <3>1, <4>1
    <3>4. CASE ~(q[stop] = "^D" /\ n - (stop - 1) < ReadSize)
      <4>1. t = stop
        BY <3>2, <3>4
      <4>2. CASE q[stop] = "^D"
        <5>1. stop = 1
          BY <1>1, <1>2, <3>1, <3>4, <4>2
        <5> QED
          BY <1>1, <1>2, <2>2, <3>1, <4>1, <4>2, <5>1
      <4>3. CASE q[stop] # "^D"
        <5>1. \A i \in 1 .. stop : i = stop \/ i \in 1 .. stop - 1
          BY <1>2, <3>1
        <5> QED
          BY <1>1, <1>2, <2>2, <3>1, <4>1, <4>3, <5>1
      <4> QED
        BY <4>2, <4>3
    <3> QED
      BY <3>3, <3>4
  <2> QED
    BY <2>1, <2>2
<1> HIDE DEF t
<1>6. /\ r' \in Index /\ Handed' = Handed - t /\ Held' = Held - t
      /\ \A i \in Nat : t + i < Wrap => (r' + i) % Wrap = (r + (t + i)) % Wrap
  <2>1. t \in Nat /\ Minus(r, r) = 0 /\ Minus(r, r) + t < Wrap /\ t <= Held
    BY <1>5, Basics, Distance
  <2>2. r' \in Index /\ Minus(r', r) = t
    BY <1>0, <2>1, Basics, Further
  <2>3. Minus(w, r') = Minus(w, r) - Minus(r', r) /\ Minus(e, r') = Minus(e, r) - Minus(r', r)
    <3>1. Minus(r', r) <= Minus(w, r) /\ Minus(r', r) <= Minus(e, r)
      BY <1>5, <2>2, Basics DEF Handed, Held
    <3> QED
      BY <2>2, <3>1, Basics, Apart
  <2>4. Handed' = Minus(w, r') /\ Held' = Minus(e, r')
    BY <1>0 DEF Handed, Held, Minus
  <2>5. ASSUME NEW i \in Nat, t + i < Wrap PROVE (r' + i) % Wrap = (r + (t + i)) % Wrap
    <3>1. (r' + i) % Wrap = (r + Minus(r', r) + i) % Wrap
      BY <2>2, <2>5, Basics, Further
    <3>2. r + t + i = r + (t + i)
      BY <2>1, Basics DEF Index
    <3> QED
      BY <2>2, <3>1, <3>2
  <2> QED
    BY <2>2, <2>3, <2>4, <2>5 DEF Handed, Held
<1>7. \A k \in Readers \ {p} : rd'[k] = rd[k]
  BY <1>0, Basics DEF TypeOK
<1>8. /\ rd' \in [Readers -> [pc : {"user", "run", "sleep"}, n : 0 .. ReadSize, killed : BOOLEAN]]
      /\ rd'[p].pc = "sleep" => stop = 0
      /\ rd'[p].pc # "user" => rd'[p].n >= 1
  <2> DEFINE y == IF stop # 0 THEN [rd[p] EXCEPT !.pc = "user", !.n = 0]
                  ELSE IF rd[p].killed THEN [rd[p] EXCEPT !.pc = "user", !.n = 0]
                  ELSE [rd[p] EXCEPT !.pc = "sleep", !.n = n - t]
  <2>1. rd' = [rd EXCEPT ![p] = y]
    BY <1>0
  <2>2. stop = 0 => n - t \in 1 .. ReadSize
    BY <1>1, <1>2, <1>5
  <2>3. /\ y \in [pc : {"user", "run", "sleep"}, n : 0 .. ReadSize, killed : BOOLEAN]
        /\ y.pc = "sleep" => stop = 0
        /\ y.pc # "user" => y.n >= 1
    <3>1. CASE stop # 0 \/ rd[p].killed
      <4>1. y = [rd[p] EXCEPT !.pc = "user", !.n = 0]
        BY <3>1
      <4> HIDE DEF y
      <4>2. 0 \in 0 .. ReadSize
        BY <1>1
      <4>3. y \in [pc : {"user", "run", "sleep"}, n : 0 .. ReadSize, killed : BOOLEAN] /\ y.pc = "user"
        BY <1>1, <4>1, <4>2
      <4> QED
        BY <4>3
    <3>2. CASE stop = 0 /\ ~rd[p].killed
      <4>1. y = [rd[p] EXCEPT !.pc = "sleep", !.n = n - t] /\ n - t \in 0 .. ReadSize /\ n - t >= 1
        BY <1>1, <2>2, <3>2
      <4> HIDE DEF y
      <4>2. y \in [pc : {"user", "run", "sleep"}, n : 0 .. ReadSize, killed : BOOLEAN] /\ y.n = n - t
        BY <1>1, <4>1
      <4> QED
        BY <3>2, <4>1, <4>2
    <3> QED
      BY <3>1, <3>2
  <2> HIDE DEF y
  <2> QED
    BY <2>1, <2>3, Basics DEF TypeOK
<1>9. IInv'
  <2>1. TypeOK'
    BY <1>0, <1>6, <1>8, Basics DEF TypeOK
  <2>2. Handed' <= Held' /\ Held' <= INPUT_BUF
    BY <1>5, <1>6, Basics
  <2>3. LineInv'
    <3>1. Held' = INPUT_BUF => Handed' = Held'
      BY <1>5, <1>6, Basics DEF IInv, LineInv
    <3>2. ASSUME NEW i \in Handed' .. Held' - 1 PROVE buf'[((r' + i) % Wrap) % INPUT_BUF] # "nl"
      <4>1. i \in Nat /\ t + i \in Handed .. Held - 1 /\ t + i < Wrap
        BY <1>5, <1>6, Basics
      <4>2. (r' + i) % Wrap = (r + (t + i)) % Wrap
        BY <1>6, <4>1
      <4> QED
        BY <1>0, <4>1, <4>2 DEF IInv, LineInv
    <3> QED
      BY <3>1, <3>2 DEF LineInv
  <2>4. ReaderInv'
    <3>1. \A k \in Readers : rd[k].pc = "sleep" => Handed = 0
      BY Basics, Distance DEF IInv, ReaderInv, Handed
    <3>2. Handed' = 0 => r' = w'
      <4>1. Handed' = Minus(w, r')
        BY <1>0 DEF Handed, Minus
      <4> QED
        BY <1>0, <1>6, <4>1, Basics, Distance
    <3>3. stop = 0 \/ Handed = 0 => Handed' = 0
      BY <1>2, <1>5, <1>6
    <3>4. ASSUME NEW k \in Readers PROVE /\ rd'[k].pc = "sleep" => r' = w'
                                         /\ rd'[k].pc # "user" => rd'[k].n >= 1
      <4>1. CASE k = p
        BY <1>8, <3>2, <3>3, <4>1
      <4>2. CASE k # p
        BY <1>7, <3>1, <3>2, <3>3, <4>2 DEF IInv, ReaderInv
      <4> QED
        BY <4>1, <4>2
    <3> QED
      BY <3>4 DEF ReaderInv
  <2> QED
    BY <2>1, <2>2, <2>3, <2>4, Basics DEF IInv, ConsoleConstants
<1>10. Queue' = Cells(buf, r', 0, Handed - t) /\ Line' = Cells(buf, r', Handed - t, Held - Handed)
  <2>1. Handed' <= Held' /\ w' \in Index /\ e' \in Index /\ Held' - Handed' = Held - Handed
    BY <1>0, <1>5, <1>6, Basics
  <2> QED
    BY <1>0, <1>6, <2>1, ShapeNext, Basics
<1>11. Queue' = [k \in 1 .. Handed - t |-> q[t + k]]
  <2>1. ASSUME NEW k \in 1 .. Handed - t
        PROVE  buf[((r' + 0 + k - 1) % Wrap) % INPUT_BUF] = q[t + k]
    <3>1. k - 1 \in Nat /\ t + (k - 1) < Wrap /\ t + k \in 1 .. Handed /\ r' + 0 + k - 1 = r' + (k - 1)
          /\ r + 0 + (t + k) - 1 = r + (t + (k - 1))
      <4>1. r' \in Int /\ r \in Int /\ t \in Int /\ k \in Int
        BY <1>2, <1>5, <1>6, Basics DEF Index
      <4>2. t >= 0 /\ t <= Handed /\ Handed \in Nat /\ 1 <= k /\ k <= Handed - t /\ Handed < Wrap /\ Wrap \in Nat
        BY <1>2, <1>5, Basics
      <4> QED
        BY <4>1, <4>2
    <3>2. (r' + (k - 1)) % Wrap = (r + (t + (k - 1))) % Wrap
      BY <1>6, <3>1
    <3>3. q[t + k] = buf[((r + 0 + (t + k) - 1) % Wrap) % INPUT_BUF]
      BY <1>2, <3>1 DEF Cells
    <3> QED
      BY <3>1, <3>2, <3>3
  <2> QED
    BY <1>10, <2>1 DEF Cells
<1>12. Line' = Line
  <2>1. ASSUME NEW k \in 1 .. Held - Handed
        PROVE  buf[((r' + (Handed - t) + k - 1) % Wrap) % INPUT_BUF] = buf[((r + Handed + k - 1) % Wrap) % INPUT_BUF]
    <3> DEFINE i == Handed - t + k - 1
    <3>1. i \in Nat /\ t + i < Wrap /\ r' + (Handed - t) + k - 1 = r' + i /\ r + Handed + k - 1 = r + (t + i)
      <4>1. r' \in Int /\ r \in Int /\ t \in Int /\ k \in Int
        BY <1>2, <1>5, <1>6, Basics DEF Index
      <4>2. t >= 0 /\ t <= Handed /\ Handed \in Nat /\ Held \in Nat /\ 1 <= k /\ k <= Held - Handed /\ Held < Wrap /\ Wrap \in Nat
        BY <1>2, <1>5, Basics
      <4> QED
        BY <4>1, <4>2
    <3>2. (r' + i) % Wrap = (r + (t + i)) % Wrap
      BY <1>6, <3>1
    <3> QED
      BY <3>1, <3>2
  <2> QED
    BY <1>10, <2>1, Basics DEF Cells
<1>13. CASE t = 0
  <2>1. Queue' = [k \in 1 .. Handed |-> q[k]]
    BY <1>2, <1>11, <1>13
  <2> QED
    BY <1>3, <1>9, <1>12, <2>1 DEF q
<1>14. CASE t # 0
  <2>1. t \in 1 .. Len(q) /\ t <= Len(q)
    BY <1>2, <1>5, <1>14
  <2>2. Queue' = SubSeq(q, t + 1, Len(q))
    <3>1. SubSeq(q, t + 1, Len(q)) = [k \in 1 .. Handed - t |-> q[t + k]]
      BY <1>2, <1>5
    <3> QED
      BY <1>11, <3>1
  <2>3. SubSeq(q, 1, t) = [k \in 1 .. t |-> q[k]]
    BY <1>2, <1>5
  <2>4. t = 1 /\ q[1] = "^D" => SubSeq(q, 1, t) = <<"^D">>
    <3> SUFFICES ASSUME t = 1, q[1] = "^D" PROVE SubSeq(q, 1, t) = <<"^D">>
      OBVIOUS
    <3>1. \A k \in 1 .. 1 : q[k] = "^D"
      OBVIOUS
    <3>2. SubSeq(q, 1, t) = [k \in 1 .. 1 |-> "^D"]
      BY <2>3, <3>1
    <3>3. <<"^D">> = [k \in 1 .. 1 |-> "^D"]
      OBVIOUS
    <3> QED
      BY <3>2, <3>3
  <2>5. Terminal!Read(t)
    BY <1>5, <1>12, <2>1, <2>2, <2>4 DEF Terminal!Read, Terminal!Taken, q, Queue, Line
  <2> QED
    BY <1>9, <2>1, <2>5 DEF Terminal!Next, q, Queue
<1> QED
  BY <1>13, <1>14

(* A read starts, a reader is killed (which wakes it) or replaced: the     *)
(* ring does not change.                                                   *)
LEMMA ReaderStep ==
    ASSUME IInv, NEW p \in Readers, Read(p) \/ kill(p) \/ Replaced(p)
    PROVE  IInv' /\ UNCHANGED <<Line, Queue>>
<1> DEFINE T == [pc : {"user", "run", "sleep"}, n : 0 .. ReadSize, killed : BOOLEAN]
<1>1. UNCHANGED <<buf, r, w, e>> /\ ReadSize \in Nat \ {0} /\ rd \in [Readers -> T]
  BY Basics DEF Read, kill, Replaced, TypeOK, ConsoleConstants
<1>2. PICK y \in T : /\ rd' = [rd EXCEPT ![p] = y] /\ (y.pc = "sleep" => rd[p].pc = "sleep")
                     /\ (y.pc # "user" => y.n >= 1)
  <2>0. rd[p] \in T /\ (rd[p].pc # "user" => rd[p].n >= 1)
    BY <1>1 DEF IInv, ReaderInv
  <2>1. CASE Read(p)
    <3> DEFINE y == [rd[p] EXCEPT !.pc = "run", !.n = ReadSize]
    <3>1. rd' = [rd EXCEPT ![p] = y]
      BY <2>1 DEF Read
    <3>2. ReadSize \in 0 .. ReadSize /\ ReadSize >= 1
      BY <1>1
    <3>3. y \in T /\ y.pc = "run" /\ y.n = ReadSize
      BY <2>0, <3>2
    <3> HIDE DEF y, T
    <3> QED
      BY <3>1, <3>2, <3>3
  <2>2. CASE kill(p)
    <3> DEFINE y == [rd[p] EXCEPT !.killed = TRUE, !.pc = IF rd[p].pc = "sleep" THEN "run" ELSE rd[p].pc]
    <3>1. rd' = [rd EXCEPT ![p] = y]
      BY <1>1, <2>0, <2>2 DEF kill
    <3>2. y \in T /\ y.n = rd[p].n /\ y.pc # "sleep" /\ (y.pc = "user" <=> rd[p].pc = "user")
      BY <2>0
    <3> QED
      BY <2>0, <3>1, <3>2
  <2>3. CASE Replaced(p)
    <3>1. Idle \in T /\ Idle.pc = "user"
      BY <1>1 DEF Idle
    <3> QED
      BY <2>3, <3>1 DEF Replaced
  <2> QED
    BY <2>1, <2>2, <2>3
<1>3. rd' \in [Readers -> T] /\ rd'[p] = y /\ \A k \in Readers \ {p} : rd'[k] = rd[k]
  BY <1>1, <1>2
<1>4. TypeOK'
  BY <1>1, <1>3, Basics DEF TypeOK
<1>5. Handed' = Handed /\ Held' = Held /\ LineInv'
  BY <1>1 DEF Handed, Held, LineInv, IInv, Minus
<1>6. ReaderInv'
  BY <1>1, <1>2, <1>3 DEF IInv, ReaderInv
<1> QED
  BY <1>1, <1>4, <1>5, <1>6, Basics DEF IInv, ConsoleConstants, Line, Queue, Between, Minus

(* Every step of console.c keeps the invariant and is a step of the line   *)
(* editor or none.                                                         *)
LEMMA NextStep == IInv /\ [ConsoleNext]_consoleVars => IInv' /\ [Terminal!Next]_<<Line, Queue>>
<1> SUFFICES ASSUME IInv, [ConsoleNext]_consoleVars PROVE IInv' /\ (Terminal!Next \/ UNCHANGED <<Line, Queue>>)
  OBVIOUS
<1>1. CASE UNCHANGED consoleVars
  BY <1>1 DEF consoleVars, IInv, TypeOK, Handed, Held, LineInv, ReaderInv, Line, Queue, Between, Minus, ConsoleConstants
<1>2. CASE \E c \in Letters \cup {"nl", "^D"} : consoleintr(c)
  BY <1>2, KeyStep
<1>3. CASE Backspace
  BY <1>3, BackspaceStep
<1>4. CASE LineKill
  BY <1>4, LineKillStep
<1>5. CASE \E p \in Readers : consoleread(p)
  BY <1>5, ReadStep
<1>6. CASE \E p \in Readers : Read(p) \/ kill(p) \/ Replaced(p)
  BY <1>6, ReaderStep
<1> QED
  BY <1>1, <1>2, <1>3, <1>4, <1>5, <1>6 DEF ConsoleNext

(* The inductive invariant holds in every state of the console.            *)
THEOREM Invariance == ConsoleConstants /\ ConsoleSpec => []IInv
<1>1. IInv /\ [ConsoleNext]_consoleVars => IInv'
  BY NextStep
<1>2. ConsoleConstants /\ ConsoleInit => IInv
  BY InitInv
<1> QED
  BY <1>1, <1>2, PTL DEF ConsoleSpec

(* The indices of the ring stay in order and within one ring of each       *)
(* other, across the wrap, and no reader sleeps over a line or a full ring. *)
THEOREM InputNeverStuck == ConsoleConstants /\ ConsoleSpec => []InputGoesOn
<1>1. ASSUME IInv PROVE InputGoesOn
  <2>1. IndicesOrdered
    BY <1>1, Basics DEF IndicesOrdered, Held, Handed, Index
  <2>2. r = w => Held < INPUT_BUF
    <3>1. r = w => Handed = 0
      BY <1>1, Basics, Distance DEF Handed
    <3> QED
      BY <1>1, <3>1, Basics DEF IInv, LineInv
  <2> QED
    BY <1>1, <2>1, <2>2 DEF InputGoesOn, SleepsOnlyIfEmpty, IInv, ReaderInv, Held
<1>2. IInv => InputGoesOn
  BY <1>1
<1> QED
  BY <1>2, Invariance, PTL

(* console.c's ring, with its three wrapping indices, implements the line  *)
(* editor: what was handed over cannot be edited and is read in order, at  *)
(* most a line at a time, and an end of file is read alone.                *)
THEOREM RingImplementsLineEditor == ConsoleConstants /\ ConsoleSpec => ConsoleIsLineEditor
<1>1. ConsoleConstants /\ ConsoleInit => Terminal!Init
  BY InitInv
<1>2. IInv /\ [ConsoleNext]_consoleVars => [Terminal!Next]_<<Between(w, e), Between(r, w)>>
  BY NextStep DEF Line, Queue
<1> QED
  BY <1>1, <1>2, Invariance, PTL DEF ConsoleSpec, ConsoleIsLineEditor, Terminal!Spec
=============================================================================
