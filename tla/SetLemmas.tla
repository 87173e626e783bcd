------------------------------- MODULE SetLemmas -------------------------------
(***************************************************************************)
(* Facts about sets that the proofs about components need: wherever the    *)
(* code looks for the first, the last, the smallest or the largest of      *)
(* something, and wherever it adds up.                                     *)
(***************************************************************************)
EXTENDS Integers, FiniteSetsExt, WellFoundedInduction, FiniteSetTheorems, TLAPS

(* A search upwards ends: a set of naturals has a least element.           *)
LEMMA LeastElement ==
    ASSUME NEW T \in SUBSET Nat, T # {}
    PROVE  \E x \in T : \A y \in T : x <= y
<1>1. \E R : IsWellFoundedOn(R, Nat) /\ \A x, y \in Nat : <<y, x>> \in R <=> y < x
  <2>1. \A x, y \in Nat : <<y, x>> \in OpToRel(<, Nat) <=> y < x
    BY DEF OpToRel
  <2>2. IsWellFoundedOn(OpToRel(<, Nat), Nat)
    BY NatLessThanWellFounded
  <2> QED
    BY <2>1, <2>2, Zenon
<1>2. PICK R : IsWellFoundedOn(R, Nat) /\ \A x, y \in Nat : <<y, x>> \in R <=> y < x
  BY <1>1
<1>3. PICK x \in T : \A y \in T : ~ (<<y, x>> \in R)
  <2>1. \E x \in T : \A y \in T : ~ (<<y, x>> \in R)
    BY <1>2, WFMin
  <2> QED
    BY <2>1
<1>4. ASSUME NEW y \in T PROVE x <= y
  <2>1. x \in Nat /\ y \in Nat
    OBVIOUS
  <2>2. ~ (y < x)
    BY <1>2, <1>3, <2>1
  <2> QED
    BY <2>1, <2>2
<1> QED
  BY <1>4

(* A search downwards ends: a bounded set of naturals has a greatest       *)
(* element.                                                                *)
LEMMA GreatestElement ==
    ASSUME NEW T \in SUBSET Nat, T # {}, NEW n \in Nat, \A x \in T : x <= n
    PROVE  \E x \in T : \A y \in T : y <= x
<1> DEFINE U == {m \in Nat : \E x \in T : m = n - x}
<1>1. PICK t \in T : TRUE
  OBVIOUS
<1>2. n - t \in U
  BY <1>1
<1>3. U \in SUBSET Nat /\ U # {}
  BY <1>2
<1>4. PICK u \in U : \A w \in U : u <= w
  <2> HIDE DEF U
  <2> QED
    BY <1>3, LeastElement
<1>5. PICK x \in T : u = n - x
  BY <1>4
<1>6. ASSUME NEW y \in T PROVE y <= x
  <2>1. n - y \in U /\ y \in Nat /\ x \in Nat
    OBVIOUS
  <2> QED
    BY <2>1, <1>4, <1>5
<1> QED
  BY <1>5, <1>6

(* Induction over finite sets: some bad subset has no smaller bad one.     *)
LEMMA MinimalSubset ==
    ASSUME NEW S, IsFiniteSet(S), NEW Bad \in SUBSET (SUBSET S), Bad # {}
    PROVE  \E s \in Bad : \A u \in Bad : u \subseteq s => u = s
<1> DEFINE N == {n \in Nat : \E s \in Bad : Cardinality(s) = n}
<1>1. \A s \in Bad : IsFiniteSet(s) /\ Cardinality(s) \in Nat
  BY FS_Subset, FS_CardinalityType
<1>2. N \in SUBSET Nat /\ N # {}
  BY <1>1
<1>3. PICK n \in N : \A m \in N : n <= m
  <2> HIDE DEF N
  <2> QED
    BY <1>2, LeastElement
<1>4. PICK s \in Bad : Cardinality(s) = n
  BY <1>3
<1>5. ASSUME NEW u \in Bad, u \subseteq s, u # s PROVE FALSE
  <2>1. Cardinality(u) < Cardinality(s)
    BY <1>1, <1>5, FS_Subset
  <2>2. Cardinality(u) \in N
    BY <1>1
  <2> QED
    BY <1>1, <1>3, <1>4, <2>1, <2>2
<1> QED
  BY <1>5

-----------------------------------------------------------------------------
(* Sums.  SumFunctionOnSet(f, S) takes the elements of S in the order that *)
(* CHOOSE gives; the lemmas show that the order does not matter.           *)

PickOne(s) == CHOOSE x \in s : TRUE

\* One round of the sum, with g for the rest.
Round(f, D, g) == [s \in D |-> IF s = {} THEN 0 ELSE f[PickOne(s)] + g[s \ {PickOne(s)}]]
Partial(f, S) == CHOOSE g : g = Round(f, SUBSET S, g)

(* The sum is the last of the partial sums.                                *)
LEMMA SumIsPartial == \A f, S : SumFunctionOnSet(f, S) = Partial(f, S)[S]
BY DEF SumFunctionOnSet, FoldFunctionOnSet, MapThenFoldSet, Partial, Round, PickOne

(* The partial sums exist: those of sets of at most n elements do, for     *)
(* every n.                                                                *)
LEMMA PartialExists ==
    ASSUME NEW f, NEW S, IsFiniteSet(S)
    PROVE  Partial(f, S) = Round(f, SUBSET S, Partial(f, S))
<1> DEFINE Layer(n) == {s \in SUBSET S : Cardinality(s) <= n}
           Missing == {n \in Nat : ~ \E g : g = Round(f, Layer(n), g)}
<1>1. \A s \in SUBSET S : IsFiniteSet(s) /\ Cardinality(s) \in Nat /\ Cardinality(s) <= Cardinality(S)
  BY FS_Subset, FS_CardinalityType
<1>2. \A s \in SUBSET S : s # {} => /\ PickOne(s) \in s /\ s \ {PickOne(s)} \in SUBSET S
                                    /\ Cardinality(s \ {PickOne(s)}) = Cardinality(s) - 1
  BY <1>1, FS_RemoveElement DEF PickOne
<1>3. ASSUME NEW n \in Nat, NEW g, n > 0 => g = Round(f, Layer(n - 1), g)
      PROVE  LET h == Round(f, Layer(n), g) IN h = Round(f, Layer(n), h)
  <2> DEFINE h == Round(f, Layer(n), g)
  <2>1. ASSUME NEW s \in Layer(n), s # {} PROVE h[s \ {PickOne(s)}] = g[s \ {PickOne(s)}]
    <3> DEFINE u == s \ {PickOne(s)}
    <3>1. u \in SUBSET S /\ Cardinality(u) = Cardinality(s) - 1 /\ Cardinality(s) \in Nat /\ Cardinality(s) <= n /\ Cardinality(u) \in Nat
      BY <1>1, <1>2, <2>1
    <3>2. n > 0 /\ Cardinality(u) <= n - 1 /\ Cardinality(u) <= n
      BY <3>1
    <3>3. u \in Layer(n) /\ u \in Layer(n - 1)
      BY <3>1, <3>2
    <3> HIDE DEF u
    <3>4. h[u] = IF u = {} THEN 0 ELSE f[PickOne(u)] + g[u \ {PickOne(u)}]
      BY <3>3 DEF Round
    <3>5. g = Round(f, Layer(n - 1), g)
      BY <1>3, <3>2
    <3>6. g[u] = IF u = {} THEN 0 ELSE f[PickOne(u)] + g[u \ {PickOne(u)}]
      BY <3>3, <3>5 DEF Round
    <3> QED
      BY <3>4, <3>6 DEF u
  <2> QED
    BY <2>1 DEF Round
<1>4. Missing = {}
  <2> SUFFICES ASSUME Missing # {} PROVE FALSE
    OBVIOUS
  <2>1. Missing \in SUBSET Nat
    OBVIOUS
  <2>2. PICK n \in Missing : \A m \in Missing : n <= m
    <3> HIDE DEF Missing
    <3> QED
      BY <2>1, LeastElement
  <2>3. n \in Nat /\ ~ \E g : g = Round(f, Layer(n), g)
    BY <2>2
  <2>4. \E g : n > 0 => g = Round(f, Layer(n - 1), g)
    <3>1. CASE n = 0
      BY <3>1
    <3>2. CASE n > 0
      <4>1. n - 1 \in Nat /\ ~ (n <= n - 1)
        BY <2>3, <3>2
      <4>2. n - 1 \notin Missing
        <5> HIDE DEF Missing
        <5> QED
          BY <2>2, <4>1
      <4> QED
        BY <4>1, <4>2
    <3> QED
      BY <2>3, <3>1, <3>2
  <2> QED
    BY <1>3, <2>3, <2>4
<1>5. Cardinality(S) \in Nat /\ Layer(Cardinality(S)) = SUBSET S
  BY <1>1
<1>6. \E g : g = Round(f, SUBSET S, g)
  BY <1>4, <1>5
<1> QED
  BY <1>6 DEF Partial

(* What a partial sum is.                                                  *)
LEMMA PartialStep ==
    ASSUME NEW f, NEW S, IsFiniteSet(S), NEW s \in SUBSET S
    PROVE  /\ s = {} => Partial(f, S)[s] = 0
           /\ s # {} => /\ Partial(f, S)[s] = f[PickOne(s)] + Partial(f, S)[s \ {PickOne(s)}]
                        /\ PickOne(s) \in s
<1>1. Partial(f, S)[s] = Round(f, SUBSET S, Partial(f, S))[s]
  BY PartialExists
<1>2. s # {} => PickOne(s) \in s
  BY DEF PickOne
<1> QED
  BY <1>1, <1>2 DEF Round

(* Partial sums do not depend on the set they are part of, nor on what the *)
(* function is elsewhere.                                                  *)
LEMMA PartialSame ==
    ASSUME NEW f, NEW g, NEW S, NEW T, IsFiniteSet(S), IsFiniteSet(T), NEW s \in SUBSET (S \cap T),
           \A x \in s : f[x] = g[x]
    PROVE  Partial(f, S)[s] = Partial(g, T)[s]
<1> DEFINE Bad == {u \in SUBSET s : Partial(f, S)[u] # Partial(g, T)[u]}
<1>1. IsFiniteSet(s)
  BY FS_Subset
<1>2. ASSUME Bad # {} PROVE FALSE
  <2>1. PICK u \in Bad : \A v \in Bad : v \subseteq u => v = u
    <3>1. Bad \in SUBSET (SUBSET s)
      OBVIOUS
    <3> HIDE DEF Bad
    <3> QED
      BY <1>1, <1>2, <3>1, MinimalSubset
  <2>2. u \in SUBSET S /\ u \in SUBSET T /\ u \in SUBSET s /\ Partial(f, S)[u] # Partial(g, T)[u]
    BY <2>1
  <2>3. u # {}
    BY <2>2, PartialStep
  <2>4. /\ PickOne(u) \in u
        /\ Partial(f, S)[u] = f[PickOne(u)] + Partial(f, S)[u \ {PickOne(u)}]
        /\ Partial(g, T)[u] = g[PickOne(u)] + Partial(g, T)[u \ {PickOne(u)}]
    BY <2>2, <2>3, PartialStep
  <2>5. u \ {PickOne(u)} \notin Bad
    BY <2>1, <2>4
  <2> QED
    BY <2>2, <2>4, <2>5
<1> QED
  BY <1>2

(* A sum over no element, and a sum taken apart at the element chosen      *)
(* first.                                                                  *)
LEMMA SumStep ==
    ASSUME NEW f, NEW S, IsFiniteSet(S)
    PROVE  /\ S = {} => SumFunctionOnSet(f, S) = 0
           /\ S # {} => /\ PickOne(S) \in S
                        /\ SumFunctionOnSet(f, S)
                             = f[PickOne(S)] + SumFunctionOnSet(f, S \ {PickOne(S)})
<1> DEFINE T == S \ {PickOne(S)}
<1>1. IsFiniteSet(T) /\ T \in SUBSET (S \cap T)
  BY FS_Subset
<1>2. Partial(f, S)[T] = Partial(f, T)[T]
  <2> HIDE DEF T
  <2> QED
    BY <1>1, PartialSame
<1>3. SumFunctionOnSet(f, S) = Partial(f, S)[S] /\ SumFunctionOnSet(f, T) = Partial(f, T)[T]
  BY SumIsPartial
<1> QED
  BY <1>2, <1>3, PartialStep

(* A sum depends on the function over the set alone.                       *)
LEMMA SumSame ==
    ASSUME NEW f, NEW g, NEW S, IsFiniteSet(S), \A x \in S : f[x] = g[x]
    PROVE  SumFunctionOnSet(f, S) = SumFunctionOnSet(g, S)
<1>1. Partial(f, S)[S] = Partial(g, S)[S]
  BY PartialSame
<1> QED
  BY <1>1, SumIsPartial

(* A sum of integers is an integer.                                        *)
LEMMA SumType ==
    ASSUME NEW f, NEW S, IsFiniteSet(S), \A x \in S : f[x] \in Int
    PROVE  SumFunctionOnSet(f, S) \in Int
<1> DEFINE Bad == {u \in SUBSET S : SumFunctionOnSet(f, u) \notin Int}
<1>1. ASSUME Bad # {} PROVE FALSE
  <2>1. PICK u \in Bad : \A v \in Bad : v \subseteq u => v = u
    <3>1. Bad \in SUBSET (SUBSET S)
      OBVIOUS
    <3> HIDE DEF Bad
    <3> QED
      BY <1>1, <3>1, MinimalSubset
  <2>2. u \in SUBSET S /\ IsFiniteSet(u) /\ SumFunctionOnSet(f, u) \notin Int
    BY <2>1, FS_Subset
  <2>3. u # {}
    <3> SUFFICES ASSUME u = {} PROVE FALSE
      OBVIOUS
    <3>1. SumFunctionOnSet(f, u) = 0
      BY <2>2, SumStep
    <3> QED
      BY <2>2, <3>1
  <2>4. /\ PickOne(u) \in u
        /\ SumFunctionOnSet(f, u) = f[PickOne(u)] + SumFunctionOnSet(f, u \ {PickOne(u)})
    BY <2>2, <2>3, SumStep
  <2>5. u \ {PickOne(u)} \notin Bad
    BY <2>1, <2>4
  <2>6. f[PickOne(u)] \in Int /\ SumFunctionOnSet(f, u \ {PickOne(u)}) \in Int
    BY <2>2, <2>4, <2>5
  <2> QED
    BY <2>2, <2>4, <2>6
<1> QED
  BY <1>1

(* A sum of nothing but zeros.                                             *)
LEMMA SumZero ==
    ASSUME NEW f, NEW S, IsFiniteSet(S), \A x \in S : f[x] = 0
    PROVE  SumFunctionOnSet(f, S) = 0
<1> DEFINE Bad == {u \in SUBSET S : SumFunctionOnSet(f, u) # 0}
<1>1. ASSUME Bad # {} PROVE FALSE
  <2>1. PICK u \in Bad : \A v \in Bad : v \subseteq u => v = u
    <3>1. Bad \in SUBSET (SUBSET S)
      OBVIOUS
    <3> HIDE DEF Bad
    <3> QED
      BY <1>1, <3>1, MinimalSubset
  <2>2. u \in SUBSET S /\ IsFiniteSet(u) /\ SumFunctionOnSet(f, u) # 0
    BY <2>1, FS_Subset
  <2>3. u # {}
    BY <2>2, SumStep
  <2>4. /\ PickOne(u) \in u
        /\ SumFunctionOnSet(f, u) = f[PickOne(u)] + SumFunctionOnSet(f, u \ {PickOne(u)})
    BY <2>2, <2>3, SumStep
  <2>5. u \ {PickOne(u)} \notin Bad
    BY <2>1, <2>4
  <2>6. f[PickOne(u)] = 0 /\ SumFunctionOnSet(f, u \ {PickOne(u)}) = 0
    BY <2>2, <2>4, <2>5
  <2> QED
    BY <2>2, <2>4, <2>6
<1> QED
  BY <1>1

(* The order does not matter: a sum can be taken apart at any element.     *)
LEMMA SumSplit ==
    ASSUME NEW f, NEW S, IsFiniteSet(S), \A x \in S : f[x] \in Int, NEW x \in S
    PROVE  SumFunctionOnSet(f, S) = f[x] + SumFunctionOnSet(f, S \ {x})
<1> DEFINE Bad == {u \in SUBSET S :
                     \E y \in u : SumFunctionOnSet(f, u) # f[y] + SumFunctionOnSet(f, u \ {y})}
<1>1. ASSUME Bad # {} PROVE FALSE
  <2>1. PICK u \in Bad : \A v \in Bad : v \subseteq u => v = u
    <3>1. Bad \in SUBSET (SUBSET S)
      OBVIOUS
    <3> HIDE DEF Bad
    <3> QED
      BY <1>1, <3>1, MinimalSubset
  <2>2. u \in SUBSET S /\ IsFiniteSet(u)
    BY <2>1, FS_Subset
  <2>3. PICK y \in u : SumFunctionOnSet(f, u) # f[y] + SumFunctionOnSet(f, u \ {y})
    BY <2>1
  <2>4. PICK p \in u : SumFunctionOnSet(f, u) = f[p] + SumFunctionOnSet(f, u \ {p})
    BY <2>2, <2>3, SumStep
  <2>5. p # y
    BY <2>3, <2>4
  <2>6. u \ {p} \notin Bad /\ u \ {y} \notin Bad
    BY <2>1, <2>3, <2>4
  <2>7. /\ SumFunctionOnSet(f, u \ {p}) = f[y] + SumFunctionOnSet(f, (u \ {p}) \ {y})
        /\ SumFunctionOnSet(f, u \ {y}) = f[p] + SumFunctionOnSet(f, (u \ {y}) \ {p})
    BY <2>2, <2>3, <2>4, <2>5, <2>6
  <2>8. (u \ {p}) \ {y} = (u \ {y}) \ {p}
    OBVIOUS
  <2>9. f[y] \in Int /\ f[p] \in Int /\ SumFunctionOnSet(f, (u \ {y}) \ {p}) \in Int
    <3>1. IsFiniteSet((u \ {y}) \ {p}) /\ \A z \in (u \ {y}) \ {p} : f[z] \in Int
      BY <2>2, FS_Subset
    <3> QED
      BY <2>2, <3>1, SumType
  <2>10. /\ SumFunctionOnSet(f, u) = f[p] + (f[y] + SumFunctionOnSet(f, (u \ {y}) \ {p}))
         /\ SumFunctionOnSet(f, u \ {y}) = f[p] + SumFunctionOnSet(f, (u \ {y}) \ {p})
    BY <2>4, <2>7, <2>8
  <2>11. SumFunctionOnSet(f, u) = f[y] + SumFunctionOnSet(f, u \ {y})
    BY <2>9, <2>10
  <2> QED
    BY <2>3, <2>11
<1>2. S \notin Bad
  BY <1>1
<1> QED
  BY <1>2

(* A sum of naturals over more is not less.                                *)
LEMMA SumSubset ==
    ASSUME NEW f, NEW T, IsFiniteSet(T), \A x \in T : f[x] \in Nat, NEW S \in SUBSET T
    PROVE  SumFunctionOnSet(f, S) <= SumFunctionOnSet(f, T)
<1> DEFINE Bad == {u \in SUBSET T :
                     ~(SumFunctionOnSet(f, S) <= SumFunctionOnSet(f, S \cup u))}
<1>1. ASSUME Bad # {} PROVE FALSE
  <2>1. PICK u \in Bad : \A v \in Bad : v \subseteq u => v = u
    <3>1. Bad \in SUBSET (SUBSET T)
      OBVIOUS
    <3> HIDE DEF Bad
    <3> QED
      BY <1>1, <3>1, MinimalSubset
  <2>2. u \in SUBSET T /\ ~(SumFunctionOnSet(f, S) <= SumFunctionOnSet(f, S \cup u))
    BY <2>1
  <2>3. \A v \in SUBSET T : IsFiniteSet(v) /\ SumFunctionOnSet(f, v) \in Int
    <3>1. \A v \in SUBSET T : IsFiniteSet(v) /\ \A x \in v : f[x] \in Int
      BY FS_Subset
    <3> QED
      BY <3>1, SumType
  <2>4. PICK x \in u : TRUE
    <3>1. u # {}
      <4> SUFFICES ASSUME u = {} PROVE FALSE
        OBVIOUS
      <4>1. S \cup u = S
        OBVIOUS
      <4> QED
        BY <2>2, <2>3, <4>1
    <3> QED
      BY <3>1
  <2> DEFINE v == u \ {x}
  <2>5. v \in SUBSET T /\ SumFunctionOnSet(f, S) <= SumFunctionOnSet(f, S \cup v)
    <3>1. v \in SUBSET T /\ v \subseteq u /\ v # u
      BY <2>2, <2>4
    <3>2. v \notin Bad
      <4> HIDE DEF Bad, v
      <4> QED
        BY <2>1, <3>1
    <3> QED
      BY <3>1, <3>2
  <2>6. x \notin S
    <3> SUFFICES ASSUME x \in S PROVE FALSE
      OBVIOUS
    <3>1. S \cup v = S \cup u
      BY <2>4
    <3> QED
      BY <2>2, <2>5, <3>1
  <2>7. S \cup u \in SUBSET T /\ x \in S \cup u /\ (S \cup u) \ {x} = S \cup v /\ S \cup v \in SUBSET T
    BY <2>2, <2>4, <2>6
  <2>8. SumFunctionOnSet(f, S \cup u) = f[x] + SumFunctionOnSet(f, S \cup v)
    <3>1. IsFiniteSet(S \cup u) /\ \A y \in S \cup u : f[y] \in Int
      BY <2>3, <2>7
    <3>2. SumFunctionOnSet(f, S \cup u) = f[x] + SumFunctionOnSet(f, (S \cup u) \ {x})
      <4> HIDE DEF v
      <4> QED
        BY <2>7, <3>1, SumSplit
    <3> QED
      BY <2>7, <3>2
  <2>9. f[x] \in Nat
    BY <2>2, <2>4
  <2> HIDE DEF v
  <2> QED
    BY <2>2, <2>3, <2>5, <2>7, <2>8, <2>9
<1>2. T \notin Bad
  BY <1>1
<1>3. S \cup T = T
  OBVIOUS
<1> QED
  BY <1>2, <1>3

(* A sum with one of its terms changed.                                    *)
LEMMA SumChange ==
    ASSUME NEW f, NEW g, NEW S, IsFiniteSet(S), \A y \in S : f[y] \in Int /\ g[y] \in Int,
           NEW x \in S, \A y \in S \ {x} : g[y] = f[y]
    PROVE  SumFunctionOnSet(g, S) = SumFunctionOnSet(f, S) - f[x] + g[x]
<1>1. IsFiniteSet(S \ {x}) /\ \A y \in S \ {x} : f[y] \in Int
  BY FS_Subset
<1>2. SumFunctionOnSet(g, S \ {x}) = SumFunctionOnSet(f, S \ {x})
  BY <1>1, SumSame
<1>3. SumFunctionOnSet(f, S \ {x}) \in Int
  BY <1>1, SumType
<1>4. /\ SumFunctionOnSet(f, S) = f[x] + SumFunctionOnSet(f, S \ {x})
      /\ SumFunctionOnSet(g, S) = g[x] + SumFunctionOnSet(g, S \ {x})
  BY SumSplit
<1> QED
  BY <1>2, <1>3, <1>4

(* A sum whose terms grow by at most one each grows by at most their       *)
(* number.                                                                 *)
LEMMA SumGrows ==
    ASSUME NEW f, NEW g, NEW S, IsFiniteSet(S), \A x \in S : f[x] \in Int /\ g[x] \in Int /\ g[x] <= f[x] + 1
    PROVE  SumFunctionOnSet(g, S) <= SumFunctionOnSet(f, S) + Cardinality(S)
<1> DEFINE Bad == {u \in SUBSET S :
                     ~(SumFunctionOnSet(g, u) <= SumFunctionOnSet(f, u) + Cardinality(u))}
<1>1. ASSUME Bad # {} PROVE FALSE
  <2>1. PICK u \in Bad : \A v \in Bad : v \subseteq u => v = u
    <3>1. Bad \in SUBSET (SUBSET S)
      OBVIOUS
    <3> HIDE DEF Bad
    <3> QED
      BY <1>1, <3>1, MinimalSubset
  <2>2. u \in SUBSET S /\ IsFiniteSet(u) /\ ~(SumFunctionOnSet(g, u) <= SumFunctionOnSet(f, u) + Cardinality(u))
    BY <2>1, FS_Subset
  <2>3. u # {}
    <3> SUFFICES ASSUME u = {} PROVE FALSE
      OBVIOUS
    <3>1. SumFunctionOnSet(g, u) = 0 /\ SumFunctionOnSet(f, u) = 0
      BY <2>2, SumStep
    <3>2. Cardinality(u) = 0
      BY FS_EmptySet
    <3> QED
      BY <2>2, <3>1, <3>2
  <2>4. PICK p \in u : TRUE
    BY <2>3
  <2> DEFINE v == u \ {p}
  <2>5. v \notin Bad /\ v \in SUBSET S /\ IsFiniteSet(v)
    BY <2>1, <2>2, <2>4, FS_Subset
  <2>6. SumFunctionOnSet(g, v) <= SumFunctionOnSet(f, v) + Cardinality(v)
    BY <2>5
  <2>7. SumFunctionOnSet(f, u) = f[p] + SumFunctionOnSet(f, v)
    BY <2>2, <2>4, SumSplit
  <2>8. SumFunctionOnSet(g, u) = g[p] + SumFunctionOnSet(g, v)
    <3>1. \A x \in u : g[x] \in Int
      BY <2>2
    <3> QED
      BY <2>2, <2>4, <3>1, SumSplit
  <2>9. Cardinality(v) = Cardinality(u) - 1 /\ Cardinality(u) \in Nat
    BY <2>2, <2>4, FS_RemoveElement, FS_CardinalityType
  <2>10. f[p] \in Int /\ g[p] \in Int /\ g[p] <= f[p] + 1
         /\ SumFunctionOnSet(f, v) \in Int /\ SumFunctionOnSet(g, v) \in Int
    <3>1. \A x \in v : f[x] \in Int /\ g[x] \in Int
      BY <2>5
    <3> QED
      BY <2>2, <2>5, <3>1, SumType
  <2> HIDE DEF v
  <2> QED
    BY <2>2, <2>6, <2>7, <2>8, <2>9, <2>10
<1>2. S \notin Bad
  BY <1>1
<1> QED
  BY <1>2
=============================================================================
