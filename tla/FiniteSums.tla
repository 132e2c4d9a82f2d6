------------------------------ MODULE FiniteSums ------------------------------
(***************************************************************************)
(* Lemmas about sums over finite sets, MapThenSumSet, for the proofs about *)
(* the programs' counters: a sum is defined by taking one element after    *)
(* the other with CHOOSE, and is the same in whatever order they are taken.*)
(***************************************************************************)
EXTENDS Integers, FiniteSets, FiniteSetsExt, FiniteSetTheorems, WellFoundedInduction, TLAPS

Sum(f, U) == MapThenSumSet(LAMBDA x : f[x], U)

\* The element that a sum takes from a set.
Taken(s) == CHOOSE x \in s : TRUE

\* What g gives for s, and that g gives the sum of f over each subset of U.
Take(g, f, s) == IF s = {} THEN 0 ELSE f[Taken(s)] + g[s \ {Taken(s)}]
Sums(g, f, U) == g = [s \in SUBSET U |-> Take(g, f, s)]

-----------------------------------------------------------------------------
(* Induction by the least counterexample: no lemma here has a predicate as *)
(* its parameter.                                                          *)
LEMMA Smallest ==
    ASSUME NEW S \in SUBSET Nat, S # {}
    PROVE  \E n \in S : \A m \in S : n <= m
<1> DEFINE R == {p \in Nat \X Nat : p[1] < p[2]}
<1>1. IsWellFoundedOn(R, Nat)
  BY NatLessThanWellFounded DEF OpToRel
<1>2. \E n \in S : \A m \in S : ~(<<m, n>> \in R)
  <2> HIDE DEF R
  <2> QED
    BY <1>1, WFMin
<1>3. PICK n \in S : \A m \in S : ~(<<m, n>> \in R)
  BY <1>2
<1>4. ASSUME NEW m \in S
      PROVE  n <= m
  <2>1. <<m, n>> \in Nat \X Nat /\ ~(<<m, n>> \in R)
    BY <1>3
  <2> QED
    BY <2>1
<1> QED
  BY <1>3, <1>4

LEMMA TakenLess ==
    ASSUME NEW U, IsFiniteSet(U), NEW s \in SUBSET U
    PROVE  /\ IsFiniteSet(s) /\ Cardinality(s) \in Nat
           /\ s = {} <=> Cardinality(s) = 0
           /\ \A x \in s : Cardinality(s \ {x}) = Cardinality(s) - 1
           /\ s # {} => Taken(s) \in s
<1>1. IsFiniteSet(s)
  BY FS_Subset
<1>2. Cardinality(s) \in Nat /\ (s = {} <=> Cardinality(s) = 0)
  BY <1>1, FS_CardinalityType, FS_EmptySet
<1>3. \A x \in s : Cardinality(s \ {x}) = Cardinality(s) - 1
  BY <1>1, FS_RemoveElement
<1>4. s # {} => Taken(s) \in s
  BY DEF Taken
<1> QED
  BY <1>1, <1>2, <1>3, <1>4

(* A set of subsets that is not empty has a smallest one.                  *)
LEMMA SmallestSet ==
    ASSUME NEW U, IsFiniteSet(U), NEW D \in SUBSET SUBSET U, D # {}
    PROVE  \E s \in D : \A t \in D : Cardinality(s) <= Cardinality(t)
<1> DEFINE C == {Cardinality(s) : s \in D}
<1>1. C \in SUBSET Nat /\ C # {}
  BY TakenLess
<1>2. PICK n \in C : \A m \in C : n <= m
  <2> HIDE DEF C
  <2> QED
    BY <1>1, Smallest
<1> QED
  BY <1>2

(* The sums of a function exist.                                           *)
LEMMA SumsExist ==
    ASSUME NEW U, IsFiniteSet(U), NEW f, \A x \in U : f[x] \in Nat
    PROVE  \E g \in [SUBSET U -> Nat] : Sums(g, f, U)
<1> DEFINE Upto(g, n) == /\ g \in [SUBSET U -> Nat]
                         /\ \A s \in SUBSET U : Cardinality(s) <= n => g[s] = Take(g, f, s)
           Bad == {n \in Nat : ~\E g : Upto(g, n)}
<1>1. Bad = {}
  <2> SUFFICES ASSUME Bad # {}
               PROVE  FALSE
    OBVIOUS
  <2>1. Bad \in SUBSET Nat
    OBVIOUS
  <2>2. PICK n \in Bad : \A m \in Bad : n <= m
    <3> HIDE DEF Bad
    <3> QED
      BY <2>1, Smallest
  <2>3. n \in Nat /\ ~\E g : Upto(g, n)
    BY <2>2
  <2>4. CASE n = 0
    <3> DEFINE g == [s \in SUBSET U |-> 0]
    <3>1. \A s \in SUBSET U : Cardinality(s) <= 0 => s = {}
      BY TakenLess
    <3>2. Upto(g, 0)
      BY <3>1 DEF Take
    <3> QED
      BY <2>3, <2>4, <3>2
  <2>5. CASE n # 0
    <3>1. n - 1 \in Nat /\ ~(n <= n - 1)
      BY <2>3, <2>5
    <3>2. PICK g : Upto(g, n - 1)
      BY <2>2, <3>1
    <3> DEFINE h == [s \in SUBSET U |-> Take(g, f, s)]
    <3>3. \A s \in SUBSET U : s # {} => f[Taken(s)] \in Nat /\ s \ {Taken(s)} \in SUBSET U
      BY TakenLess
    <3>4. h \in [SUBSET U -> Nat]
      BY <3>2, <3>3 DEF Take
    <3>5. ASSUME NEW s \in SUBSET U, Cardinality(s) <= n
          PROVE  h[s] = Take(h, f, s)
      <4>1. CASE s = {}
        BY <4>1 DEF Take
      <4>2. CASE s # {}
        <5>1. /\ s \ {Taken(s)} \in SUBSET U
              /\ Cardinality(s \ {Taken(s)}) = Cardinality(s) - 1 /\ Cardinality(s) \in Nat
          BY <4>2, TakenLess
        <5>2. Cardinality(s \ {Taken(s)}) <= n - 1
          BY <2>3, <3>5, <5>1
        <5>3. h[s \ {Taken(s)}] = g[s \ {Taken(s)}]
          BY <3>2, <5>1, <5>2
        <5> QED
          BY <4>2, <5>3 DEF Take
      <4> QED
        BY <4>1, <4>2
    <3>6. Upto(h, n)
      BY <3>4, <3>5
    <3> QED
      BY <2>3, <3>6
  <2> QED
    BY <2>4, <2>5
<1>2. Cardinality(U) \in Nat
  BY TakenLess
<1>3. PICK g : Upto(g, Cardinality(U))
  BY <1>1, <1>2
<1>4. \A s \in SUBSET U : Cardinality(s) <= Cardinality(U)
  BY FS_Subset
<1>5. Sums(g, f, U)
  BY <1>3, <1>4 DEF Sums
<1> QED
  BY <1>3, <1>5

(* They are the same for functions that agree, whatever set they are of.   *)
LEMMA SumsAgree ==
    ASSUME NEW U, IsFiniteSet(U), NEW T \in SUBSET U, NEW f, NEW e,
           \A x \in T : f[x] = e[x],
           NEW g, Sums(g, f, U), NEW h, Sums(h, e, T)
    PROVE  g[T] = h[T]
<1> DEFINE D == {s \in SUBSET T : g[s] # h[s]}
<1>1. D = {}
  <2> SUFFICES ASSUME D # {}
               PROVE  FALSE
    OBVIOUS
  <2>1. D \in SUBSET SUBSET U
    OBVIOUS
  <2>2. PICK s \in D : \A t \in D : Cardinality(s) <= Cardinality(t)
    <3> HIDE DEF D
    <3> QED
      BY <2>1, SmallestSet
  <2>3. s \in SUBSET T /\ s \in SUBSET U /\ g[s] # h[s]
    BY <2>2
  <2>4. g[s] = Take(g, f, s) /\ h[s] = Take(h, e, s)
    BY <2>3 DEF Sums
  <2>5. s # {}
    BY <2>3, <2>4 DEF Take
  <2>6. /\ Taken(s) \in T /\ s \ {Taken(s)} \in SUBSET T
        /\ Cardinality(s \ {Taken(s)}) = Cardinality(s) - 1 /\ Cardinality(s) \in Nat
    BY <2>3, <2>5, TakenLess
  <2>7. s \ {Taken(s)} \notin D
    BY <2>2, <2>6
  <2>8. g[s \ {Taken(s)}] = h[s \ {Taken(s)}] /\ f[Taken(s)] = e[Taken(s)]
    BY <2>6, <2>7
  <2> QED
    BY <2>3, <2>4, <2>5, <2>8 DEF Take
<1> QED
  BY <1>1

(* The fold takes what the sums of the function give for the whole set.    *)
LEMMA SumOfSums ==
    ASSUME NEW U, NEW f, \E g : Sums(g, f, U)
    PROVE  \E g : Sums(g, f, U) /\ Sum(f, U) = g[U]
BY Zenon DEF Sum, Sums, Take, Taken, MapThenSumSet, MapThenFoldSet

GivesSums(g, f, U) ==
    /\ g \in [SUBSET U -> Nat] /\ Sums(g, f, U)
    /\ \A T \in SUBSET U : Sum(f, T) = g[T]

LEMMA SumIs ==
    ASSUME NEW U, IsFiniteSet(U), NEW f, \A x \in U : f[x] \in Nat
    PROVE  \E g : GivesSums(g, f, U)
<1>1. PICK g \in [SUBSET U -> Nat] : Sums(g, f, U)
  BY SumsExist
<1>2. ASSUME NEW T \in SUBSET U
      PROVE  Sum(f, T) = g[T]
  <2>1. IsFiniteSet(T) /\ \A x \in T : f[x] \in Nat
    BY FS_Subset
  <2>2. \E h : Sums(h, f, T)
    BY <2>1, SumsExist
  <2>3. PICK h : Sums(h, f, T) /\ Sum(f, T) = h[T]
    BY <2>2, SumOfSums
  <2> QED
    BY <1>1, <2>3, SumsAgree
<1> QED
  BY <1>1, <1>2 DEF GivesSums

-----------------------------------------------------------------------------
(* What a sum is.                                                          *)

LEMMA SumNat ==
    ASSUME NEW U, IsFiniteSet(U), NEW f, \A x \in U : f[x] \in Nat
    PROVE  Sum(f, U) \in Nat
<1>1. PICK g : GivesSums(g, f, U)
  BY SumIs
<1> QED
  BY <1>1 DEF GivesSums

LEMMA SumEmpty ==
    ASSUME NEW f
    PROVE  Sum(f, {}) = 0
<1>1. PICK g : Sums(g, f, {}) /\ Sum(f, {}) = g[{}]
  BY FS_EmptySet, SumsExist, SumOfSums
<1> QED
  BY <1>1 DEF Sums, Take

(* The sums of functions that agree.                                       *)
LEMMA SumSame ==
    ASSUME NEW U, IsFiniteSet(U), NEW f, \A x \in U : f[x] \in Nat,
           NEW e, \A x \in U : f[x] = e[x]
    PROVE  Sum(f, U) = Sum(e, U)
<1>1. PICK g : Sums(g, f, U) /\ Sum(f, U) = g[U]
  BY SumsExist, SumOfSums
<1>2. \A x \in U : e[x] \in Nat
  OBVIOUS
<1>3. \E h : Sums(h, e, U)
  BY <1>2, SumsExist
<1>4. PICK h : Sums(h, e, U) /\ Sum(e, U) = h[U]
  BY <1>3, SumOfSums
<1> QED
  BY <1>1, <1>4, SumsAgree

(* Any element can be the first that is taken.                             *)
LEMMA SumSplit ==
    ASSUME NEW U, IsFiniteSet(U), NEW f, \A x \in U : f[x] \in Nat, NEW x \in U
    PROVE  Sum(f, U) = f[x] + Sum(f, U \ {x})
<1>1. PICK g : GivesSums(g, f, U)
  BY SumIs
<1> DEFINE D == {s \in SUBSET U : \E y \in s : g[s] # f[y] + g[s \ {y}]}
<1>2. D = {}
  <2> SUFFICES ASSUME D # {}
               PROVE  FALSE
    OBVIOUS
  <2>1. D \in SUBSET SUBSET U
    OBVIOUS
  <2>2. PICK s \in D : \A t \in D : Cardinality(s) <= Cardinality(t)
    <3> HIDE DEF D
    <3> QED
      BY <2>1, SmallestSet
  <2>3. PICK y \in s : g[s] # f[y] + g[s \ {y}]
    BY <2>2
  <2>4. PICK p : p = Taken(s)
    OBVIOUS
  <2>5. /\ s \in SUBSET U /\ s # {} /\ p \in s
        /\ \A z \in s : Cardinality(s \ {z}) = Cardinality(s) - 1
        /\ Cardinality(s) \in Nat
    BY <2>2, <2>3, <2>4, TakenLess
  <2>6. g[s] = f[p] + g[s \ {p}]
    BY <1>1, <2>4, <2>5 DEF GivesSums, Sums, Take
  <2>7. y # p
    BY <2>3, <2>6
  <2>8. s \ {p} \notin D /\ s \ {y} \notin D
    <3>1. ASSUME NEW z \in s
          PROVE  ~(Cardinality(s) <= Cardinality(s \ {z}))
      BY <2>5
    <3> HIDE DEF D
    <3> QED
      BY <2>2, <2>3, <2>5, <3>1
  <2>9. g[s \ {p}] = f[y] + g[(s \ {p}) \ {y}]
    BY <2>3, <2>5, <2>7, <2>8
  <2>10. g[s \ {y}] = f[p] + g[(s \ {y}) \ {p}]
    BY <2>3, <2>5, <2>7, <2>8
  <2>11. (s \ {p}) \ {y} = (s \ {y}) \ {p}
    OBVIOUS
  <2>12. PICK a, b, r \in Nat : a = f[y] /\ b = f[p] /\ r = g[(s \ {y}) \ {p}]
    BY <1>1, <2>3, <2>5 DEF GivesSums
  <2>13. g[s] = b + (a + r) /\ g[s \ {y}] = b + r
    BY <2>6, <2>9, <2>10, <2>11, <2>12
  <2>14. g[s] = f[y] + g[s \ {y}]
    BY <2>12, <2>13
  <2> QED
    BY <2>3, <2>14
<1>3. g[U] = f[x] + g[U \ {x}]
  BY <1>2
<1> QED
  BY <1>1, <1>3 DEF GivesSums

LEMMA SumAdd ==
    ASSUME NEW U, IsFiniteSet(U), NEW x, x \notin U,
           NEW f, \A y \in U \cup {x} : f[y] \in Nat
    PROVE  Sum(f, U \cup {x}) = f[x] + Sum(f, U)
<1>1. IsFiniteSet(U \cup {x}) /\ (U \cup {x}) \ {x} = U
  BY FS_AddElement
<1> QED
  BY <1>1, SumSplit

(* The sum after one value has changed.                                    *)
LEMMA SumChange ==
    ASSUME NEW U, IsFiniteSet(U), NEW x \in U,
           NEW f, \A y \in U : f[y] \in Nat, NEW e, \A y \in U : e[y] \in Nat,
           \A y \in U \ {x} : e[y] = f[y]
    PROVE  Sum(e, U) + f[x] = Sum(f, U) + e[x]
<1>1. IsFiniteSet(U \ {x})
  BY FS_Subset
<1>2. Sum(f, U \ {x}) = Sum(e, U \ {x}) /\ Sum(f, U \ {x}) \in Nat
  BY <1>1, SumSame, SumNat
<1>3. Sum(f, U) = f[x] + Sum(f, U \ {x}) /\ Sum(e, U) = e[x] + Sum(e, U \ {x})
  BY SumSplit
<1>4. f[x] \in Nat /\ e[x] \in Nat
  OBVIOUS
<1> QED
  BY <1>2, <1>3, <1>4

(* What is zero need not be added.                                         *)
LEMMA SumNonzero ==
    ASSUME NEW U, IsFiniteSet(U), NEW f, \A x \in U : f[x] \in Nat,
           NEW T \in SUBSET U, \A x \in U \ T : f[x] = 0
    PROVE  Sum(f, U) = Sum(f, T)
<1> DEFINE D == {s \in SUBSET U : T \subseteq s /\ Sum(f, s) # Sum(f, T)}
<1>1. D = {}
  <2> SUFFICES ASSUME D # {}
               PROVE  FALSE
    OBVIOUS
  <2>1. D \in SUBSET SUBSET U
    OBVIOUS
  <2>2. PICK s \in D : \A t \in D : Cardinality(s) <= Cardinality(t)
    <3> HIDE DEF D
    <3> QED
      BY <2>1, SmallestSet
  <2>3. s \in SUBSET U /\ T \subseteq s /\ Sum(f, s) # Sum(f, T)
    BY <2>2
  <2>4. PICK x \in s : x \notin T
    BY <2>3
  <2>5. /\ IsFiniteSet(s) /\ Cardinality(s \ {x}) = Cardinality(s) - 1
        /\ Cardinality(s) \in Nat
    BY <2>3, TakenLess
  <2>6. Sum(f, s \ {x}) = Sum(f, T)
    BY <2>2, <2>3, <2>4, <2>5
  <2>7. Sum(f, s) = f[x] + Sum(f, s \ {x}) /\ f[x] = 0
    BY <2>3, <2>4, <2>5, SumSplit
  <2>8. Sum(f, s \ {x}) \in Nat
    <3>1. IsFiniteSet(s \ {x}) /\ \A y \in s \ {x} : f[y] \in Nat
      BY <2>3, <2>5, FS_Subset
    <3> QED
      BY <3>1, SumNat
  <2> QED
    BY <2>3, <2>6, <2>7, <2>8
<1> QED
  BY <1>1

LEMMA SumZero ==
    ASSUME NEW U, IsFiniteSet(U), NEW f, \A x \in U : f[x] = 0
    PROVE  Sum(f, U) = 0
BY SumNonzero, SumEmpty

(* The sum when some values are one more.                                  *)
LEMMA SumOneMore ==
    ASSUME NEW U, IsFiniteSet(U), NEW e, \A x \in U : e[x] \in Nat, NEW T \in SUBSET U,
           NEW f, \A x \in U : f[x] = IF x \in T THEN e[x] + 1 ELSE e[x]
    PROVE  Sum(f, U) = Sum(e, U) + Cardinality(T)
<1> DEFINE F(t) == [x \in U |-> IF x \in t THEN e[x] + 1 ELSE e[x]]
           D == {t \in SUBSET U : Sum(F(t), U) # Sum(e, U) + Cardinality(t)}
<1>1. \A t \in SUBSET U, x \in U : F(t)[x] \in Nat
  <2>1. \A x \in U : e[x] + 1 \in Nat
    OBVIOUS
  <2> QED
    BY <2>1
<1>2. Sum(e, U) \in Nat
  BY SumNat
<1>3. D = {}
  <2> SUFFICES ASSUME D # {}
               PROVE  FALSE
    OBVIOUS
  <2>1. D \in SUBSET SUBSET U
    OBVIOUS
  <2>2. PICK t \in D : \A s \in D : Cardinality(t) <= Cardinality(s)
    <3> HIDE DEF D
    <3> QED
      BY <2>1, SmallestSet
  <2>3. t \in SUBSET U /\ Sum(F(t), U) # Sum(e, U) + Cardinality(t)
    BY <2>2
  <2>4. CASE t = {}
    <3>1. \A x \in U : e[x] = F(t)[x]
      BY <2>4
    <3>2. Sum(e, U) = Sum(F(t), U)
      <4> HIDE DEF F
      <4> QED
        BY <3>1, SumSame
    <3> QED
      BY <1>2, <2>3, <2>4, <3>2, FS_EmptySet
  <2>5. CASE t # {}
    <3>1. PICK x : x \in t
      BY <2>5
    <3> DEFINE r == t \ {x}
    <3>2. /\ Cardinality(r) = Cardinality(t) - 1 /\ Cardinality(t) \in Nat
          /\ r \in SUBSET U /\ x \in U
      BY <2>3, <3>1, TakenLess
    <3>3. r \notin D
      BY <2>2, <3>2
    <3>4. Sum(F(r), U) = Sum(e, U) + Cardinality(r)
      BY <3>2, <3>3
    <3>5. /\ F(r)[x] = e[x] /\ F(t)[x] = e[x] + 1
          /\ \A y \in U \ {x} : F(t)[y] = F(r)[y]
      BY <3>1, <3>2
    <3>6. Sum(F(t), U) + F(r)[x] = Sum(F(r), U) + F(t)[x]
      <4> HIDE DEF F, r
      <4> QED
        BY <1>1, <2>3, <3>2, <3>5, SumChange
    <3>7. Sum(F(t), U) \in Nat
      <4> HIDE DEF F
      <4> QED
        BY <1>1, <2>3, SumNat
    <3>8. PICK a, b, n, m \in Nat :
             a = Sum(F(t), U) /\ b = Sum(e, U) /\ n = e[x] /\ m = Cardinality(t)
      BY <1>2, <3>2, <3>7
    <3>9. a + n = (b + (m - 1)) + (n + 1)
      BY <3>2, <3>4, <3>5, <3>6, <3>8
    <3> QED
      BY <2>3, <3>8, <3>9
  <2> QED
    BY <2>4, <2>5
<1>4. Sum(F(T), U) = Sum(e, U) + Cardinality(T)
  BY <1>3
<1>5. \A x \in U : F(T)[x] = f[x]
  OBVIOUS
<1>6. Sum(F(T), U) = Sum(f, U)
  <2> HIDE DEF F
  <2> QED
    BY <1>1, <1>5, SumSame
<1> QED
  BY <1>4, <1>6

=============================================================================
