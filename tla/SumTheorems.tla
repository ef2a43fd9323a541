---------------------------- MODULE SumTheorems ----------------------------
(***************************************************************************)
(* Facts about the sums that MapThenSumSet computes, for finite sets of    *)
(* any size.  A sum of natural numbers f[x] is the number of pairs <<x, i>> *)
(* with i in 1 .. f[x], the units of the sum, so what is known of the      *)
(* cardinality of sets carries over to sums.                               *)
(***************************************************************************)
EXTENDS Integers, FiniteSets, FiniteSetTheorems, WellFoundedInduction, TLAPS

Heap(f, x) == {x} \X (1 .. f[x])
Units(f, S) == UNION {Heap(f, x) : x \in S}
Total(f, S) == Cardinality(Units(f, S))

(* f has natural numbers to be summed up on S. *)
Summable(f, S) == IsFiniteSet(S) /\ \A x \in S : f[x] \in Nat

(* The recursion of MapThenSumSet. *)
Any(s) == CHOOSE x \in s : TRUE
Summing(f, S, g) ==
    g = [s \in SUBSET S |-> IF s = {} THEN 0 ELSE f[Any(s)] + g[s \ {Any(s)}]]
-----------------------------------------------------------------------------
(* There are n units in a heap of n. *)
LEMMA HeapSize ==
    ASSUME NEW f, NEW x, f[x] \in Nat
    PROVE  IsFiniteSet(Heap(f, x)) /\ Cardinality(Heap(f, x)) = f[x]
<1>1. IsFiniteSet({x}) /\ Cardinality({x}) = 1
  BY FS_Singleton, Zenon
<1>2. IsFiniteSet(1 .. f[x]) /\ Cardinality(1 .. f[x]) = f[x]
  <2>1. \A n \in Int : IsFiniteSet(1 .. n) /\ Cardinality(1 .. n) = IF 1 > n THEN 0 ELSE n - 1 + 1
    BY FS_Interval
  <2>2. f[x] \in Int /\ (IF 1 > f[x] THEN 0 ELSE f[x] - 1 + 1) = f[x]
    OBVIOUS
  <2> QED
    BY <2>1, <2>2, Zenon
<1>3. IsFiniteSet({x} \X (1 .. f[x])) /\ Cardinality({x} \X (1 .. f[x])) = 1 * f[x]
  <2> DEFINE P == {x}
             Q == 1 .. f[x]
  <2>1. IsFiniteSet(P) /\ IsFiniteSet(Q) /\ Cardinality(P) = 1 /\ Cardinality(Q) = f[x]
    BY <1>1, <1>2, Zenon
  <2>2. IsFiniteSet(P \X Q) /\ Cardinality(P \X Q) = Cardinality(P) * Cardinality(Q)
    <3> HIDE DEF P, Q
    <3> QED
      BY <2>1, FS_Product, Zenon
  <2> QED
    BY <2>1, <2>2, Zenon
<1> QED
  BY <1>3 DEF Heap

(* A unit of the sum belongs to one summand. *)
LEMMA UnitsOf ==
    ASSUME NEW f, NEW S, NEW u
    PROVE  u \in Units(f, S) <=> \E x \in S : u \in Heap(f, x)
BY Zenon DEF Units

(* The heaps of two elements share nothing. *)
LEMMA HeapsApart ==
    ASSUME NEW f, NEW x, NEW y, x # y
    PROVE  Heap(f, x) \cap Heap(f, y) = {}
BY Zenon DEF Heap

(* What is summed up over a part of a set can be summed up. *)
LEMMA SummableParts ==
    ASSUME NEW f, NEW S, Summable(f, S), NEW T \in SUBSET S
    PROVE  Summable(f, T)
BY FS_Subset, Zenon DEF Summable

(* The units of a finite set are finite in number. *)
LEMMA UnitsFinite ==
    ASSUME NEW f, NEW S, Summable(f, S)
    PROVE  IsFiniteSet(Units(f, S))
<1> DEFINE heaps == {Heap(f, x) : x \in S}
           h == [x \in S |-> Heap(f, x)]
<1>1. h \in Surjection(S, heaps)
  BY Zenon DEF Surjection
<1>2. IsFiniteSet(heaps)
  BY <1>1, FS_Surjection, Zenon DEF Summable
<1>3. \A T \in heaps : IsFiniteSet(T)
  BY HeapSize, Zenon DEF Summable
<1> QED
  BY <1>2, <1>3, FS_UNION, Zenon DEF Units

(* A sum is a natural number; it is nothing over the empty set. *)
LEMMA TotalType ==
    ASSUME NEW f, NEW S, Summable(f, S)
    PROVE  Total(f, S) \in Nat
BY UnitsFinite, FS_CardinalityType, Zenon DEF Total

(* The total of nothing is zero. *)
LEMMA TotalEmpty ==
    ASSUME NEW f
    PROVE  Total(f, {}) = 0
BY FS_EmptySet, Zenon DEF Total, Units

(* Only the summands matter. *)
LEMMA TotalSame ==
    ASSUME NEW f, NEW g, NEW S, \A x \in S : f[x] = g[x]
    PROVE  Total(f, S) = Total(g, S)
<1>1. \A x \in S : Heap(f, x) = Heap(g, x)
  BY Zenon DEF Heap
<1>2. Units(f, S) = Units(g, S)
  BY <1>1, Zenon DEF Units
<1> QED
  BY <1>2, Zenon DEF Total

(* One summand can be taken out. *)
LEMMA TotalSplit ==
    ASSUME NEW f, NEW S, Summable(f, S), NEW x \in S
    PROVE  /\ Summable(f, S \ {x})
           /\ Total(f, S \ {x}) \in Nat /\ f[x] \in Nat
           /\ Total(f, S) = f[x] + Total(f, S \ {x})
<1> DEFINE T == S \ {x}
<1>1. Summable(f, T)
  BY SummableParts, Zenon
<1>2. IsFiniteSet(Units(f, T)) /\ IsFiniteSet(Heap(f, x)) /\ Cardinality(Heap(f, x)) = f[x]
  BY <1>1, UnitsFinite, HeapSize, Zenon DEF Summable
<1>3. Units(f, S) = Heap(f, x) \cup Units(f, T)
  BY UnitsOf DEF Units
<1>4. Heap(f, x) \cap Units(f, T) = {}
  BY UnitsOf, HeapsApart
<1>5. Cardinality(Units(f, S)) = f[x] + Cardinality(Units(f, T)) - Cardinality({})
  <2> DEFINE H == Heap(f, x)
             U == Units(f, T)
  <2>1. IsFiniteSet(H) /\ IsFiniteSet(U) /\ Cardinality(H) = f[x] /\ Units(f, S) = H \cup U /\ H \cap U = {}
    BY <1>2, <1>3, <1>4, Zenon
  <2> HIDE DEF H, U
  <2>2. Cardinality(H \cup U) = Cardinality(H) + Cardinality(U) - Cardinality(H \cap U)
    BY <2>1, FS_Union, Zenon
  <2>3. Cardinality(Units(f, S)) = f[x] + Cardinality(U) - Cardinality({})
    BY <2>1, <2>2, Zenon
  <2> QED
    BY <2>3, Zenon DEF U
<1>6. Total(f, T) \in Nat
  BY <1>1, TotalType, Zenon
<1> QED
  BY <1>1, <1>5, <1>6, FS_EmptySet DEF Total, Summable

(* What two summands are together may be divided between them otherwise. *)
LEMMA TotalMoved ==
    ASSUME NEW f, NEW g, NEW S, Summable(f, S), Summable(g, S), NEW s \in S, NEW d \in S, s # d,
           \A y \in S \ {s, d} : g[y] = f[y], g[s] + g[d] = f[s] + f[d]
    PROVE  Total(g, S) = Total(f, S)
<1> DEFINE R == S \ {s}
<1>1. /\ Summable(f, R) /\ Total(f, R) \in Nat /\ f[s] \in Nat /\ Total(f, S) = f[s] + Total(f, R)
      /\ Summable(g, R) /\ Total(g, R) \in Nat /\ g[s] \in Nat /\ Total(g, S) = g[s] + Total(g, R)
  BY TotalSplit
<1>2. d \in R
  BY Zenon
<1>3. \A y \in R \ {d} : f[y] = g[y]
  BY Zenon
<1> HIDE DEF R
<1>4. /\ Total(f, R \ {d}) \in Nat /\ f[d] \in Nat /\ Total(f, R) = f[d] + Total(f, R \ {d})
      /\ Total(g, R \ {d}) \in Nat /\ g[d] \in Nat /\ Total(g, R) = g[d] + Total(g, R \ {d})
  BY <1>1, <1>2, TotalSplit
<1>5. Total(f, R \ {d}) = Total(g, R \ {d})
  BY <1>3, TotalSame, Zenon
<1> QED
  BY <1>1, <1>4, <1>5

(* The total over S after one summand, that of x, has changed. *)
ChangedAt(f, g, S, x) ==
    Total(f, S) \in Nat /\ Total(g, S) \in Nat /\ Total(g, S) = Total(f, S) - f[x] + g[x]

(* The sum changes as its one summand that changes. *)
LEMMA TotalChange ==
    ASSUME NEW f, NEW g, NEW S, Summable(f, S), NEW x \in S, g[x] \in Nat,
           \A y \in S \ {x} : g[y] = f[y]
    PROVE  Summable(g, S) /\ ChangedAt(f, g, S, x)
<1>1. Summable(g, S)
  BY Zenon DEF Summable
<1>2. Total(f, S \ {x}) = Total(g, S \ {x})
  BY TotalSame
<1> QED
  BY <1>1, <1>2, TotalSplit, TotalType DEF ChangedAt

(* When one summand changes, the sum changes by as much. *)
LEMMA TotalShift ==
    ASSUME NEW f, NEW g, NEW S, Summable(f, S), Summable(g, S), NEW x \in S,
           \A y \in S \ {x} : g[y] = f[y], NEW d \in Int, g[x] = f[x] + d
    PROVE  Total(g, S) = Total(f, S) + d
<1>1. g[x] \in Nat /\ f[x] \in Nat
  BY Zenon DEF Summable
<1>2. ChangedAt(f, g, S, x)
  BY <1>1, TotalChange, Zenon
<1> QED
  BY <1>1, <1>2 DEF ChangedAt

(* What is added up item by item is added up in total. *)
LEMMA TotalPlus ==
    ASSUME NEW f, NEW g, NEW h, NEW S, Summable(f, S), Summable(g, S),
           \A x \in S : h[x] = f[x] + g[x]
    PROVE  /\ Summable(h, S)
           /\ Total(h, S) = Total(f, S) + Total(g, S)
<1> DEFINE bad == {s \in FiniteSubsetsOf(S) : Total(h, s) # Total(f, s) + Total(g, s)}
<1>1. Summable(h, S)
  BY DEF Summable
<1>2. bad = {}
  <2> SUFFICES ASSUME bad # {} PROVE FALSE
    BY Zenon
  <2>1. IsWellFoundedOn(StrictSubsetOrdering(S), FiniteSubsetsOf(S))
    BY FS_StrictSubsetOrderingWellFounded, Zenon
  <2>2. PICK s \in bad : \A t \in bad : <<t, s>> \notin StrictSubsetOrdering(S)
    <3>1. bad \subseteq FiniteSubsetsOf(S)
      BY Zenon
    <3> HIDE DEF bad
    <3> QED
      BY <2>1, <3>1, WFMin, Zenon
  <2>3. s \in SUBSET S /\ Total(h, s) # Total(f, s) + Total(g, s)
    BY Zenon DEF FiniteSubsetsOf
  <2>4. s # {}
    BY <2>3, TotalEmpty
  <2>5. PICK x \in s : TRUE
    BY <2>4, Zenon
  <2> DEFINE t == s \ {x}
  <2>6. Summable(f, s) /\ Summable(g, s) /\ Summable(h, s)
    BY <1>1, <2>3, SummableParts, Zenon
  <2>7. <<t, s>> \in StrictSubsetOrdering(S) /\ t \in FiniteSubsetsOf(S)
    <3>1. IsFiniteSet(t)
      BY <2>6, TotalSplit, Zenon DEF Summable
    <3> QED
      BY <2>3, <3>1, Zenon DEF StrictSubsetOrdering, FiniteSubsetsOf
  <2>8. Total(h, t) = Total(f, t) + Total(g, t)
    BY <2>2, <2>7, Zenon
  <2>9. h[x] = f[x] + g[x]
    BY <2>3, Zenon
  <2> HIDE DEF t
  <2>10. /\ Total(f, s) = f[x] + Total(f, t) /\ f[x] \in Nat /\ Total(f, t) \in Nat
         /\ Total(g, s) = g[x] + Total(g, t) /\ g[x] \in Nat /\ Total(g, t) \in Nat
         /\ Total(h, s) = h[x] + Total(h, t)
    BY <2>6, TotalSplit DEF t
  <2> QED
    BY <2>3, <2>8, <2>9, <2>10
<1>3. S \in FiniteSubsetsOf(S)
  BY Zenon DEF FiniteSubsetsOf, Summable
<1> QED
  BY <1>1, <1>2, <1>3, Zenon

(* Summands that are nothing can be left out. *)
LEMMA TotalPart ==
    ASSUME NEW f, NEW S, NEW T \in SUBSET S, \A x \in S \ T : f[x] = 0
    PROVE  Total(f, S) = Total(f, T)
<1>1. \A x \in S \ T : Heap(f, x) = {}
  BY DEF Heap
<1>2. Units(f, S) = Units(f, T)
  BY <1>1, Zenon DEF Units
<1> QED
  BY <1>2, Zenon DEF Total

(* A summand is no more than the sum. *)
LEMMA TotalBounds ==
    ASSUME NEW f, NEW S, Summable(f, S), NEW x \in S
    PROVE  f[x] <= Total(f, S)
<1>1. Total(f, S \ {x}) \in Nat /\ f[x] \in Nat /\ Total(f, S) = f[x] + Total(f, S \ {x})
  BY TotalSplit
<1> QED
  BY <1>1

(* The recursion of MapThenSumSet has a solution, and it is the total. *)
LEMMA SummingExists ==
    ASSUME NEW f, NEW S, Summable(f, S)
    PROVE  Summing(f, S, [s \in SUBSET S |-> Total(f, s)])
<1> SUFFICES ASSUME NEW s \in SUBSET S
             PROVE  Total(f, s) = IF s = {} THEN 0 ELSE f[Any(s)] + Total(f, s \ {Any(s)})
  BY Zenon DEF Summing
<1>1. CASE s = {}
  BY <1>1, TotalEmpty, Zenon
<1>2. CASE s # {}
  <2>1. Any(s) \in s
    BY <1>2, Zenon DEF Any
  <2>2. Summable(f, s)
    BY SummableParts, Zenon
  <2> QED
    BY <1>2, <2>1, <2>2, TotalSplit
<1> QED
  BY <1>1, <1>2, Zenon

(* Whatever function adds up the subsets one element at a time ends with the
   total. *)
LEMMA SummingUnique ==
    ASSUME NEW f, NEW S, Summable(f, S), NEW g, Summing(f, S, g)
    PROVE  g[S] = Total(f, S)
<1> DEFINE bad == {s \in FiniteSubsetsOf(S) : g[s] # Total(f, s)}
<1>1. \A s \in SUBSET S : g[s] = IF s = {} THEN 0 ELSE f[Any(s)] + g[s \ {Any(s)}]
  BY Zenon DEF Summing
<1>2. bad = {}
  <2> SUFFICES ASSUME bad # {} PROVE FALSE
    BY Zenon
  <2>1. IsWellFoundedOn(StrictSubsetOrdering(S), FiniteSubsetsOf(S))
    BY FS_StrictSubsetOrderingWellFounded, Zenon
  <2>2. PICK s \in bad : \A t \in bad : <<t, s>> \notin StrictSubsetOrdering(S)
    <3>1. bad \subseteq FiniteSubsetsOf(S)
      BY Zenon
    <3> HIDE DEF bad
    <3> QED
      BY <2>1, <3>1, WFMin, Zenon
  <2>3. s \in SUBSET S /\ g[s] # Total(f, s)
    BY Zenon DEF FiniteSubsetsOf
  <2>4. s # {}
    BY <1>1, <2>3, TotalEmpty, Zenon
  <2> DEFINE x == Any(s)
             t == s \ {x}
  <2>5. x \in s
    BY <2>4, Zenon DEF Any
  <2>6. Summable(f, s)
    BY <2>3, SummableParts, Zenon
  <2>7. <<t, s>> \in StrictSubsetOrdering(S) /\ t \in FiniteSubsetsOf(S)
    <3>1. IsFiniteSet(t)
      BY <2>5, <2>6, TotalSplit, Zenon DEF Summable
    <3> QED
      BY <2>3, <2>5, <3>1, Zenon DEF StrictSubsetOrdering, FiniteSubsetsOf
  <2>8. g[t] = Total(f, t)
    BY <2>2, <2>7, Zenon
  <2>9. g[s] = f[x] + g[t]
    BY <1>1, <2>3, <2>4, Zenon
  <2> QED
    BY <2>3, <2>5, <2>6, <2>8, <2>9, TotalSplit
<1>3. S \in FiniteSubsetsOf(S)
  BY Zenon DEF FiniteSubsetsOf, Summable
<1> QED
  BY <1>2, <1>3, Zenon

(* The function that MapThenSumSet chooses. *)
LEMMA SummingIsTotal ==
    ASSUME NEW f, NEW S, Summable(f, S)
    PROVE  (CHOOSE g : Summing(f, S, g))[S] = Total(f, S)
<1>1. \E g : Summing(f, S, g)
  BY SummingExists, Zenon
<1>2. Summing(f, S, CHOOSE g : Summing(f, S, g))
  BY <1>1, Zenon
<1> QED
  BY <1>2, SummingUnique, Zenon
=============================================================================
