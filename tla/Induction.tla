----------------------------- MODULE Induction ------------------------------
(***************************************************************************)
(* Induction and sums, for the proofs about the contracts.                 *)
(*                                                                         *)
(* The induction is over a set: of naturals, or of the subsets of a finite *)
(* set.  What is to be shown of every n is the set of the n it holds of,   *)
(* which an ordinary lemma can name.  That recursive functions over lists  *)
(* and sets satisfy their equations is shown with it, for each of them     *)
(* where it is used.                                                       *)
(***************************************************************************)
EXTENDS FiniteSetTheorems, FiniteSetsExt, TLAPS

\* A set of naturals that has 0 and every successor has them all.
LEMMA NatSetInduction ==
    ASSUME NEW S, 0 \in S, \A n \in Nat : n \in S => n + 1 \in S
    PROVE  Nat \subseteq S
<1> SUFFICES ASSUME Nat \ S # {} PROVE FALSE
  OBVIOUS
<1>1. IsWellFoundedOn(OpToRel(<, Nat), Nat)
  BY NatLessThanWellFounded
<1>2. \E x \in Nat \ S : \A y \in Nat \ S : ~(<<y, x>> \in OpToRel(<, Nat))
  BY <1>1, WFMin
<1>3. PICK x \in Nat \ S : \A y \in Nat \ S : ~(y < x)
  BY <1>2 DEF OpToRel
<1>4. x - 1 \in Nat
  BY <1>3
<1> QED BY <1>3, <1>4

\* A non-empty set of naturals has a least element, and Min is it.
LEMMA NatMin ==
    ASSUME NEW S \in SUBSET Nat, S # {}
    PROVE  Min(S) \in S /\ \A x \in S : Min(S) <= x
<1>1. IsWellFoundedOn(OpToRel(<, Nat), Nat)
  BY NatLessThanWellFounded
<1>2. PICK x \in S : \A y \in S : ~(<<y, x>> \in OpToRel(<, Nat))
  BY <1>1, WFMin
<1>3. \A y \in S : ~(y < x)
  BY <1>2 DEF OpToRel
<1>4. \A y \in S : x <= y
  BY <1>3
<1> QED BY <1>4 DEF Min

\* A set of sets that has {}, and every subset of U that it has without any one of its
\* elements, has all subsets of U, when U is finite.
LEMMA FiniteSetInduction ==
    ASSUME NEW U, IsFiniteSet(U), NEW P, {} \in P,
           \A T \in SUBSET U : T # {} /\ (\A x \in T : T \ {x} \in P) => T \in P
    PROVE  SUBSET U \subseteq P
<1> DEFINE R == StrictSubsetOrdering(U)
           Bad == {T \in SUBSET U : T \notin P}
<1> SUFFICES ASSUME Bad # {} PROVE FALSE
  OBVIOUS
<1>1. IsWellFoundedOn(R, FiniteSubsetsOf(U))
  BY FS_StrictSubsetOrderingWellFounded
<1>2. FiniteSubsetsOf(U) = SUBSET U
  BY FS_FiniteSubsetsOfFinite
<1>3. Bad \subseteq FiniteSubsetsOf(U)
  BY <1>2
<1>4. PICK T \in Bad : \A V \in Bad : ~(<<V, T>> \in R)
  <2> HIDE DEF R, Bad
  <2> QED BY <1>1, <1>3, WFMin
<1>5. ASSUME NEW x \in T PROVE T \ {x} \in P
  <2>1. T \ {x} \in SUBSET U /\ T \in SUBSET U /\ T \ {x} # T
    BY <1>4, <1>5
  <2>2. <<T \ {x}, T>> \in R
    BY <2>1 DEF StrictSubsetOrdering
  <2> QED BY <1>4, <2>1, <2>2
<1> QED BY <1>4, <1>5

-----------------------------------------------------------------------------
(* Sums.                                                                   *)

Sum(f, S) == SumFunctionOnSet(f, S)

Pick(T) == CHOOSE x \in T : TRUE
IsSumOn(g, f, SS) ==
    g = [T \in SS |-> IF T = {} THEN 0 ELSE f[Pick(T)] + g[T \ {Pick(T)}]]

\* The library's sum is a recursive function over the subsets, chosen by its equation.
LEMMA SumIsChosen ==
    ASSUME NEW f, NEW S
    PROVE  Sum(f, S) = (CHOOSE g : IsSumOn(g, f, SUBSET S))[S]
BY DEF Sum, SumFunctionOnSet, FoldFunctionOnSet, MapThenFoldSet, IsSumOn, Pick

\* That equation has a solution, built subset size by subset size.
LEMMA SumExists ==
    ASSUME NEW f, NEW S, IsFiniteSet(S)
    PROVE  \E g : IsSumOn(g, f, SUBSET S)
<1> DEFINE Small(n) == {T \in SUBSET S : Cardinality(T) <= n}
           Good == {n \in Nat : \E g : IsSumOn(g, f, Small(n))}
<1>0. \A T \in SUBSET S : IsFiniteSet(T) /\ Cardinality(T) \in Nat /\ Cardinality(T) <= Cardinality(S)
  BY FS_Subset, FS_CardinalityType
<1>a. ASSUME NEW T \in SUBSET S, T # {}
      PROVE  Pick(T) \in T /\ T \ {Pick(T)} \in SUBSET S /\ Cardinality(T \ {Pick(T)}) = Cardinality(T) - 1
  BY <1>0, <1>a, FS_RemoveElement DEF Pick
<1>1. 0 \in Good
  <2>1. Small(0) = {{}}
    BY <1>0, FS_EmptySet
  <2>2. IsSumOn([T \in Small(0) |-> 0], f, Small(0))
    BY <2>1 DEF IsSumOn
  <2> QED BY <2>2
<1>2. ASSUME NEW n \in Nat, n \in Good PROVE n + 1 \in Good
  <2>1. PICK g : IsSumOn(g, f, Small(n))
    BY <1>2
  <2> DEFINE h == [T \in Small(n + 1) |->
                     IF T \in Small(n) THEN g[T] ELSE f[Pick(T)] + g[T \ {Pick(T)}]]
  <2>2. ASSUME NEW T \in Small(n + 1)
        PROVE  h[T] = IF T = {} THEN 0 ELSE f[Pick(T)] + h[T \ {Pick(T)}]
    <3>1. CASE T = {}
      <4>1. T \in Small(n)
        BY <3>1, FS_EmptySet
      <4> QED BY <3>1, <4>1, <2>1 DEF IsSumOn
    <3>2. CASE T # {}
      <4>1. T \ {Pick(T)} \in Small(n) /\ T \ {Pick(T)} \in Small(n + 1)
        BY <3>2, <1>a, <1>0
      <4>2. h[T \ {Pick(T)}] = g[T \ {Pick(T)}]
        BY <4>1
      <4>3. h[T] = f[Pick(T)] + g[T \ {Pick(T)}]
        BY <3>2, <2>1, <4>1 DEF IsSumOn
      <4> QED BY <3>2, <4>2, <4>3
    <3> QED BY <3>1, <3>2
  <2>3. IsSumOn(h, f, Small(n + 1))
    <3>1. h = [T \in Small(n + 1) |-> h[T]]
      OBVIOUS
    <3> HIDE DEF h, Small
    <3> QED BY <2>2, <3>1 DEF IsSumOn
  <2>4. \E g2 : IsSumOn(g2, f, Small(n + 1))
    <3> HIDE DEF h, Small
    <3> QED BY <2>3
  <2> HIDE DEF h, Small
  <2> QED BY <2>4
<1>3. Cardinality(S) \in Good
  <2> HIDE DEF Good
  <2>1. Nat \subseteq Good
    BY <1>1, <1>2, NatSetInduction
  <2> QED BY <2>1, <1>0
<1>4. Small(Cardinality(S)) = SUBSET S
  BY <1>0
<1> QED BY <1>3, <1>4

\* Hence the sum satisfies it: the empty sum, and one element more.
LEMMA SumEquations ==
    ASSUME NEW f, NEW S, IsFiniteSet(S)
    PROVE  /\ Sum(f, {}) = 0
           /\ S # {} => Pick(S) \in S /\ Sum(f, S) = f[Pick(S)] + Sum(f, S \ {Pick(S)})
<1> DEFINE G(T) == CHOOSE g : IsSumOn(g, f, SUBSET T)
<1>1. \A T \in SUBSET S : IsFiniteSet(T)
  BY FS_Subset
<1>2. ASSUME NEW T \in SUBSET S PROVE IsSumOn(G(T), f, SUBSET T)
  BY <1>1, SumExists
<1>3. ASSUME NEW T \in SUBSET S PROVE Sum(f, T) = G(T)[T]
  BY SumIsChosen
<1> HIDE DEF G
<1>4. ASSUME NEW T \in SUBSET S PROVE \A V \in SUBSET T : G(T)[V] = G(S)[V]
  <2> DEFINE P == {V \in SUBSET T : G(T)[V] = G(S)[V]}
  <2>1. {} \in P
    BY <1>2 DEF IsSumOn
  <2>2. ASSUME NEW V \in SUBSET T, V # {}, \A x \in V : V \ {x} \in P PROVE V \in P
    <3>1. Pick(V) \in V
      BY <2>2 DEF Pick
    <3>2. G(T)[V \ {Pick(V)}] = G(S)[V \ {Pick(V)}]
      BY <3>1, <2>2
    <3>3. G(T)[V] = f[Pick(V)] + G(T)[V \ {Pick(V)}]
      BY <1>2, <2>2 DEF IsSumOn
    <3>4. G(S)[V] = f[Pick(V)] + G(S)[V \ {Pick(V)}]
      BY <1>2, <2>2 DEF IsSumOn
    <3> QED BY <3>2, <3>3, <3>4
  <2>3. SUBSET T \subseteq P
    <3> HIDE DEF P
    <3> QED BY <1>1, <2>1, <2>2, FiniteSetInduction
  <2> QED BY <2>3
<1>5. Sum(f, {}) = 0
  BY <1>2, <1>3 DEF IsSumOn
<1>6. ASSUME S # {} PROVE Pick(S) \in S /\ Sum(f, S) = f[Pick(S)] + Sum(f, S \ {Pick(S)})
  <2>1. Pick(S) \in S
    BY <1>6 DEF Pick
  <2>2. G(S)[S] = f[Pick(S)] + G(S)[S \ {Pick(S)}]
    BY <1>2, <1>6 DEF IsSumOn
  <2>3. Sum(f, S \ {Pick(S)}) = G(S)[S \ {Pick(S)}]
    BY <1>3, <1>4
  <2> QED BY <1>3, <2>1, <2>2, <2>3
<1> QED BY <1>5, <1>6

\* A sum of integers is one; whichever element is taken out, its value is what is missing.
LEMMA SumRemove ==
    ASSUME NEW f, NEW S, IsFiniteSet(S), \A x \in S : f[x] \in Int
    PROVE  /\ Sum(f, S) \in Int
           /\ \A x \in S : Sum(f, S) = f[x] + Sum(f, S \ {x})
<1> DEFINE Good(T) == /\ Sum(f, T) \in Int
                      /\ \A x \in T : /\ Sum(f, T) = f[x] + Sum(f, T \ {x})
                                      /\ Sum(f, T \ {x}) \in Int
           P == {T \in SUBSET S : Good(T)}
<1>0. \A T \in SUBSET S : IsFiniteSet(T)
  BY FS_Subset
<1>1. {} \in P
  <2>1. Sum(f, {}) = 0
    BY SumEquations
  <2> QED BY <2>1
<1>2. ASSUME NEW T \in SUBSET S, T # {}, \A x \in T : T \ {x} \in P PROVE T \in P
  <2> DEFINE p == Pick(T)
  <2>1. p \in T /\ Sum(f, T) = f[p] + Sum(f, T \ {p})
    BY <1>0, <1>2, SumEquations
  <2> HIDE DEF p
  <2>2. Sum(f, T \ {p}) \in Int /\ Sum(f, T) \in Int
    BY <1>2, <2>1
  <2>3. ASSUME NEW x \in T, x # p PROVE Sum(f, T) = f[x] + Sum(f, T \ {x})
    <3>1. Sum(f, T \ {p}) = f[x] + Sum(f, (T \ {p}) \ {x})
      BY <1>2, <2>1, <2>3
    <3>2. Sum(f, T \ {x}) = f[p] + Sum(f, (T \ {x}) \ {p}) /\ Sum(f, T \ {x}) \in Int
      BY <1>2, <2>1, <2>3
    <3>3. (T \ {x}) \ {p} = (T \ {p}) \ {x}
      OBVIOUS
    <3>4. Sum(f, (T \ {p}) \ {x}) \in Int
      BY <1>2, <2>1, <2>3
    <3>5. f[p] \in Int /\ f[x] \in Int
      BY <2>1
    <3>6. Sum(f, T \ {x}) = f[p] + Sum(f, (T \ {p}) \ {x})
      BY <3>2, <3>3
    <3> QED BY <2>1, <3>1, <3>4, <3>5, <3>6
  <2>4. Good(T)
    BY <1>2, <2>1, <2>2, <2>3
  <2> QED BY <2>4
<1>3. SUBSET S \subseteq P
  <2> HIDE DEF P
  <2> QED BY <1>1, <1>2, FiniteSetInduction
<1> QED BY <1>3

\* Sums of equal terms are equal.
LEMMA SumSame ==
    ASSUME NEW f, NEW g, NEW S, IsFiniteSet(S), \A x \in S : f[x] = g[x]
    PROVE  Sum(f, S) = Sum(g, S)
<1> DEFINE P == {T \in SUBSET S : Sum(f, T) = Sum(g, T)}
<1>0. \A T \in SUBSET S : IsFiniteSet(T)
  BY FS_Subset
<1>1. {} \in P
  BY SumEquations
<1>2. ASSUME NEW T \in SUBSET S, T # {}, \A x \in T : T \ {x} \in P PROVE T \in P
  <2>1. /\ Pick(T) \in T
        /\ Sum(f, T) = f[Pick(T)] + Sum(f, T \ {Pick(T)})
        /\ Sum(g, T) = g[Pick(T)] + Sum(g, T \ {Pick(T)})
    BY <1>0, <1>2, SumEquations
  <2> QED BY <1>2, <2>1
<1>3. SUBSET S \subseteq P
  <2> HIDE DEF P
  <2> QED BY <1>1, <1>2, FiniteSetInduction
<1> QED BY <1>3

\* Of naturals, a sum is a natural, at least as large as each term, and zero only when
\* they are.
LEMMA SumNat ==
    ASSUME NEW f, NEW S, IsFiniteSet(S), \A x \in S : f[x] \in Nat
    PROVE  /\ Sum(f, S) \in Nat
           /\ \A x \in S : f[x] <= Sum(f, S)
           /\ Sum(f, S) > 0 => \E x \in S : f[x] > 0
<1> DEFINE P == {T \in SUBSET S : Sum(f, T) \in Nat /\ (Sum(f, T) > 0 => \E x \in T : f[x] > 0)}
<1>0. \A T \in SUBSET S : IsFiniteSet(T)
  BY FS_Subset
<1>1. {} \in P
  <2>1. Sum(f, {}) = 0
    BY SumEquations
  <2> QED BY <2>1
<1>2. ASSUME NEW T \in SUBSET S, T # {}, \A x \in T : T \ {x} \in P PROVE T \in P
  <2>1. Pick(T) \in T /\ Sum(f, T) = f[Pick(T)] + Sum(f, T \ {Pick(T)})
    BY <1>0, <1>2, SumEquations
  <2> QED BY <1>2, <2>1
<1>3. SUBSET S \subseteq P
  <2> HIDE DEF P
  <2> QED BY <1>1, <1>2, FiniteSetInduction
<1>4. ASSUME NEW x \in S PROVE f[x] <= Sum(f, S)
  <2>1. Sum(f, S) = f[x] + Sum(f, S \ {x})
    BY SumRemove
  <2>2. Sum(f, S \ {x}) \in Nat
    BY <1>3
  <2> QED BY <2>1, <2>2
<1> QED BY <1>3, <1>4

\* Changing one term changes the sum by as much.
LEMMA SumUpdate ==
    ASSUME NEW f, NEW g, NEW S, IsFiniteSet(S), NEW x \in S,
           \A y \in S : f[y] \in Int /\ g[y] \in Int,
           \A y \in S \ {x} : g[y] = f[y]
    PROVE  Sum(g, S) = Sum(f, S) + g[x] - f[x]
<1>1. IsFiniteSet(S \ {x})
  BY FS_RemoveElement
<1>2. Sum(g, S \ {x}) = Sum(f, S \ {x})
  BY <1>1, SumSame
<1>3. Sum(g, S) = g[x] + Sum(g, S \ {x}) /\ Sum(f, S) = f[x] + Sum(f, S \ {x})
  BY SumRemove
<1>4. Sum(f, S \ {x}) \in Int
  BY <1>1, SumRemove
<1> QED BY <1>2, <1>3, <1>4

\* Larger terms have a larger sum.
LEMMA SumMonotonic ==
    ASSUME NEW f, NEW g, NEW S, IsFiniteSet(S),
           \A x \in S : f[x] \in Int /\ g[x] \in Int /\ f[x] <= g[x]
    PROVE  Sum(f, S) <= Sum(g, S)
<1> DEFINE P == {T \in SUBSET S : /\ Sum(f, T) \in Int /\ Sum(g, T) \in Int
                                  /\ Sum(f, T) <= Sum(g, T)}
<1>0. \A T \in SUBSET S : IsFiniteSet(T)
  BY FS_Subset
<1>1. {} \in P
  <2>1. Sum(f, {}) = 0 /\ Sum(g, {}) = 0
    BY SumEquations
  <2> QED BY <2>1
<1>2. ASSUME NEW T \in SUBSET S, T # {}, \A x \in T : T \ {x} \in P PROVE T \in P
  <2>1. /\ Pick(T) \in T
        /\ Sum(f, T) = f[Pick(T)] + Sum(f, T \ {Pick(T)})
        /\ Sum(g, T) = g[Pick(T)] + Sum(g, T \ {Pick(T)})
    BY <1>0, <1>2, SumEquations
  <2> QED BY <1>2, <2>1
<1>3. SUBSET S \subseteq P
  <2> HIDE DEF P
  <2> QED BY <1>1, <1>2, FiniteSetInduction
<1> QED BY <1>3

\* Sums of the same terms add up, and the sum of nothing is nothing.
LEMMA SumAdds ==
    ASSUME NEW f, NEW g, NEW h, NEW S, IsFiniteSet(S),
           \A x \in S : f[x] \in Int /\ g[x] \in Int /\ h[x] = f[x] + g[x]
    PROVE  Sum(h, S) = Sum(f, S) + Sum(g, S)
<1> DEFINE P == {T \in SUBSET S : /\ Sum(f, T) \in Int /\ Sum(g, T) \in Int
                                  /\ Sum(h, T) = Sum(f, T) + Sum(g, T)}
<1>0. \A T \in SUBSET S : IsFiniteSet(T)
  BY FS_Subset
<1>1. {} \in P
  <2>1. Sum(f, {}) = 0 /\ Sum(g, {}) = 0 /\ Sum(h, {}) = 0
    BY SumEquations
  <2> QED BY <2>1
<1>2. ASSUME NEW T \in SUBSET S, T # {}, \A x \in T : T \ {x} \in P PROVE T \in P
  <2>1. /\ Pick(T) \in T
        /\ Sum(f, T) = f[Pick(T)] + Sum(f, T \ {Pick(T)})
        /\ Sum(g, T) = g[Pick(T)] + Sum(g, T \ {Pick(T)})
        /\ Sum(h, T) = h[Pick(T)] + Sum(h, T \ {Pick(T)})
    BY <1>0, <1>2, SumEquations
  <2> QED BY <1>2, <2>1
<1>3. SUBSET S \subseteq P
  <2> HIDE DEF P
  <2> QED BY <1>1, <1>2, FiniteSetInduction
<1> QED BY <1>3

\* A sum with one term is that term.
LEMMA SumOfOne ==
    ASSUME NEW f, NEW S, IsFiniteSet(S), NEW x \in S, f[x] \in Int,
           \A y \in S \ {x} : f[y] = 0
    PROVE  Sum(f, S) = f[x]
<1> DEFINE z == [y \in S |-> 0]
<1>1. Sum(z, S) = 0
  <2>1. \A y \in S : z[y] \in Nat /\ ~(z[y] > 0)
    OBVIOUS
  <2> HIDE DEF z
  <2> QED BY <2>1, SumNat
<1>2. Sum(f, S) = Sum(z, S) + f[x] - z[x]
  <2>1. \A y \in S : z[y] \in Int /\ f[y] \in Int
    OBVIOUS
  <2>2. \A y \in S \ {x} : f[y] = z[y]
    OBVIOUS
  <2> HIDE DEF z
  <2> QED BY <2>1, <2>2, SumUpdate
<1>3. z[x] = 0
  OBVIOUS
<1> HIDE DEF z
<1> QED BY <1>1, <1>2, <1>3
=============================================================================
