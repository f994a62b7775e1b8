-------------------------------- MODULE Sums --------------------------------
(***************************************************************************)
(* Sums of a function over a finite set, for every set and function: what  *)
(* the ledgers of the contracts and the tallies of votes are compared      *)
(* with.  Induction over a set is stated with a set of subsets in place of *)
(* a predicate, so that the provers can use it.                            *)
(***************************************************************************)
EXTENDS Integers, Functions, FiniteSetTheorems, WellFoundedInduction, TLAPS

\* A family that has every subset of a finite set S whose one-element reductions it
\* has contains all subsets of S.
LEMMA SubsetInduction ==
  ASSUME NEW S, IsFiniteSet(S), NEW G,
         \A T \in SUBSET S : (\A x \in T : T \ {x} \in G) => T \in G
  PROVE  SUBSET S \subseteq G
<1> DEFINE Left == (SUBSET S) \ G
<1> SUFFICES ASSUME Left # {} PROVE FALSE
  OBVIOUS
<1>a. FiniteSubsetsOf(S) = SUBSET S
  BY FS_FiniteSubsetsOfFinite
<1>b. IsWellFoundedOn(StrictSubsetOrdering(S), FiniteSubsetsOf(S))
  BY FS_StrictSubsetOrderingWellFounded
<1>1. IsWellFoundedOn(StrictSubsetOrdering(S), SUBSET S)
  BY <1>a, <1>b
<1>c. Left \subseteq SUBSET S
  OBVIOUS
<1>2. PICK T \in Left : \A U \in Left : <<U, T>> \notin StrictSubsetOrdering(S)
  <2> HIDE DEF Left
  <2> QED
    BY <1>1, <1>c, WFMin
<1>3. PICK x \in T : T \ {x} \notin G
  BY <1>2
<1>4. <<T \ {x}, T>> \in StrictSubsetOrdering(S)
  BY <1>2, <1>3 DEF StrictSubsetOrdering
<1>5. QED
  BY <1>2, <1>3, <1>4

\* A set of natural numbers has a smallest one.
LEMMA NatSmallest ==
  ASSUME NEW N \in SUBSET Nat, N # {}
  PROVE  \E n \in N : \A m \in N : n <= m
<1> DEFINE Less == OpToRel(<, Nat)
<1>1. \A m, n \in Nat : m < n => <<m, n>> \in Less
  BY DEF OpToRel
<1>2. IsWellFoundedOn(Less, Nat)
  BY NatLessThanWellFounded
<1> HIDE DEF Less
<1>3. PICK n \in N : \A m \in N : <<m, n>> \notin Less
  BY <1>2, WFMin
<1>4. \A m \in N : ~ (m < n)
  BY <1>1, <1>3
<1>5. QED
  BY <1>4

-----------------------------------------------------------------------------
SomeOf(T) == CHOOSE x \in T : TRUE

\* The recursion of a sum over the sets of a family closed under taking SomeOf away.
SumRecursion(f, Family, g) ==
  g = [T \in Family |-> IF T = {} THEN 0 ELSE f[SomeOf(T)] + g[T \ {SomeOf(T)}]]

SumsOf(f, S) == CHOOSE g : SumRecursion(f, SUBSET S, g)

\* The library's sum is the recursion's value for the whole set.
LEMMA SumIsLast ==
  ASSUME NEW f, NEW S
  PROVE  SumFunctionOnSet(f, S) = SumsOf(f, S)[S]
BY Zenon DEF SumFunctionOnSet, FoldFunctionOnSet, MapThenFoldSet, SumsOf, SumRecursion, SomeOf

\* The chosen member is one.
LEMMA SomeOfIn == ASSUME NEW T, T # {} PROVE SomeOf(T) \in T
BY DEF SomeOf

\* The recursion has a solution: one for the sets of up to n members, for every n.
LEMMA SumsExist ==
  ASSUME NEW f, NEW S, IsFiniteSet(S)
  PROVE  SumRecursion(f, SUBSET S, SumsOf(f, S))
<1> DEFINE Family(n) == {T \in SUBSET S : Cardinality(T) <= n}
           Open == {n \in Nat : ~ \E g : SumRecursion(f, Family(n), g)}
<1>1. \A T \in SUBSET S : IsFiniteSet(T) /\ Cardinality(T) \in Nat /\ Cardinality(T) <= Cardinality(S)
  BY FS_Subset, FS_CardinalityType
<1>2. \A T \in SUBSET S : T # {} =>
        /\ T \ {SomeOf(T)} \in SUBSET S
        /\ Cardinality(T \ {SomeOf(T)}) = Cardinality(T) - 1
  BY <1>1, SomeOfIn, FS_RemoveElement
<1>3. SumRecursion(f, Family(0), [T \in Family(0) |-> 0])
  BY <1>1, FS_EmptySet DEF SumRecursion
<1>4. ASSUME NEW n \in Nat, NEW g, SumRecursion(f, Family(n), g)
      PROVE  \E h : SumRecursion(f, Family(n+1), h)
  <2> DEFINE h == [T \in Family(n+1) |-> IF T = {} THEN 0 ELSE f[SomeOf(T)] + g[T \ {SomeOf(T)}]]
  <2>0. \A T \in Family(n) : T \in Family(n+1)
    BY <1>1
  <2>1. \A T \in Family(n) : h[T] = g[T]
    <3> SUFFICES ASSUME NEW T \in Family(n) PROVE h[T] = g[T]
      OBVIOUS
    <3> HIDE DEF Family
    <3>1. g = [U \in Family(n) |-> IF U = {} THEN 0 ELSE f[SomeOf(U)] + g[U \ {SomeOf(U)}]]
      BY <1>4 DEF SumRecursion
    <3>2. g[T] = IF T = {} THEN 0 ELSE f[SomeOf(T)] + g[T \ {SomeOf(T)}]
      BY ONLY <3>1, T \in Family(n)
    <3>3. h[T] = IF T = {} THEN 0 ELSE f[SomeOf(T)] + g[T \ {SomeOf(T)}]
      BY <2>0
    <3> QED
      BY <3>2, <3>3
  <2>2. \A T \in Family(n+1) : T # {} => T \ {SomeOf(T)} \in Family(n)
    BY <1>1, <1>2
  <2>3. \A T \in Family(n+1) : T # {} => h[T \ {SomeOf(T)}] = g[T \ {SomeOf(T)}]
    BY <2>1, <2>2
  <2> HIDE DEF Family
  <2>4. SumRecursion(f, Family(n+1), h)
    BY <2>3 DEF SumRecursion
  <2>5. QED
    BY <2>4
<1>5. Open = {}
  <2> SUFFICES ASSUME Open # {} PROVE FALSE
    OBVIOUS
  <2>1. PICK n \in Open : \A m \in Open : n <= m
    BY NatSmallest
  <2>2. n # 0
    BY <1>3, <2>1
  <2>3. n - 1 \in Nat /\ n - 1 \notin Open
    <3>1. Open \subseteq Nat
      OBVIOUS
    <3> HIDE DEF Open
    <3> QED
      BY <2>1, <2>2, <3>1
  <2>4. PICK g : SumRecursion(f, Family(n-1), g)
    BY <2>3
  <2> HIDE DEF Family
  <2>5. \E h : SumRecursion(f, Family((n-1)+1), h)
    BY <1>4, <2>3, <2>4
  <2>6. QED
    BY <2>1, <2>5
<1>6. Cardinality(S) \in Nat /\ Family(Cardinality(S)) = SUBSET S
  BY <1>1
<1>7. \E g : SumRecursion(f, SUBSET S, g)
  BY <1>5, <1>6
<1>8. QED
  BY <1>7 DEF SumsOf

\* One step of the recursion.
LEMMA SumsUnfold ==
  ASSUME NEW f, NEW S, IsFiniteSet(S), NEW T \in SUBSET S
  PROVE  SumsOf(f, S)[T] = IF T = {} THEN 0 ELSE f[SomeOf(T)] + SumsOf(f, S)[T \ {SomeOf(T)}]
<1> DEFINE g == SumsOf(f, S)
<1>0. SumRecursion(f, SUBSET S, g)
  BY SumsExist
<1> HIDE DEF g
<1>1. g = [U \in SUBSET S |-> IF U = {} THEN 0 ELSE f[SomeOf(U)] + g[U \ {SomeOf(U)}]]
  BY <1>0 DEF SumRecursion
<1>2. g[T] = IF T = {} THEN 0 ELSE f[SomeOf(T)] + g[T \ {SomeOf(T)}]
  BY <1>1
<1>3. QED
  BY <1>2 DEF g

\* What the recursion computes for a set does not depend on the set it started from.
LEMMA SumsOfPart ==
  ASSUME NEW f, NEW S, IsFiniteSet(S), NEW T \in SUBSET S
  PROVE  \A U \in SUBSET T : SumsOf(f, T)[U] = SumsOf(f, S)[U]
<1> DEFINE G == {U \in SUBSET T : SumsOf(f, T)[U] = SumsOf(f, S)[U]}
<1>1. IsFiniteSet(T)
  BY FS_Subset
<1>2. ASSUME NEW U \in SUBSET T, \A x \in U : U \ {x} \in G
      PROVE  U \in G
  <2>1. SumsOf(f, T)[U] = IF U = {} THEN 0 ELSE f[SomeOf(U)] + SumsOf(f, T)[U \ {SomeOf(U)}]
    BY <1>1, SumsUnfold
  <2>2. SumsOf(f, S)[U] = IF U = {} THEN 0 ELSE f[SomeOf(U)] + SumsOf(f, S)[U \ {SomeOf(U)}]
    BY SumsUnfold
  <2>3. U # {} => SumsOf(f, T)[U \ {SomeOf(U)}] = SumsOf(f, S)[U \ {SomeOf(U)}]
    BY <1>2, SomeOfIn
  <2>4. QED
    BY <2>1, <2>2, <2>3
<1>3. SUBSET T \subseteq G
  <2> HIDE DEF G
  <2> QED
    BY <1>1, <1>2, SubsetInduction
<1>4. QED
  BY <1>3

\* A sum of integers is one.
LEMMA SumsInt ==
  ASSUME NEW f, NEW S, IsFiniteSet(S), \A x \in S : f[x] \in Int
  PROVE  \A T \in SUBSET S : SumsOf(f, S)[T] \in Int
<1> DEFINE g == SumsOf(f, S)
           G == {T \in SUBSET S : g[T] \in Int}
<1>1. \A T \in SUBSET S : g[T] = IF T = {} THEN 0 ELSE f[SomeOf(T)] + g[T \ {SomeOf(T)}]
  BY SumsUnfold
<1> HIDE DEF g
<1>2. ASSUME NEW T \in SUBSET S, \A x \in T : T \ {x} \in G
      PROVE  T \in G
  <2>1. CASE T = {}
    <3>1. g[T] = 0
      BY <1>1, <2>1
    <3>2. QED
      BY <3>1
  <2>2. CASE T # {}
    <3>1. SomeOf(T) \in T
      BY <2>2, SomeOfIn
    <3>2. g[T] = f[SomeOf(T)] + g[T \ {SomeOf(T)}]
      BY <1>1, <2>2
    <3>3. g[T \ {SomeOf(T)}] \in Int /\ f[SomeOf(T)] \in Int
      BY <1>2, <3>1
    <3>4. g[T] \in Int
      BY ONLY <3>2, <3>3
    <3>5. QED
      BY <3>4
  <2>3. QED
    BY <2>1, <2>2
<1>3. SUBSET S \subseteq G
  <2> HIDE DEF G
  <2> QED
    BY <1>2, SubsetInduction
<1>4. QED
  BY <1>3 DEF g

\* The members may be taken away in any order.
LEMMA SumsAnyOrder ==
  ASSUME NEW f, NEW S, IsFiniteSet(S), \A x \in S : f[x] \in Int
  PROVE  \A T \in SUBSET S : \A x \in T : SumsOf(f, S)[T] = f[x] + SumsOf(f, S)[T \ {x}]
<1> DEFINE g == SumsOf(f, S)
           G == {T \in SUBSET S : \A x \in T : g[T] = f[x] + g[T \ {x}]}
<1>1. \A T \in SUBSET S : g[T] = IF T = {} THEN 0 ELSE f[SomeOf(T)] + g[T \ {SomeOf(T)}]
  BY SumsUnfold
<1>i. \A T \in SUBSET S : g[T] \in Int
  BY SumsInt
<1> HIDE DEF g
<1>2. ASSUME NEW T \in SUBSET S, \A x \in T : T \ {x} \in G
      PROVE  T \in G
  <2> SUFFICES ASSUME NEW x \in T PROVE g[T] = f[x] + g[T \ {x}]
    OBVIOUS
  <2>1. PICK m \in T : g[T] = f[m] + g[T \ {m}]
    BY <1>1, SomeOfIn
  <2>2. CASE x = m
    BY <2>1, <2>2
  <2>3. CASE x # m
    <3>1. x \in T \ {m} /\ m \in T \ {x}
      BY <2>3
    <3>2. g[T \ {m}] = f[x] + g[(T \ {m}) \ {x}]
      BY <1>2, <3>1
    <3>3. g[T \ {x}] = f[m] + g[(T \ {x}) \ {m}]
      BY <1>2, <3>1
    <3>4. (T \ {m}) \ {x} = T \ {m, x} /\ (T \ {x}) \ {m} = T \ {m, x}
      OBVIOUS
    <3>5. g[T \ {m, x}] \in Int /\ f[x] \in Int /\ f[m] \in Int
      BY <1>i
    <3>6. PICK rest \in Int : g[T \ {m}] = f[x] + rest /\ g[T \ {x}] = f[m] + rest
      BY <3>2, <3>3, <3>4, <3>5
    <3>7. QED
      BY <2>1, <3>5, <3>6
  <2>4. QED
    BY <2>2, <2>3
<1>3. SUBSET S \subseteq G
  <2> HIDE DEF G
  <2> QED
    BY <1>2, SubsetInduction
<1>4. QED
  BY <1>3 DEF g

-----------------------------------------------------------------------------
\* The sum of no values is zero.
LEMMA SumEmpty == ASSUME NEW f PROVE SumFunctionOnSet(f, {}) = 0
<1>1. SumsOf(f, {})[{}] = 0
  BY FS_EmptySet, SumsUnfold
<1>2. QED
  BY <1>1, SumIsLast

\* A sum of integers is an integer.
LEMMA SumInt ==
  ASSUME NEW f, NEW S, IsFiniteSet(S), \A x \in S : f[x] \in Int
  PROVE  SumFunctionOnSet(f, S) \in Int
BY SumsInt, SumIsLast

\* A sum is the value of any one member and the sum over the others.
LEMMA SumRemove ==
  ASSUME NEW f, NEW S, IsFiniteSet(S), \A x \in S : f[x] \in Int, NEW x \in S
  PROVE  SumFunctionOnSet(f, S) = f[x] + SumFunctionOnSet(f, S \ {x})
<1>1. SumsOf(f, S)[S] = f[x] + SumsOf(f, S)[S \ {x}]
  BY SumsAnyOrder
<1>2. SumsOf(f, S \ {x})[S \ {x}] = SumsOf(f, S)[S \ {x}]
  BY SumsOfPart
<1>3. QED
  BY <1>1, <1>2, SumIsLast

\* Two functions that agree on a set have the same sum over it.
LEMMA SumAgree ==
  ASSUME NEW f, NEW g, NEW S, IsFiniteSet(S),
         \A x \in S : f[x] \in Int /\ f[x] = g[x]
  PROVE  SumFunctionOnSet(f, S) = SumFunctionOnSet(g, S)
<1> DEFINE G == {T \in SUBSET S : SumFunctionOnSet(f, T) = SumFunctionOnSet(g, T)}
<1>1. ASSUME NEW T \in SUBSET S, \A x \in T : T \ {x} \in G
      PROVE  SumFunctionOnSet(f, T) = SumFunctionOnSet(g, T)
  <2>1. CASE T = {}
    BY <2>1, SumEmpty
  <2>2. CASE T # {}
    <3>1. PICK x \in T : TRUE
      BY <2>2
    <3>2. IsFiniteSet(T)
      BY FS_Subset
    <3>3. SumFunctionOnSet(f, T) = f[x] + SumFunctionOnSet(f, T \ {x})
      BY <3>2, SumRemove
    <3>4. SumFunctionOnSet(g, T) = g[x] + SumFunctionOnSet(g, T \ {x})
      BY <3>2, SumRemove
    <3>5. QED
      BY <1>1, <3>3, <3>4
  <2>3. QED
    BY <2>1, <2>2
<1>2. SUBSET S \subseteq G
  <2>1. \A T \in SUBSET S : (\A x \in T : T \ {x} \in G) => T \in G
    BY <1>1
  <2> HIDE DEF G
  <2> QED
    BY <2>1, SubsetInduction
<1>3. QED
  BY <1>2

\* A change at one member changes the sum by as much.
LEMMA SumChange ==
  ASSUME NEW f, NEW g, NEW S, IsFiniteSet(S), NEW c \in S,
         \A x \in S : f[x] \in Int /\ g[x] \in Int,
         \A x \in S \ {c} : f[x] = g[x]
  PROVE  SumFunctionOnSet(g, S) = SumFunctionOnSet(f, S) + g[c] - f[c]
<1>1. IsFiniteSet(S \ {c})
  BY FS_RemoveElement
<1>2. SumFunctionOnSet(f, S \ {c}) = SumFunctionOnSet(g, S \ {c})
  BY <1>1, SumAgree
<1>3. SumFunctionOnSet(f, S) = f[c] + SumFunctionOnSet(f, S \ {c})
  BY SumRemove
<1>4. SumFunctionOnSet(g, S) = g[c] + SumFunctionOnSet(g, S \ {c})
  BY SumRemove
<1>5. SumFunctionOnSet(f, S \ {c}) \in Int
  BY <1>1, SumInt
<1>6. QED
  BY ONLY <1>2, <1>3, <1>4, <1>5, f[c] \in Int, g[c] \in Int

\* Smaller values have a smaller sum.
LEMMA SumMonotone ==
  ASSUME NEW f, NEW g, NEW S, IsFiniteSet(S),
         \A x \in S : f[x] \in Int /\ g[x] \in Int /\ f[x] <= g[x]
  PROVE  SumFunctionOnSet(f, S) <= SumFunctionOnSet(g, S)
<1> DEFINE G == {T \in SUBSET S : SumFunctionOnSet(f, T) <= SumFunctionOnSet(g, T)}
<1>1. ASSUME NEW T \in SUBSET S, \A x \in T : T \ {x} \in G
      PROVE  SumFunctionOnSet(f, T) <= SumFunctionOnSet(g, T)
  <2>1. CASE T = {}
    BY <2>1, SumEmpty
  <2>2. CASE T # {}
    <3>1. PICK x \in T : TRUE
      BY <2>2
    <3>2. IsFiniteSet(T) /\ IsFiniteSet(T \ {x})
      BY FS_Subset
    <3>3. SumFunctionOnSet(f, T) = f[x] + SumFunctionOnSet(f, T \ {x})
      BY <3>2, SumRemove
    <3>4. SumFunctionOnSet(g, T) = g[x] + SumFunctionOnSet(g, T \ {x})
      BY <3>2, SumRemove
    <3>5. SumFunctionOnSet(f, T \ {x}) \in Int /\ SumFunctionOnSet(g, T \ {x}) \in Int
      BY <3>2, SumInt
    <3>6. QED
      BY <1>1, <3>3, <3>4, <3>5
  <2>3. QED
    BY <2>1, <2>2
<1>2. SUBSET S \subseteq G
  <2>1. \A T \in SUBSET S : (\A x \in T : T \ {x} \in G) => T \in G
    BY <1>1
  <2> HIDE DEF G
  <2> QED
    BY <2>1, SubsetInduction
<1>3. QED
  BY <1>2

\* A sum of zeros is zero.
LEMMA SumZero ==
  ASSUME NEW f, NEW S, IsFiniteSet(S), \A x \in S : f[x] = 0
  PROVE  SumFunctionOnSet(f, S) = 0
<1> DEFINE G == {T \in SUBSET S : SumFunctionOnSet(f, T) = 0}
<1>1. ASSUME NEW T \in SUBSET S, \A x \in T : T \ {x} \in G
      PROVE  SumFunctionOnSet(f, T) = 0
  <2>1. CASE T = {}
    BY <2>1, SumEmpty
  <2>2. CASE T # {}
    <3>1. PICK x \in T : TRUE
      BY <2>2
    <3>2. SumFunctionOnSet(f, T) = f[x] + SumFunctionOnSet(f, T \ {x})
      <4>1. IsFiniteSet(T)
        BY FS_Subset
      <4>2. \A y \in T : f[y] \in Int
        OBVIOUS
      <4>3. QED
        BY <4>1, <4>2, SumRemove
    <3>3. QED
      BY <1>1, <3>2
  <2>3. QED
    BY <2>1, <2>2
<1>2. SUBSET S \subseteq G
  <2>1. \A T \in SUBSET S : (\A x \in T : T \ {x} \in G) => T \in G
    BY <1>1
  <2> HIDE DEF G
  <2> QED
    BY <2>1, SubsetInduction
<1>3. QED
  BY <1>2

\* A sum of natural numbers is one, and at least each of them.
LEMMA SumNat ==
  ASSUME NEW f, NEW S, IsFiniteSet(S), \A x \in S : f[x] \in Nat
  PROVE  /\ SumFunctionOnSet(f, S) \in Nat
         /\ \A x \in S : f[x] <= SumFunctionOnSet(f, S)
<1> DEFINE zero == [x \in S |-> 0]
<1>1. \A T \in SUBSET S : SumFunctionOnSet(f, T) \in Nat
  <2> SUFFICES ASSUME NEW T \in SUBSET S PROVE SumFunctionOnSet(f, T) \in Nat
    OBVIOUS
  <2>1. IsFiniteSet(T)
    BY FS_Subset
  <2>2. \A x \in T : zero[x] = 0
    OBVIOUS
  <2> HIDE DEF zero
  <2>3. SumFunctionOnSet(zero, T) = 0
    BY <2>1, <2>2, SumZero
  <2>4. SumFunctionOnSet(zero, T) <= SumFunctionOnSet(f, T)
    BY <2>1, <2>2, SumMonotone
  <2>5. SumFunctionOnSet(f, T) \in Int
    BY <2>1, SumInt
  <2>6. QED
    BY <2>3, <2>4, <2>5
<1>2. ASSUME NEW x \in S PROVE f[x] <= SumFunctionOnSet(f, S)
  <2>1. SumFunctionOnSet(f, S) = f[x] + SumFunctionOnSet(f, S \ {x})
    BY SumRemove
  <2>2. QED
    BY <1>1, <2>1
<1>3. QED
  BY <1>1, <1>2

\* A new member adds its value to the sum over the others.
LEMMA SumAdd ==
  ASSUME NEW f, NEW g, NEW S, IsFiniteSet(S), NEW x, x \notin S, g[x] \in Int,
         \A y \in S : f[y] \in Int /\ f[y] = g[y]
  PROVE  SumFunctionOnSet(g, S \union {x}) = SumFunctionOnSet(f, S) + g[x]
<1>1. IsFiniteSet(S \union {x}) /\ (S \union {x}) \ {x} = S
  BY FS_AddElement
<1>2. SumFunctionOnSet(g, S \union {x}) = g[x] + SumFunctionOnSet(g, (S \union {x}) \ {x})
  BY <1>1, SumRemove
<1>3. SumFunctionOnSet(f, S) = SumFunctionOnSet(g, S)
  BY SumAgree
<1>4. SumFunctionOnSet(f, S) \in Int
  BY SumInt
<1>5. SumFunctionOnSet(g, (S \union {x}) \ {x}) = SumFunctionOnSet(g, S)
  BY <1>1, Zenon
<1>6. QED
  BY ONLY <1>2, <1>3, <1>4, <1>5, g[x] \in Int

\* A sum is that of a part and that of the rest.
LEMMA SumSplit ==
  ASSUME NEW f, NEW S, IsFiniteSet(S), \A x \in S : f[x] \in Int, NEW P \in SUBSET S
  PROVE  SumFunctionOnSet(f, S) = SumFunctionOnSet(f, P) + SumFunctionOnSet(f, S \ P)
<1> DEFINE G == {T \in SUBSET S :
                   SumFunctionOnSet(f, T) = SumFunctionOnSet(f, T \intersect P)
                                              + SumFunctionOnSet(f, T \ P)}
<1>0. \A T \in SUBSET S : IsFiniteSet(T) /\ SumFunctionOnSet(f, T) \in Int
  <2> SUFFICES ASSUME NEW T \in SUBSET S PROVE IsFiniteSet(T) /\ SumFunctionOnSet(f, T) \in Int
    OBVIOUS
  <2>1. IsFiniteSet(T)
    BY FS_Subset
  <2>2. QED
    BY <2>1, SumInt
<1>1. ASSUME NEW T \in SUBSET S, \A x \in T : T \ {x} \in G
      PROVE  SumFunctionOnSet(f, T) = SumFunctionOnSet(f, T \intersect P) + SumFunctionOnSet(f, T \ P)
  <2>1. CASE T = {}
    <3>1. T \intersect P = {} /\ T \ P = {}
      BY <2>1
    <3>2. QED
      BY <2>1, <3>1, SumEmpty
  <2>2. CASE T # {}
    <3>1. PICK x \in T : TRUE
      BY <2>2
    <3>2. SumFunctionOnSet(f, T) = f[x] + SumFunctionOnSet(f, T \ {x})
      BY <1>0, SumRemove
    <3>3. SumFunctionOnSet(f, T \ {x}) = SumFunctionOnSet(f, (T \ {x}) \intersect P)
                                           + SumFunctionOnSet(f, (T \ {x}) \ P)
      BY <1>1
    <3>4. CASE x \in P
      <4>1. /\ SumFunctionOnSet(f, (T \ {x}) \ P) = SumFunctionOnSet(f, T \ P)
            /\ SumFunctionOnSet(f, (T \ {x}) \intersect P) = SumFunctionOnSet(f, (T \intersect P) \ {x})
        <5>1. (T \ {x}) \ P = T \ P /\ (T \ {x}) \intersect P = (T \intersect P) \ {x}
          BY <3>4
        <5>2. QED
          BY ONLY <5>1, Zenon
      <4>2. SumFunctionOnSet(f, T \intersect P)
              = f[x] + SumFunctionOnSet(f, (T \intersect P) \ {x})
        <5>1. IsFiniteSet(T \intersect P) /\ x \in T \intersect P /\ \A y \in T \intersect P : f[y] \in Int
          BY <1>0, <3>4
        <5>2. QED
          BY ONLY <5>1, SumRemove
      <4>3. f[x] \in Int /\ SumFunctionOnSet(f, (T \intersect P) \ {x}) \in Int
             /\ SumFunctionOnSet(f, T \ P) \in Int
        BY <1>0
      <4>4. QED
        BY ONLY <3>2, <3>3, <4>1, <4>2, <4>3
    <3>5. CASE x \notin P
      <4>1. /\ SumFunctionOnSet(f, (T \ {x}) \intersect P) = SumFunctionOnSet(f, T \intersect P)
            /\ SumFunctionOnSet(f, (T \ {x}) \ P) = SumFunctionOnSet(f, (T \ P) \ {x})
        <5>1. (T \ {x}) \intersect P = T \intersect P /\ (T \ {x}) \ P = (T \ P) \ {x}
          BY <3>5
        <5>2. QED
          BY ONLY <5>1, Zenon
      <4>2. SumFunctionOnSet(f, T \ P) = f[x] + SumFunctionOnSet(f, (T \ P) \ {x})
        <5>1. IsFiniteSet(T \ P) /\ x \in T \ P /\ \A y \in T \ P : f[y] \in Int
          BY <1>0, <3>5
        <5>2. QED
          BY ONLY <5>1, SumRemove
      <4>3. f[x] \in Int /\ SumFunctionOnSet(f, (T \ P) \ {x}) \in Int
             /\ SumFunctionOnSet(f, T \intersect P) \in Int
        BY <1>0
      <4>4. QED
        BY ONLY <3>2, <3>3, <4>1, <4>2, <4>3
    <3>6. QED
      BY <3>4, <3>5
  <2>3. QED
    BY <2>1, <2>2
<1>2. SUBSET S \subseteq G
  <2>1. \A T \in SUBSET S : (\A x \in T : T \ {x} \in G) => T \in G
    BY <1>1
  <2> HIDE DEF G
  <2> QED
    BY <1>1, <2>1, SubsetInduction
<1>3. S \intersect P = P
  OBVIOUS
<1>4. QED
  BY <1>2, <1>3

\* A part of some natural numbers has no larger sum.
LEMMA SumPart ==
  ASSUME NEW f, NEW S, IsFiniteSet(S), \A x \in S : f[x] \in Nat, NEW P \in SUBSET S
  PROVE  SumFunctionOnSet(f, P) <= SumFunctionOnSet(f, S)
<1>1. IsFiniteSet(P) /\ IsFiniteSet(S \ P)
  BY FS_Subset
<1>2. SumFunctionOnSet(f, P) \in Nat
  BY <1>1, SumNat
<1>3. SumFunctionOnSet(f, S \ P) \in Nat
  <2>1. \A x \in S \ P : f[x] \in Nat
    OBVIOUS
  <2>2. QED
    BY ONLY <1>1, <2>1, SumNat
<1>4. SumFunctionOnSet(f, S) = SumFunctionOnSet(f, P) + SumFunctionOnSet(f, S \ P)
  BY SumSplit
<1>5. QED
  BY <1>2, <1>3, <1>4

=============================================================================
