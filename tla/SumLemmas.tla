------------------------------ MODULE SumLemmas ------------------------------
(***************************************************************************)
(* What the proofs about balances and quantities need to know of           *)
(* SumFunctionOnSet, which the models use for filled_quantity, the trades  *)
(* of an order and the postings of an account, and of Min, which picks the *)
(* oldest order.                                                           *)
(*                                                                         *)
(* SumFunctionOnSet(f, S) is by definition the value at S of a function on *)
(* SUBSET S that is given by recursion.  The first lemmas show that such a *)
(* function exists; the others follow by induction on the finite set,      *)
(* which is stated here with a set of good subsets in the place of a       *)
(* predicate.                                                              *)
(***************************************************************************)
EXTENDS Integers, FiniteSets, FiniteSetsExt, Functions, FiniteSetTheorems,
        WellFoundedInduction, TLAPS

\* Induction on a finite set: if a subset of S is good whenever its proper
\* subsets are, S is good.
LEMMA SubsetInduction ==
    ASSUME NEW S, IsFiniteSet(S), NEW good,
           \A T \in SUBSET S : (\A R \in SUBSET T : R # T => R \in good) => T \in good
    PROVE  S \in good
<1> DEFINE bad == {T \in SUBSET S : T \notin good}
           R == StrictSubsetOrdering(S)
<1> SUFFICES ASSUME S \notin good PROVE FALSE
    OBVIOUS
<1> HIDE DEF bad, R
<1>1. IsWellFoundedOn(R, SUBSET S)
  <2>1. FiniteSubsetsOf(S) = SUBSET S
      BY FS_FiniteSubsetsOfFinite
  <2>2. IsWellFoundedOn(R, FiniteSubsetsOf(S))
      BY FS_StrictSubsetOrderingWellFounded DEF R
  <2> QED
      BY <2>1, <2>2
<1>2. bad \subseteq SUBSET S /\ bad # {}
    BY DEF bad
<1>3. PICK T \in bad : \A U \in bad : <<U, T>> \notin R
    BY <1>1, <1>2, WFMin
<1>4. \A U \in SUBSET T : U # T => U \in good
  <2> TAKE U \in SUBSET T
  <2>1. U # T => <<U, T>> \in R
      BY <1>2, <1>3 DEF R, StrictSubsetOrdering
  <2>2. U \in SUBSET S
      BY <1>2, <1>3
  <2> QED
      BY <1>3, <2>1, <2>2 DEF bad
<1> QED
    BY <1>3, <1>4 DEF bad

-----------------------------------------------------------------------------
(* The recursive function behind SumFunctionOnSet.                          *)

Pick(s) == CHOOSE x \in s : TRUE

Adds(g, f, S) ==
    g = [s \in SUBSET S |-> IF s = {} THEN 0 ELSE f[Pick(s)] + g[s \ {Pick(s)}]]

PartialSums(f, S) == CHOOSE g : Adds(g, f, S)

\* A sum is the value at the whole set of the function that adds up every subset.
LEMMA SumIsPartialSum ==
    ASSUME NEW f, NEW S
    PROVE  SumFunctionOnSet(f, S) = PartialSums(f, S)[S]
BY DEF SumFunctionOnSet, FoldFunctionOnSet, MapThenFoldSet, PartialSums, Adds, Pick

\* The element a fold takes first is in the set.
LEMMA PickIn ==
    ASSUME NEW s, s # {}
    PROVE  Pick(s) \in s
BY DEF Pick

\* What it means to add up f: nothing for the empty set, else one term and the rest.
LEMMA AddsAt ==
    ASSUME NEW f, NEW S, NEW g, Adds(g, f, S)
    PROVE  \A s \in SUBSET S :
              /\ s = {} => g[s] = 0
              /\ s # {} => g[s] = f[Pick(s)] + g[s \ {Pick(s)}]
BY DEF Adds

\* Two such functions agree wherever both are defined.
LEMMA AddsUnique ==
    ASSUME NEW f, NEW A, NEW B, NEW g, NEW h, Adds(g, f, A), Adds(h, f, B),
           NEW T, IsFiniteSet(T), T \subseteq A, T \subseteq B
    PROVE  g[T] = h[T]
<1>g. \A s \in SUBSET A : /\ s = {} => g[s] = 0
                          /\ s # {} => g[s] = f[Pick(s)] + g[s \ {Pick(s)}]
    BY AddsAt
<1>h. \A s \in SUBSET B : /\ s = {} => h[s] = 0
                          /\ s # {} => h[s] = f[Pick(s)] + h[s \ {Pick(s)}]
    BY AddsAt
<1> DEFINE good == {s \in SUBSET T : g[s] = h[s]}
<1>1. \A s \in SUBSET T : (\A r \in SUBSET s : r # s => r \in good) => s \in good
  <2> SUFFICES ASSUME NEW s \in SUBSET T, \A r \in SUBSET s : r # s => r \in good
               PROVE  g[s] = h[s]
      OBVIOUS
  <2>0. s \in SUBSET A /\ s \in SUBSET B
      OBVIOUS
  <2>1. CASE s = {}
      BY <1>g, <1>h, <2>0, <2>1
  <2>2. CASE s # {}
    <3>1. Pick(s) \in s
        BY <2>2, PickIn
    <3>2. g[s \ {Pick(s)}] = h[s \ {Pick(s)}]
        BY <3>1
    <3> QED
        BY <1>g, <1>h, <2>0, <2>2, <3>2
  <2> QED
      BY <2>1, <2>2
<1> HIDE DEF good
<1>2. T \in good
    BY <1>1, SubsetInduction
<1> QED
    BY <1>2 DEF good

\* Such a function exists on the subsets of a finite set.
LEMMA AddsExists ==
    ASSUME NEW f, NEW S, IsFiniteSet(S)
    PROVE  Adds(PartialSums(f, S), f, S)
<1> DEFINE good == {T \in SUBSET S : Adds(PartialSums(f, T), f, T)}
<1>1. \A T \in SUBSET S : (\A r \in SUBSET T : r # T => r \in good) => T \in good
  <2> SUFFICES ASSUME NEW T \in SUBSET S, \A r \in SUBSET T : r # T => r \in good
               PROVE  Adds(PartialSums(f, T), f, T)
      OBVIOUS
  <2> DEFINE rest(s) == s \ {Pick(s)}
             h == [s \in SUBSET T |-> IF s = {} THEN 0
                      ELSE f[Pick(s)] + PartialSums(f, rest(s))[rest(s)]]
  <2>1. \A s \in SUBSET T : s # {} => h[rest(s)] = PartialSums(f, rest(s))[rest(s)]
    <3> SUFFICES ASSUME NEW s \in SUBSET T, s # {}
                 PROVE  h[rest(s)] = PartialSums(f, rest(s))[rest(s)]
        OBVIOUS
    <3> DEFINE r == rest(s)
    <3>1. r \in SUBSET T /\ r # T
        BY PickIn
    <3>2. Adds(PartialSums(f, r), f, r)
        BY <3>1
    <3>3. CASE r = {}
      <4>1. PartialSums(f, r)[r] = 0
          BY <3>2, <3>3, AddsAt
      <4> QED
          BY <3>1, <3>3, <4>1
    <3>4. CASE r # {}
      <4>1. rest(r) \in SUBSET r /\ rest(r) # T
          BY <3>1, <3>4, PickIn
      <4>2. Adds(PartialSums(f, rest(r)), f, rest(r))
          BY <3>1, <4>1
      <4>3. IsFiniteSet(rest(r))
          BY <3>1, <4>1, FS_Subset
      <4>4. PartialSums(f, r)[rest(r)] = PartialSums(f, rest(r))[rest(r)]
          BY <3>2, <4>1, <4>2, <4>3, AddsUnique
      <4>5. PartialSums(f, r)[r] = f[Pick(r)] + PartialSums(f, r)[rest(r)]
        <5> HIDE DEF r
        <5>1. r \in SUBSET r
            OBVIOUS
        <5> QED
            BY <3>2, <3>4, <5>1, AddsAt
      <4>6. h[r] = f[Pick(r)] + PartialSums(f, rest(r))[rest(r)]
          BY <3>1, <3>4
      <4> QED
          BY <4>4, <4>5, <4>6
    <3> QED
        BY <3>3, <3>4
  <2>2. Adds(h, f, T)
      BY <2>1 DEF Adds
  <2> HIDE DEF h
  <2> QED
      BY <2>2 DEF PartialSums
<1> HIDE DEF good
<1>2. S \in good
    BY <1>1, SubsetInduction
<1> QED
    BY <1>2 DEF good

-----------------------------------------------------------------------------
(* Sums.                                                                    *)

\* A sum is one of its terms and the sum of the others.
LEMMA SumUnfold ==
    ASSUME NEW f, NEW S, IsFiniteSet(S)
    PROVE  /\ S = {} => SumFunctionOnSet(f, S) = 0
           /\ S # {} => SumFunctionOnSet(f, S)
                          = f[Pick(S)] + SumFunctionOnSet(f, S \ {Pick(S)})
<1> DEFINE R == S \ {Pick(S)}
<1>1. IsFiniteSet(R) /\ R \subseteq S
    BY FS_Subset
<1>2. Adds(PartialSums(f, S), f, S) /\ Adds(PartialSums(f, R), f, R)
    BY <1>1, AddsExists
<1>3. PartialSums(f, S)[R] = PartialSums(f, R)[R]
    BY <1>1, <1>2, AddsUnique
<1>4. /\ S = {} => PartialSums(f, S)[S] = 0
      /\ S # {} => PartialSums(f, S)[S] = f[Pick(S)] + PartialSums(f, S)[R]
  <2> DEFINE g == PartialSums(f, S)
  <2>1. Adds(g, f, S) /\ S \in SUBSET S
      BY <1>2
  <2> HIDE DEF g
  <2>2. \A s \in SUBSET S :
          /\ s = {} => g[s] = 0
          /\ s # {} => g[s] = f[Pick(s)] + g[s \ {Pick(s)}]
      BY <2>1, AddsAt
  <2>3. /\ S = {} => g[S] = 0
        /\ S # {} => g[S] = f[Pick(S)] + g[R]
      BY <2>1, <2>2
  <2> QED
      BY <2>3 DEF g
<1> QED
    BY <1>3, <1>4, SumIsPartialSum

\* A sum of integers is an integer.
LEMMA SumInt ==
    ASSUME NEW f, NEW S, IsFiniteSet(S), \A x \in S : f[x] \in Int
    PROVE  SumFunctionOnSet(f, S) \in Int
<1> DEFINE good == {T \in SUBSET S : SumFunctionOnSet(f, T) \in Int}
<1>1. \A T \in SUBSET S : (\A R \in SUBSET T : R # T => R \in good) => T \in good
  <2> SUFFICES ASSUME NEW T \in SUBSET S, \A R \in SUBSET T : R # T => R \in good
               PROVE  SumFunctionOnSet(f, T) \in Int
      OBVIOUS
  <2>1. IsFiniteSet(T)
      BY FS_Subset
  <2>2. CASE T = {}
    <3>1. SumFunctionOnSet(f, T) = 0
        BY <2>1, <2>2, SumUnfold
    <3> QED
        BY <3>1
  <2>3. CASE T # {}
    <3>1. Pick(T) \in T
        BY <2>3, PickIn
    <3>2. SumFunctionOnSet(f, T \ {Pick(T)}) \in Int
        BY <3>1
    <3>3. SumFunctionOnSet(f, T) = f[Pick(T)] + SumFunctionOnSet(f, T \ {Pick(T)})
        BY <2>1, <2>3, SumUnfold
    <3> QED
        BY <3>1, <3>2, <3>3
  <2> QED
      BY <2>2, <2>3
<1> HIDE DEF good
<1>2. S \in good
    BY <1>1, SubsetInduction
<1> QED
    BY <1>2 DEF good

\* Any element may be taken out first.
LEMMA SumRemove ==
    ASSUME NEW f, NEW S, IsFiniteSet(S), \A y \in S : f[y] \in Int, NEW x \in S
    PROVE  SumFunctionOnSet(f, S) = f[x] + SumFunctionOnSet(f, S \ {x})
<1> DEFINE good == {T \in SUBSET S : \A y \in T :
                      SumFunctionOnSet(f, T) = f[y] + SumFunctionOnSet(f, T \ {y})}
<1>1. \A T \in SUBSET S : (\A R \in SUBSET T : R # T => R \in good) => T \in good
  <2> SUFFICES ASSUME NEW T \in SUBSET S, \A R \in SUBSET T : R # T => R \in good,
                      NEW y \in T
               PROVE  SumFunctionOnSet(f, T) = f[y] + SumFunctionOnSet(f, T \ {y})
      OBVIOUS
  <2> DEFINE p == Pick(T)
  <2>1. IsFiniteSet(T) /\ IsFiniteSet(T \ {y}) /\ IsFiniteSet(T \ {p})
      BY FS_Subset
  <2>2. p \in T
      BY PickIn
  <2> HIDE DEF p
  <2>3. SumFunctionOnSet(f, T) = f[p] + SumFunctionOnSet(f, T \ {p})
      BY <2>1, SumUnfold DEF p
  <2>4. CASE y = p
      BY <2>3, <2>4
  <2>5. CASE y # p
    <3>1. SumFunctionOnSet(f, T \ {p}) = f[y] + SumFunctionOnSet(f, (T \ {p}) \ {y})
        BY <2>2, <2>5
    <3>2. SumFunctionOnSet(f, T \ {y}) = f[p] + SumFunctionOnSet(f, (T \ {y}) \ {p})
        BY <2>2, <2>5
    <3>3. (T \ {p}) \ {y} = (T \ {y}) \ {p}
        OBVIOUS
    <3>4. IsFiniteSet((T \ {y}) \ {p})
        BY <2>1, FS_Subset
    <3>5. SumFunctionOnSet(f, (T \ {y}) \ {p}) \in Int
        BY <3>4, SumInt
    <3>6. f[p] \in Int /\ f[y] \in Int
        BY <2>2
    <3> DEFINE z == SumFunctionOnSet(f, (T \ {y}) \ {p})
    <3>7. /\ SumFunctionOnSet(f, T) = f[p] + (f[y] + z)
          /\ SumFunctionOnSet(f, T \ {y}) = f[p] + z
        BY <2>3, <3>1, <3>2, <3>3
    <3>8. z \in Int
        BY <3>5
    <3> HIDE DEF z
    <3> QED
        BY <3>6, <3>7, <3>8
  <2> QED
      BY <2>4, <2>5
<1> HIDE DEF good
<1>2. S \in good
    BY <1>1, SubsetInduction
<1> QED
    BY <1>2 DEF good

\* Only the values on S count.
LEMMA SumEqual ==
    ASSUME NEW f, NEW g, NEW S, IsFiniteSet(S), \A x \in S : f[x] = g[x]
    PROVE  SumFunctionOnSet(f, S) = SumFunctionOnSet(g, S)
<1> DEFINE good == {T \in SUBSET S : SumFunctionOnSet(f, T) = SumFunctionOnSet(g, T)}
<1>1. \A T \in SUBSET S : (\A R \in SUBSET T : R # T => R \in good) => T \in good
  <2> SUFFICES ASSUME NEW T \in SUBSET S, \A R \in SUBSET T : R # T => R \in good
               PROVE  SumFunctionOnSet(f, T) = SumFunctionOnSet(g, T)
      OBVIOUS
  <2>1. IsFiniteSet(T)
      BY FS_Subset
  <2>2. CASE T = {}
      BY <2>1, <2>2, SumUnfold
  <2>3. CASE T # {}
    <3>1. Pick(T) \in T
        BY <2>3, PickIn
    <3>2. SumFunctionOnSet(f, T \ {Pick(T)}) = SumFunctionOnSet(g, T \ {Pick(T)})
        BY <3>1
    <3>3. SumFunctionOnSet(f, T) = f[Pick(T)] + SumFunctionOnSet(f, T \ {Pick(T)})
        BY <2>1, <2>3, SumUnfold
    <3>4. SumFunctionOnSet(g, T) = g[Pick(T)] + SumFunctionOnSet(g, T \ {Pick(T)})
        BY <2>1, <2>3, SumUnfold
    <3> QED
        BY <3>1, <3>2, <3>3, <3>4
  <2> QED
      BY <2>2, <2>3
<1> HIDE DEF good
<1>2. S \in good
    BY <1>1, SubsetInduction
<1> QED
    BY <1>2 DEF good

\* Changing one term changes the sum by the difference.
LEMMA SumUpdate ==
    ASSUME NEW f, NEW g, NEW S, IsFiniteSet(S), NEW x \in S,
           \A y \in S : f[y] \in Int /\ g[y] \in Int,
           \A y \in S \ {x} : g[y] = f[y]
    PROVE  SumFunctionOnSet(g, S) = SumFunctionOnSet(f, S) - f[x] + g[x]
<1> DEFINE rest == SumFunctionOnSet(f, S \ {x})
<1>1. IsFiniteSet(S \ {x})
    BY FS_Subset
<1>2. SumFunctionOnSet(g, S \ {x}) = rest
    BY <1>1, SumEqual
<1>3. SumFunctionOnSet(f, S) = f[x] + rest
    BY SumRemove
<1>4. SumFunctionOnSet(g, S) = g[x] + SumFunctionOnSet(g, S \ {x})
    BY SumRemove
<1>5. rest \in Int
    BY <1>1, SumInt
<1> HIDE DEF rest
<1> QED
    BY <1>2, <1>3, <1>4, <1>5

\* A sum of zeros.
LEMMA SumZero ==
    ASSUME NEW f, NEW S, IsFiniteSet(S), \A x \in S : f[x] = 0
    PROVE  SumFunctionOnSet(f, S) = 0
<1> DEFINE good == {T \in SUBSET S : SumFunctionOnSet(f, T) = 0}
<1>1. \A T \in SUBSET S : (\A R \in SUBSET T : R # T => R \in good) => T \in good
  <2> SUFFICES ASSUME NEW T \in SUBSET S, \A R \in SUBSET T : R # T => R \in good
               PROVE  SumFunctionOnSet(f, T) = 0
      OBVIOUS
  <2>1. IsFiniteSet(T)
      BY FS_Subset
  <2>2. CASE T = {}
      BY <2>1, <2>2, SumUnfold
  <2>3. CASE T # {}
    <3>1. Pick(T) \in T
        BY <2>3, PickIn
    <3>2. SumFunctionOnSet(f, T \ {Pick(T)}) = 0
        BY <3>1
    <3>3. SumFunctionOnSet(f, T) = f[Pick(T)] + SumFunctionOnSet(f, T \ {Pick(T)})
        BY <2>1, <2>3, SumUnfold
    <3> QED
        BY <3>1, <3>2, <3>3
  <2> QED
      BY <2>2, <2>3
<1> HIDE DEF good
<1>2. S \in good
    BY <1>1, SubsetInduction
<1> QED
    BY <1>2 DEF good

\* A sum of natural numbers.
LEMMA SumNat ==
    ASSUME NEW f, NEW S, IsFiniteSet(S), \A x \in S : f[x] \in Nat
    PROVE  SumFunctionOnSet(f, S) \in Nat
<1> DEFINE good == {T \in SUBSET S : SumFunctionOnSet(f, T) \in Nat}
<1>1. \A T \in SUBSET S : (\A R \in SUBSET T : R # T => R \in good) => T \in good
  <2> SUFFICES ASSUME NEW T \in SUBSET S, \A R \in SUBSET T : R # T => R \in good
               PROVE  SumFunctionOnSet(f, T) \in Nat
      OBVIOUS
  <2>1. IsFiniteSet(T)
      BY FS_Subset
  <2>2. CASE T = {}
    <3>1. SumFunctionOnSet(f, T) = 0
        BY <2>1, <2>2, SumUnfold
    <3> QED
        BY <3>1
  <2>3. CASE T # {}
    <3>1. Pick(T) \in T
        BY <2>3, PickIn
    <3>2. SumFunctionOnSet(f, T \ {Pick(T)}) \in Nat
        BY <3>1
    <3>3. SumFunctionOnSet(f, T) = f[Pick(T)] + SumFunctionOnSet(f, T \ {Pick(T)})
        BY <2>1, <2>3, SumUnfold
    <3> QED
        BY <3>1, <3>2, <3>3
  <2> QED
      BY <2>2, <2>3
<1> HIDE DEF good
<1>2. S \in good
    BY <1>1, SubsetInduction
<1> QED
    BY <1>2 DEF good

\* Sums add up term by term.
LEMMA SumPlus ==
    ASSUME NEW f, NEW g, NEW h, NEW S, IsFiniteSet(S),
           \A x \in S : f[x] \in Int /\ g[x] \in Int /\ h[x] = f[x] + g[x]
    PROVE  SumFunctionOnSet(h, S) = SumFunctionOnSet(f, S) + SumFunctionOnSet(g, S)
<1> DEFINE good == {T \in SUBSET S : SumFunctionOnSet(h, T)
                      = SumFunctionOnSet(f, T) + SumFunctionOnSet(g, T)}
<1>1. \A T \in SUBSET S : (\A R \in SUBSET T : R # T => R \in good) => T \in good
  <2> SUFFICES ASSUME NEW T \in SUBSET S, \A R \in SUBSET T : R # T => R \in good
               PROVE  SumFunctionOnSet(h, T)
                        = SumFunctionOnSet(f, T) + SumFunctionOnSet(g, T)
      OBVIOUS
  <2>1. IsFiniteSet(T)
      BY FS_Subset
  <2>2. CASE T = {}
    <3>1. SumFunctionOnSet(f, T) = 0
        BY <2>1, <2>2, SumUnfold
    <3>2. SumFunctionOnSet(g, T) = 0
        BY <2>1, <2>2, SumUnfold
    <3>3. SumFunctionOnSet(h, T) = 0
        BY <2>1, <2>2, SumUnfold
    <3> QED
        BY <3>1, <3>2, <3>3
  <2>3. CASE T # {}
    <3> DEFINE p == Pick(T)
               R == T \ {p}
               a == SumFunctionOnSet(f, R)
               b == SumFunctionOnSet(g, R)
    <3>1. p \in T
        BY <2>3, PickIn
    <3>2. IsFiniteSet(R)
        BY <2>1, FS_Subset
    <3>3. SumFunctionOnSet(h, R) = a + b
        BY <3>1
    <3>4. SumFunctionOnSet(f, T) = f[p] + a
        BY <2>1, <2>3, SumUnfold
    <3>5. SumFunctionOnSet(g, T) = g[p] + b
        BY <2>1, <2>3, SumUnfold
    <3>6. SumFunctionOnSet(h, T) = h[p] + SumFunctionOnSet(h, R)
        BY <2>1, <2>3, SumUnfold
    <3>7. a \in Int
        BY <3>2, SumInt
    <3>8. b \in Int
        BY <3>2, SumInt
    <3> HIDE DEF p, R, a, b
    <3>9. f[p] \in Int /\ g[p] \in Int /\ h[p] = f[p] + g[p]
        BY <3>1
    <3> QED
        BY <3>3, <3>4, <3>5, <3>6, <3>7, <3>8, <3>9
  <2> QED
      BY <2>2, <2>3
<1> HIDE DEF good
<1>2. S \in good
    BY <1>1, SubsetInduction
<1> QED
    BY <1>2 DEF good

\* One term of a sum of natural numbers is at most the sum.
LEMMA SumAtLeast ==
    ASSUME NEW f, NEW S, IsFiniteSet(S), \A y \in S : f[y] \in Nat, NEW x \in S
    PROVE  f[x] <= SumFunctionOnSet(f, S)
<1> DEFINE rest == SumFunctionOnSet(f, S \ {x})
<1>1. IsFiniteSet(S \ {x})
    BY FS_Subset
<1>2. rest \in Nat
    BY <1>1, SumNat
<1>3. SumFunctionOnSet(f, S) = f[x] + rest
    BY SumRemove
<1> HIDE DEF rest
<1> QED
    BY <1>2, <1>3

\* A sum of natural numbers that is zero has no other terms.
LEMMA SumIsZero ==
    ASSUME NEW f, NEW S, IsFiniteSet(S), \A y \in S : f[y] \in Nat,
           SumFunctionOnSet(f, S) = 0
    PROVE  \A x \in S : f[x] = 0
BY SumAtLeast

-----------------------------------------------------------------------------
(* Minima.                                                                  *)

\* A nonempty set of natural numbers has a least element.
LEMMA MinInNat ==
    ASSUME NEW S, S \subseteq Nat, S # {}
    PROVE  /\ Min(S) \in S
           /\ \A x \in S : Min(S) <= x
<1> DEFINE Less == OpToRel(<, Nat)
<1>1. IsWellFoundedOn(Less, Nat)
    BY NatLessThanWellFounded
<1>2. \A y, m \in Nat : y < m => <<y, m>> \in Less
  <2> TAKE y, m \in Nat
  <2>1. <<y, m>> \in Nat \X Nat
      OBVIOUS
  <2> QED
      BY <2>1 DEF OpToRel
<1> HIDE DEF Less
<1>3. PICK m \in S : \A y \in S : ~ (<<y, m>> \in Less)
    BY <1>1, WFMin
<1>4. \A y \in S : m <= y
  <2> TAKE y \in S
  <2>1. m \in Nat /\ y \in Nat
      OBVIOUS
  <2>2. ~ (y < m)
      BY <1>2, <1>3, <2>1
  <2> QED
      BY <2>1, <2>2
<1> QED
    BY <1>4 DEF Min

\* A finite set has an element of which a number is greatest.
LEMMA Greatest ==
  ASSUME NEW f, NEW S, IsFiniteSet(S), S # {}, \A x \in S : f[x] \in Int
  PROVE  \E x \in S : \A y \in S : f[x] >= f[y]
<1> DEFINE good == {T \in SUBSET S : T = {} \/ \E x \in T : \A y \in T : f[x] >= f[y]}
<1>1. \A T \in SUBSET S : (\A R \in SUBSET T : R # T => R \in good) => T \in good
  <2> SUFFICES ASSUME NEW T \in SUBSET S, \A R \in SUBSET T : R # T => R \in good, T # {}
               PROVE  \E x \in T : \A y \in T : f[x] >= f[y]
    OBVIOUS
  <2>1. PICK t \in T : TRUE
    OBVIOUS
  <2>2. CASE T = {t}
    <3>1. f[t] \in Int /\ f[t] >= f[t]
      BY <2>1
    <3> QED
      BY <2>2, <3>1
  <2>3. CASE T # {t}
    <3>1. T \ {t} \in good /\ T \ {t} # {}
      BY <2>1, <2>3
    <3>2. PICK x \in T \ {t} : \A y \in T \ {t} : f[x] >= f[y]
      BY <3>1
    <3>3. f[x] \in Int /\ f[t] \in Int /\ \A y \in T : f[y] \in Int
      BY <2>1, <3>2
    <3>4. CASE f[x] >= f[t]
      BY <3>2, <3>4
    <3>5. CASE f[t] >= f[x]
      <4>1. \A y \in T \ {t} : f[t] >= f[y]
        BY <3>2, <3>3, <3>5
      <4>2. f[t] >= f[t]
        BY <3>3
      <4> QED
        BY <2>1, <4>1, <4>2
    <3> QED
      BY <3>3, <3>4, <3>5
  <2> QED
    BY <2>2, <2>3
<1>2. S \in good
  <2> HIDE DEF good
  <2> QED
    BY <1>1, SubsetInduction
<1> QED
  BY <1>2

\* A sum of equal numbers.
LEMMA SumSame ==
  ASSUME NEW f, NEW S, IsFiniteSet(S), NEW k \in Nat, \A x \in S : f[x] = k
  PROVE  SumFunctionOnSet(f, S) = k * Cardinality(S)
<1> DEFINE good == {T \in SUBSET S : SumFunctionOnSet(f, T) = k * Cardinality(T)}
<1>1. \A T \in SUBSET S : (\A R \in SUBSET T : R # T => R \in good) => T \in good
  <2> SUFFICES ASSUME NEW T \in SUBSET S, \A R \in SUBSET T : R # T => R \in good
      PROVE  SumFunctionOnSet(f, T) = k * Cardinality(T)
    OBVIOUS
  <2>1. IsFiniteSet(T)
    BY FS_Subset
  <2>2. CASE T = {}
    <3>1. SumFunctionOnSet(f, T) = 0 /\ Cardinality(T) = 0
      BY <2>1, <2>2, SumUnfold, FS_EmptySet
    <3> QED
      BY <3>1
  <2>3. CASE T # {}
    <3>1. PICK x \in T : TRUE
      BY <2>3
    <3>2. T \ {x} \in good
      BY <3>1
    <3>3. SumFunctionOnSet(f, T) = f[x] + SumFunctionOnSet(f, T \ {x})
      BY <2>1, <3>1, SumRemove
    <3>4. Cardinality(T \ {x}) = Cardinality(T) - 1 /\ Cardinality(T) \in Nat
      BY <2>1, <3>1, FS_RemoveElement, FS_CardinalityType
    <3>5. SumFunctionOnSet(f, T) = k + k * (Cardinality(T) - 1)
      BY <3>1, <3>2, <3>3, <3>4
    <3> QED
      BY <3>4, <3>5
  <2> QED
    BY <2>2, <2>3
<1>2. S \in good
  <2> HIDE DEF good
  <2> QED
    BY <1>1, SubsetInduction
<1> QED
  BY <1>2
=============================================================================
