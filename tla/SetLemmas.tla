----------------------------- MODULE SetLemmas ------------------------------
(* Facts about finite sets that the proofs about Booking and Quote need: the     *)
(* least and the greatest of a finite set of integers, sums, and what parts of   *)
(* sets cost together and one by one.                                           *)
EXTENDS FiniteSetsExt, FiniteSetTheorems, TLAPS

-----------------------------------------------------------------------------
(* Induction over the subsets of a finite set, with the property as a set. *)

\* A set of subsets that has a set whenever it has all its proper subsets has them all.
LEMMA SubsetInduction ==
    ASSUME NEW S, IsFiniteSet(S), NEW good,
           \A t \in SUBSET S : (\A u \in SUBSET t : u # t => u \in good) => t \in good
    PROVE  S \in good
  <1> DEFINE bad == {t \in SUBSET S : t \notin good}
  <1> SUFFICES ASSUME bad # {} PROVE FALSE
    OBVIOUS
  <1>1. bad \subseteq FiniteSubsetsOf(S)
    BY FS_Subset DEF FiniteSubsetsOf
  <1>2. PICK t \in bad : \A u \in bad : ~(<<u, t>> \in StrictSubsetOrdering(S))
    <2> HIDE DEF bad
    <2> QED
      BY <1>1, FS_StrictSubsetOrderingWellFounded, WFMin
  <1>3. PICK u \in SUBSET t : u # t /\ u \notin good
    BY <1>2
  <1>4. u \in bad
    BY <1>2, <1>3
  <1>5. <<u, t>> \in StrictSubsetOrdering(S)
    BY <1>3, <1>2, <1>4, FS_Subset DEF StrictSubsetOrdering
  <1> QED
    BY <1>2, <1>4, <1>5

-----------------------------------------------------------------------------
(* The least and the greatest. *)

\* A finite set of integers that is not empty has a greatest.
LEMMA MaxOfFinite ==
    ASSUME NEW S, S \subseteq Int, S # {}, IsFiniteSet(S)
    PROVE  Max(S) \in S /\ \A y \in S : y <= Max(S)
  <1> DEFINE good == {t \in SUBSET S : t = {} \/ \E m \in t : \A y \in t : m >= y}
  <1>1. ASSUME NEW t \in SUBSET S, \A u \in SUBSET t : u # t => u \in good, t # {}
        PROVE  t \in good
    <2>0. PICK x \in t : TRUE
      BY <1>1
    <2>3. t \ {x} \in good
      BY <1>1
    <2>1. CASE t \ {x} = {}
      <3>1. \A y \in t : x >= y
        BY <2>1
      <3> QED
        BY <3>1
    <2>2. CASE t \ {x} # {}
      <3>1. PICK m \in t \ {x} : \A y \in t \ {x} : m >= y
        BY <2>3, <2>2
      <3>2. m \in Int /\ x \in Int
        BY <3>1
      <3>3. CASE m >= x
        BY <3>1, <3>3
      <3>4. CASE x >= m
        <4>1. \A y \in t : x >= y
          BY <3>1, <3>2, <3>4
        <4> QED
          BY <4>1
      <3> QED
        BY <3>2, <3>3, <3>4
    <2> QED
      BY <2>1, <2>2
  <1>2. \A t \in SUBSET S : (\A u \in SUBSET t : u # t => u \in good) => t \in good
    BY <1>1
  <1>3. S \in good
    <2> HIDE DEF good
    <2> QED
      BY <1>2, SubsetInduction
  <1>4. PICK m \in S : \A y \in S : m >= y
    BY <1>3
  <1>5. /\ Max(S) \in S
        /\ \A y \in S : Max(S) >= y
    BY <1>4 DEF Max
  <1> QED
    BY <1>5

\* And a least.
LEMMA MinOfFinite ==
    ASSUME NEW S, S \subseteq Int, S # {}, IsFiniteSet(S)
    PROVE  Min(S) \in S /\ \A y \in S : Min(S) <= y
  <1> DEFINE good == {t \in SUBSET S : t = {} \/ \E m \in t : \A y \in t : m <= y}
  <1>1. ASSUME NEW t \in SUBSET S, \A u \in SUBSET t : u # t => u \in good, t # {}
        PROVE  t \in good
    <2>0. PICK x \in t : TRUE
      BY <1>1
    <2>3. t \ {x} \in good
      BY <1>1
    <2>1. CASE t \ {x} = {}
      <3>1. \A y \in t : x <= y
        BY <2>1
      <3> QED
        BY <3>1
    <2>2. CASE t \ {x} # {}
      <3>1. PICK m \in t \ {x} : \A y \in t \ {x} : m <= y
        BY <2>3, <2>2
      <3>2. m \in Int /\ x \in Int
        BY <3>1
      <3>3. CASE m <= x
        BY <3>1, <3>3
      <3>4. CASE x <= m
        <4>1. \A y \in t : x <= y
          BY <3>1, <3>2, <3>4
        <4> QED
          BY <4>1
      <3> QED
        BY <3>2, <3>3, <3>4
    <2> QED
      BY <2>1, <2>2
  <1>2. \A t \in SUBSET S : (\A u \in SUBSET t : u # t => u \in good) => t \in good
    BY <1>1
  <1>3. S \in good
    <2> HIDE DEF good
    <2> QED
      BY <1>2, SubsetInduction
  <1>4. PICK m \in S : \A y \in S : m <= y
    BY <1>3
  <1>5. /\ Min(S) \in S
        /\ \A y \in S : Min(S) <= y
    BY <1>4 DEF Min
  <1> QED
    BY <1>5
\* A set of numbers that has 0, and with a number the next one, has them all.
LEMMA NumberInduction ==
    ASSUME NEW good, 0 \in good, \A n \in Nat : n \in good => n + 1 \in good
    PROVE  Nat \subseteq good
  <1> SUFFICES ASSUME NEW n \in Nat, n \notin good PROVE FALSE
    OBVIOUS
  <1> DEFINE bad == (0..n) \ good
  <1>1. bad \subseteq Int /\ bad # {} /\ IsFiniteSet(bad)
    <2>1. IsFiniteSet(0..n)
      BY FS_Interval
    <2>2. IsFiniteSet(bad)
      BY <2>1, FS_Difference
    <2> QED
      BY <2>2
  <1>2. PICK m \in bad : \A y \in bad : m <= y
    <2> HIDE DEF bad
    <2> QED
      BY <1>1, MinOfFinite
  <1>3. m \in Nat /\ m # 0 /\ m <= n
    BY <1>2
  <1>4. m - 1 \in 0..n
    BY <1>3
  <1>5. m - 1 \in good
    BY <1>2, <1>3, <1>4
  <1> QED
    BY <1>2, <1>3, <1>5

-----------------------------------------------------------------------------
(* Sums: SumFunctionOnSet takes the elements away one by one. *)

Taken(s) == CHOOSE x \in s : TRUE
SumStep(g, f, s) == IF s = {} THEN 0 ELSE f[Taken(s)] + g[s \ {Taken(s)}]
\* g gives every subset of S the sum of f over it.
Sums(g, f, S) == g = [s \in SUBSET S |-> SumStep(g, f, s)]

\* A sum is what a function that adds element by element says of the set.
LEMMA SumByChoice ==
    ASSUME NEW f, NEW S
    PROVE  SumFunctionOnSet(f, S) = (CHOOSE g : Sums(g, f, S))[S]
  BY DEF SumFunctionOnSet, FoldFunctionOnSet, MapThenFoldSet, Sums, SumStep, Taken

\* The element that is taken first is an element.
LEMMA TakenOne ==
    ASSUME NEW s, s # {}
    PROVE  Taken(s) \in s
  BY DEF Taken

\* Without it, a set is smaller by one.
LEMMA SmallerByOne ==
    ASSUME NEW S, IsFiniteSet(S), NEW s \in SUBSET S, s # {}
    PROVE  /\ s \ {Taken(s)} \in SUBSET S
           /\ Cardinality(s) \in Nat /\ Cardinality(s \ {Taken(s)}) = Cardinality(s) - 1
           /\ IsFiniteSet(s)
  BY TakenOne, FS_Subset, FS_CardinalityType, FS_RemoveElement

\* Sums of at most n elements can be written down, for every n.
LEMMA SumsExist ==
    ASSUME NEW f, NEW S, IsFiniteSet(S)
    PROVE  \E g : Sums(g, f, S)
  <1> DEFINE UpTo(g, n) == \A s \in SUBSET S : Cardinality(s) <= n => g[s] = SumStep(g, f, s)
             good == {n \in Nat : \E g : UpTo(g, n)}
  <1>1. 0 \in good
    <2> DEFINE g == [s \in SUBSET S |-> 0]
    <2>1. UpTo(g, 0)
      <3> SUFFICES ASSUME NEW s \in SUBSET S, Cardinality(s) <= 0
                   PROVE  g[s] = SumStep(g, f, s)
        OBVIOUS
      <3>1. s = {}
        BY SmallerByOne, FS_Subset, FS_CardinalityType, FS_EmptySet
      <3> QED
        BY <3>1 DEF SumStep
    <2> QED
      BY <2>1
  <1>2. ASSUME NEW n \in Nat, n \in good
        PROVE  n + 1 \in good
    <2>1. PICK g : UpTo(g, n)
      BY <1>2
    <2> DEFINE h == [s \in SUBSET S |-> SumStep(g, f, s)]
    <2>2. ASSUME NEW s \in SUBSET S, Cardinality(s) <= n + 1
          PROVE  h[s] = SumStep(h, f, s)
      <3>1. CASE s = {}
        BY <3>1 DEF SumStep
      <3>2. CASE s # {}
        <4> DEFINE r == s \ {Taken(s)}
        <4>1. r \in SUBSET S /\ Cardinality(r) <= n
          BY <3>2, <2>2, SmallerByOne
        <4>2. h[r] = g[r]
          BY <4>1, <2>1
        <4> QED
          BY <3>2, <4>2 DEF SumStep
      <3> QED
        BY <3>1, <3>2
    <2>3. UpTo(h, n + 1)
      BY <2>2
    <2>4. \E k : UpTo(k, n + 1)
      <3> HIDE DEF h, UpTo
      <3> QED
        BY <2>3
    <2> QED
      BY <2>4
  <1>3. Cardinality(S) \in good
    <2> HIDE DEF good
    <2> QED
      BY <1>1, <1>2, NumberInduction, FS_CardinalityType
  <1>4. PICK g : UpTo(g, Cardinality(S))
    BY <1>3
  <1>5. \A s \in SUBSET S : g[s] = SumStep(g, f, s)
    BY <1>4, FS_Subset
  <1> DEFINE h == [s \in SUBSET S |-> g[s]]
  <1>6. ASSUME NEW s \in SUBSET S
        PROVE  h[s] = SumStep(h, f, s)
    <2>1. s # {} => s \ {Taken(s)} \in SUBSET S
      OBVIOUS
    <2>2. SumStep(h, f, s) = SumStep(g, f, s)
      BY <2>1 DEF SumStep
    <2> QED
      BY <1>5, <2>2
  <1>7. h = [s \in SUBSET S |-> SumStep(h, f, s)]
    BY <1>6
  <1> QED
    BY <1>7 DEF Sums

\* Such a function says the sum of every subset.
LEMMA SumsOfSubsets ==
    ASSUME NEW f, NEW S, IsFiniteSet(S), NEW g, Sums(g, f, S)
    PROVE  \A s \in SUBSET S : g[s] = SumStep(g, f, s)
  BY DEF Sums

\* Two sums of the same function agree wherever both are defined.
LEMMA SumsAgree ==
    ASSUME NEW f, NEW S, IsFiniteSet(S), NEW T, T \subseteq S,
           NEW g, Sums(g, f, S), NEW h, Sums(h, f, T)
    PROVE  g[T] = h[T]
  <1> DEFINE good == {t \in SUBSET T : g[t] = h[t]}
             fewer == {n \in Nat : \A t \in SUBSET T : Cardinality(t) <= n => g[t] = h[t]}
  <1>1. IsFiniteSet(T)
    BY FS_Subset
  <1>2. \A t \in SUBSET T : g[t] = SumStep(g, f, t) /\ h[t] = SumStep(h, f, t)
    BY <1>1, SumsOfSubsets
  <1>3. 0 \in fewer
    <2>1. \A t \in SUBSET T : Cardinality(t) <= 0 => t = {}
      BY <1>1, FS_Subset, FS_CardinalityType, FS_EmptySet
    <2> QED
      BY <2>1, <1>2 DEF SumStep
  <1>4. ASSUME NEW n \in Nat, n \in fewer
        PROVE  n + 1 \in fewer
    <2> SUFFICES ASSUME NEW t \in SUBSET T, Cardinality(t) <= n + 1
                 PROVE  g[t] = h[t]
      OBVIOUS
    <2>1. CASE t = {}
      BY <2>1, <1>2 DEF SumStep
    <2>2. CASE t # {}
      <3> DEFINE r == t \ {Taken(t)}
      <3>1. r \in SUBSET T /\ Cardinality(r) <= n
        BY <2>2, <1>1, SmallerByOne
      <3>2. g[r] = h[r]
        BY <3>1, <1>4
      <3> QED
        BY <1>2, <2>2, <3>2 DEF SumStep
    <2> QED
      BY <2>1, <2>2
  <1>5. Cardinality(T) \in fewer
    <2> HIDE DEF fewer
    <2> QED
      BY <1>1, <1>3, <1>4, NumberInduction, FS_CardinalityType
  <1> QED
    BY <1>5, <1>1, FS_CardinalityType

\* The sum over a subset is what the sum over the whole set gives it.
LEMMA SumIs ==
    ASSUME NEW f, NEW S, IsFiniteSet(S), NEW g, Sums(g, f, S), NEW T \in SUBSET S
    PROVE  SumFunctionOnSet(f, T) = g[T]
  <1>1. PICK h : h = CHOOSE k : Sums(k, f, T)
    OBVIOUS
  <1>2. Sums(h, f, T)
    BY <1>1, SumsExist, FS_Subset
  <1>3. g[T] = h[T]
    BY <1>2, SumsAgree
  <1> QED
    BY <1>1, <1>3, SumByChoice

\* The sum of nothing is 0.
LEMMA SumEmpty ==
    ASSUME NEW f
    PROVE  SumFunctionOnSet(f, {}) = 0
  <1>1. PICK g : Sums(g, f, {})
    BY SumsExist, FS_EmptySet
  <1>2. g[{}] = 0
    BY <1>1 DEF Sums, SumStep
  <1> QED
    BY <1>1, <1>2, SumIs, FS_EmptySet

\* A sum is its first element and the rest.
LEMMA SumFirst ==
    ASSUME NEW f, NEW S, IsFiniteSet(S), S # {}
    PROVE  SumFunctionOnSet(f, S) = f[Taken(S)] + SumFunctionOnSet(f, S \ {Taken(S)})
  <1>1. PICK g : Sums(g, f, S)
    BY SumsExist
  <1>2. SumFunctionOnSet(f, S) = g[S]
    BY <1>1, SumIs
  <1>3. SumFunctionOnSet(f, S \ {Taken(S)}) = g[S \ {Taken(S)}]
    BY <1>1, SumIs
  <1>4. g[S] = SumStep(g, f, S)
    BY <1>1, SumsOfSubsets
  <1> QED
    BY <1>2, <1>3, <1>4 DEF SumStep

\* Any element may be taken first.
LEMMA SumTake ==
    ASSUME NEW f, NEW S, IsFiniteSet(S), \A x \in S : f[x] \in Int
    PROVE  /\ SumFunctionOnSet(f, S) \in Int
           /\ \A x \in S : SumFunctionOnSet(f, S) = f[x] + SumFunctionOnSet(f, S \ {x})
  <1> DEFINE Sum(t) == SumFunctionOnSet(f, t)
             good == {t \in SUBSET S : Sum(t) \in Int /\ \A x \in t : Sum(t) = f[x] + Sum(t \ {x})}
  <1>1. ASSUME NEW t \in SUBSET S, \A u \in SUBSET t : u # t => u \in good, t # {}
        PROVE  t \in good
    <2> DEFINE a == Taken(t)
    <2>1. a \in t /\ IsFiniteSet(t) /\ f[a] \in Int
      BY <1>1, TakenOne, FS_Subset
    <2>2. Sum(t) = f[a] + Sum(t \ {a})
      BY <1>1, <2>1, SumFirst
    <2> HIDE DEF a
    <2>3. Sum(t \ {a}) \in Int
      BY <1>1, <2>1
    <2>4. Sum(t) \in Int
      BY <2>1, <2>2, <2>3
    <2>5. ASSUME NEW x \in t, x # a
          PROVE  Sum(t) = f[x] + Sum(t \ {x})
      <3> DEFINE r == (t \ {a}) \ {x}
      <3>1. r = (t \ {x}) \ {a}
        OBVIOUS
      <3>2. Sum(t \ {a}) = f[x] + Sum(r)
        BY <1>1, <2>1, <2>5
      <3>3. Sum(t \ {x}) = f[a] + Sum(r)
        BY <1>1, <2>1, <2>5, <3>1
      <3>4. Sum(r) \in Int
        BY <1>1, <2>1
      <3>5. f[x] \in Int
        OBVIOUS
      <3> HIDE DEF r, Sum
      <3> QED
        BY <2>1, <2>2, <3>2, <3>3, <3>4, <3>5
    <2> QED
      BY <2>2, <2>4, <2>5
  <1>2. {} \in good
    BY SumEmpty
  <1>3. \A t \in SUBSET S : (\A u \in SUBSET t : u # t => u \in good) => t \in good
    BY <1>1, <1>2
  <1>4. S \in good
    <2> HIDE DEF good
    <2> QED
      BY <1>3, SubsetInduction
  <1> QED
    BY <1>4

\* The sum of natural numbers is one.
LEMMA SumOfNats ==
    ASSUME NEW f, NEW S, IsFiniteSet(S), \A x \in S : f[x] \in Nat
    PROVE  SumFunctionOnSet(f, S) \in Nat
  <1> DEFINE good == {t \in SUBSET S : SumFunctionOnSet(f, t) \in Nat}
  <1>1. ASSUME NEW t \in SUBSET S, \A u \in SUBSET t : u # t => u \in good
        PROVE  t \in good
    <2>1. CASE t = {}
      BY <2>1, SumEmpty
    <2>2. CASE t # {}
      <3>1. PICK x \in t : TRUE
        BY <2>2
      <3>2. IsFiniteSet(t) /\ \A y \in t : f[y] \in Int
        BY FS_Subset
      <3>3. SumFunctionOnSet(f, t) = f[x] + SumFunctionOnSet(f, t \ {x})
        BY <3>1, <3>2, SumTake
      <3>4. SumFunctionOnSet(f, t \ {x}) \in Nat /\ f[x] \in Nat
        BY <1>1, <3>1
      <3> QED
        BY <3>3, <3>4
    <2> QED
      BY <2>1, <2>2
  <1>2. \A t \in SUBSET S : (\A u \in SUBSET t : u # t => u \in good) => t \in good
    BY <1>1
  <1>3. S \in good
    <2> HIDE DEF good
    <2> QED
      BY <1>2, SubsetInduction
  <1> QED
    BY <1>3

\* Equal summands.
LEMMA SumOfEquals ==
    ASSUME NEW f, NEW S, IsFiniteSet(S), NEW c \in Nat, \A x \in S : f[x] = c
    PROVE  SumFunctionOnSet(f, S) = c * Cardinality(S)
  <1> DEFINE good == {t \in SUBSET S : SumFunctionOnSet(f, t) = c * Cardinality(t)}
  <1>1. ASSUME NEW t \in SUBSET S, \A u \in SUBSET t : u # t => u \in good
        PROVE  t \in good
    <2>1. CASE t = {}
      BY <2>1, SumEmpty, FS_EmptySet
    <2>2. CASE t # {}
      <3>1. PICK x \in t : TRUE
        BY <2>2
      <3>2. IsFiniteSet(t) /\ \A y \in t : f[y] \in Int
        BY FS_Subset
      <3>3. SumFunctionOnSet(f, t) = c + SumFunctionOnSet(f, t \ {x})
        BY <3>1, <3>2, SumTake
      <3>4. SumFunctionOnSet(f, t \ {x}) = c * Cardinality(t \ {x})
        BY <1>1, <3>1
      <3>5. /\ Cardinality(t) \in Nat /\ Cardinality(t \ {x}) \in Nat
            /\ Cardinality(t) = Cardinality(t \ {x}) + 1
        <4>1. IsFiniteSet(t \ {x}) /\ Cardinality(t \ {x}) = Cardinality(t) - 1
          BY <3>1, <3>2, FS_RemoveElement
        <4>2. Cardinality(t) \in Nat /\ Cardinality(t \ {x}) \in Nat
          BY <3>2, <4>1, FS_CardinalityType
        <4> QED
          BY <4>1, <4>2
      <3>6. ASSUME NEW n \in Nat PROVE c + c * n = c * (n + 1)
        OBVIOUS
      <3> QED
        BY <3>3, <3>4, <3>5, <3>6
    <2> QED
      BY <2>1, <2>2
  <1>2. \A t \in SUBSET S : (\A u \in SUBSET t : u # t => u \in good) => t \in good
    BY <1>1
  <1>3. S \in good
    <2> HIDE DEF good
    <2> QED
      BY <1>2, SubsetInduction
  <1> QED
    BY <1>3

\* Only the values on the set count.
LEMMA SumOfSame ==
    ASSUME NEW S, IsFiniteSet(S), NEW f, NEW g,
           \A x \in S : f[x] \in Int /\ g[x] = f[x]
    PROVE  SumFunctionOnSet(f, S) = SumFunctionOnSet(g, S)
  <1> DEFINE good == {t \in SUBSET S : SumFunctionOnSet(f, t) = SumFunctionOnSet(g, t)}
  <1>1. ASSUME NEW t \in SUBSET S, \A u \in SUBSET t : u # t => u \in good
        PROVE  t \in good
    <2>1. CASE t = {}
      BY <2>1, SumEmpty
    <2>2. CASE t # {}
      <3>1. PICK x \in t : TRUE
        BY <2>2
      <3>2. IsFiniteSet(t) /\ \A y \in t : f[y] \in Int /\ g[y] \in Int
        BY FS_Subset
      <3>3. SumFunctionOnSet(f, t) = f[x] + SumFunctionOnSet(f, t \ {x})
        BY <3>1, <3>2, SumTake
      <3>4. SumFunctionOnSet(g, t) = g[x] + SumFunctionOnSet(g, t \ {x})
        BY <3>1, <3>2, SumTake
      <3>5. SumFunctionOnSet(f, t \ {x}) = SumFunctionOnSet(g, t \ {x}) /\ f[x] = g[x]
        BY <1>1, <3>1
      <3> QED
        BY <3>3, <3>4, <3>5
    <2> QED
      BY <2>1, <2>2
  <1>2. \A t \in SUBSET S : (\A u \in SUBSET t : u # t => u \in good) => t \in good
    BY <1>1
  <1>3. S \in good
    <2> HIDE DEF good
    <2> QED
      BY <1>2, SubsetInduction
  <1> QED
    BY <1>3
-----------------------------------------------------------------------------
(* Images. *)

\* What a function makes of a finite set is finite, and as large when it tells its
\* elements apart.
LEMMA ImageOf ==
    ASSUME NEW S, IsFiniteSet(S), NEW f
    PROVE  /\ IsFiniteSet({f[x] : x \in S})
           /\ Cardinality({f[x] : x \in S}) \in Nat
           /\ Cardinality({f[x] : x \in S}) <= Cardinality(S)
           /\ (\A x, y \in S : f[x] = f[y] => x = y) => Cardinality({f[x] : x \in S}) = Cardinality(S)
  <1> DEFINE T == {f[x] : x \in S}
             g == [x \in S |-> f[x]]
  <1>1. g \in Surjection(S, T)
    BY DEF Surjection
  <1>2. IsFiniteSet(T) /\ Cardinality(T) <= Cardinality(S)
    <2> HIDE DEF g, T
    <2> QED
      BY <1>1, FS_Surjection
  <1>3. ASSUME \A x, y \in S : f[x] = f[y] => x = y
        PROVE  Cardinality(T) = Cardinality(S)
    <2>1. g \in Injection(S, T)
      BY <1>3 DEF Injection, IsInjective
    <2> HIDE DEF g, T
    <2> QED
      BY <1>1, <1>2, <2>1, FS_Injection
  <1>4. Cardinality(T) \in Nat
    BY <1>2, FS_CardinalityType
  <1> QED
    BY <1>2, <1>3, <1>4
\* A subset that misses an element is smaller by one at least.
LEMMA SmallerSubset ==
    ASSUME NEW S, IsFiniteSet(S), NEW T \in SUBSET S, NEW x \in S, x \notin T
    PROVE  /\ IsFiniteSet(T) /\ Cardinality(T) \in Nat /\ Cardinality(S) \in Nat
           /\ Cardinality(T) + 1 <= Cardinality(S)
  <1>1. T # S
    OBVIOUS
  <1>2. IsFiniteSet(T)
    BY FS_Subset
  <1>3. Cardinality(T) \in Nat /\ Cardinality(S) \in Nat
    BY <1>2, FS_CardinalityType
  <1>4. Cardinality(T) <= Cardinality(S) /\ Cardinality(T) # Cardinality(S)
    BY <1>1, FS_Subset
  <1> QED
    BY <1>2, <1>3, <1>4
-----------------------------------------------------------------------------
(* Sums of unions, and by key. *)

\* The sum over two disjoint sets is the two sums together.
LEMMA SumUnion ==
    ASSUME NEW A, NEW B, IsFiniteSet(A), IsFiniteSet(B), A \cap B = {},
           NEW f, \A x \in A \cup B : f[x] \in Int
    PROVE  SumFunctionOnSet(f, A \cup B) = SumFunctionOnSet(f, A) + SumFunctionOnSet(f, B)
  <1> DEFINE good == {t \in SUBSET B :
                        SumFunctionOnSet(f, A \cup t) = SumFunctionOnSet(f, A) + SumFunctionOnSet(f, t)}
  <1>1. ASSUME NEW t \in SUBSET B, \A u \in SUBSET t : u # t => u \in good
        PROVE  SumFunctionOnSet(f, A \cup t) = SumFunctionOnSet(f, A) + SumFunctionOnSet(f, t)
    <2>1. IsFiniteSet(t) /\ IsFiniteSet(A \cup t)
      <3>1. IsFiniteSet(t)
        BY FS_Subset
      <3> QED
        BY <3>1, FS_Union
    <2>2. SumFunctionOnSet(f, A) \in Int
      BY SumTake
    <2>3. CASE t = {}
      <3>1. A \cup t = A
        BY <2>3
      <3>2. SumFunctionOnSet(f, t) = 0
        BY <2>3, SumEmpty
      <3>3. SumFunctionOnSet(f, A \cup t) = SumFunctionOnSet(f, A)
        BY <3>1
      <3> QED
        BY <2>2, <3>2, <3>3
    <2>4. CASE t # {}
      <3>1. PICK x \in t : TRUE
        BY <2>4
      <3>2. t \ {x} \in good
        BY <1>1, <3>1
      <3>3. (A \cup t) \ {x} = A \cup (t \ {x})
        BY <3>1
      <3>4. SumFunctionOnSet(f, A \cup t) = f[x] + SumFunctionOnSet(f, (A \cup t) \ {x})
        <4>1. x \in A \cup t /\ \A y \in A \cup t : f[y] \in Int
          BY <3>1
        <4> QED
          BY <2>1, <4>1, SumTake
      <3>5. SumFunctionOnSet(f, t) = f[x] + SumFunctionOnSet(f, t \ {x})
        BY <2>1, <3>1, SumTake
      <3>6. SumFunctionOnSet(f, t \ {x}) \in Int
        <4>1. IsFiniteSet(t \ {x})
          BY <2>1, FS_Difference
        <4> QED
          BY <4>1, SumTake
      <3>7. SumFunctionOnSet(f, A \cup (t \ {x}))
            = SumFunctionOnSet(f, A) + SumFunctionOnSet(f, t \ {x})
        BY <3>2
      <3>8. f[x] \in Int
        OBVIOUS
      <3>9. SumFunctionOnSet(f, A \cup t) = f[x] + SumFunctionOnSet(f, A \cup (t \ {x}))
        BY <3>3, <3>4
      <3> HIDE DEF good
      <3> QED
        BY <2>2, <3>5, <3>6, <3>7, <3>8, <3>9
    <2> QED
      BY <2>3, <2>4
  <1>2. \A t \in SUBSET B : (\A u \in SUBSET t : u # t => u \in good) => t \in good
    BY <1>1
  <1>3. B \in good
    <2> HIDE DEF good
    <2> QED
      BY <1>2, SubsetInduction
  <1> QED
    BY <1>3

Keyed(S, key, k) == {x \in S : key[x] = k}

\* A sum is the sum, over the keys, of the sums of those with that key.
LEMMA SumByKey ==
    ASSUME NEW S, IsFiniteSet(S), NEW K, IsFiniteSet(K),
           NEW f, \A x \in S : f[x] \in Int,
           NEW key, \A x \in S : key[x] \in K,
           NEW g, \A k \in K : g[k] = SumFunctionOnSet(f, Keyed(S, key, k))
    PROVE  SumFunctionOnSet(f, S) = SumFunctionOnSet(g, K)
  <1> DEFINE of(t) == {x \in S : key[x] \in t}
             one(k) == Keyed(S, key, k)
             good == {t \in SUBSET K : SumFunctionOnSet(f, of(t)) = SumFunctionOnSet(g, t)}
  <1>0. \A k \in K : IsFiniteSet(one(k)) /\ g[k] = SumFunctionOnSet(f, one(k)) /\ g[k] \in Int
    <2> SUFFICES ASSUME NEW k \in K
                 PROVE  IsFiniteSet(one(k)) /\ g[k] = SumFunctionOnSet(f, one(k)) /\ g[k] \in Int
      OBVIOUS
    <2>1. IsFiniteSet(one(k)) /\ \A x \in one(k) : f[x] \in Int
      BY FS_Subset DEF Keyed
    <2>2. g[k] = SumFunctionOnSet(f, one(k))
      OBVIOUS
    <2> HIDE DEF one
    <2> QED
      BY <2>1, <2>2, SumTake
  <1>1. ASSUME NEW t \in SUBSET K, \A u \in SUBSET t : u # t => u \in good
        PROVE  t \in good
    <2>1. CASE t = {}
      <3>1. of(t) = {}
        BY <2>1
      <3> QED
        BY <2>1, <3>1, SumEmpty
    <2>2. CASE t # {}
      <3>1. PICK k \in t : TRUE
        BY <2>2
      <3>2. t \ {k} \in good
        BY <1>1, <3>1
      <3>3. of(t) = of(t \ {k}) \cup one(k) /\ of(t \ {k}) \cap one(k) = {}
        BY <3>1 DEF Keyed
      <3>4. IsFiniteSet(of(t \ {k})) /\ IsFiniteSet(one(k))
        BY <1>0, FS_Subset
      <3>5. \A x \in of(t \ {k}) \cup one(k) : f[x] \in Int
        BY DEF Keyed
      <3>6. SumFunctionOnSet(f, of(t)) = SumFunctionOnSet(f, of(t \ {k})) + SumFunctionOnSet(f, one(k))
        <4> HIDE DEF of, one
        <4>1. SumFunctionOnSet(f, of(t \ {k}) \cup one(k))
              = SumFunctionOnSet(f, of(t \ {k})) + SumFunctionOnSet(f, one(k))
          BY <3>3, <3>4, <3>5, SumUnion
        <4> QED
          BY <3>3, <4>1
      <3>7. SumFunctionOnSet(f, of(t \ {k})) = SumFunctionOnSet(g, t \ {k})
        BY <3>2
      <3>8. IsFiniteSet(t) /\ IsFiniteSet(t \ {k}) /\ \A l \in t : g[l] \in Int
        <4>1. IsFiniteSet(t)
          BY FS_Subset
        <4> QED
          BY <1>0, <4>1, FS_Difference
      <3>9. /\ SumFunctionOnSet(g, t) = g[k] + SumFunctionOnSet(g, t \ {k})
            /\ SumFunctionOnSet(g, t \ {k}) \in Int
        BY <3>1, <3>8, SumTake
      <3>10. g[k] = SumFunctionOnSet(f, one(k)) /\ g[k] \in Int
        BY <1>0, <3>1
      <3> HIDE DEF of, one
      <3>11. SumFunctionOnSet(f, of(t)) = SumFunctionOnSet(g, t)
        BY <3>6, <3>7, <3>9, <3>10
      <3> QED
        BY <3>11
    <2> QED
      BY <2>1, <2>2
  <1>2. \A t \in SUBSET K : (\A u \in SUBSET t : u # t => u \in good) => t \in good
    BY <1>1
  <1>3. K \in good
    <2> HIDE DEF good
    <2> QED
      BY <1>2, SubsetInduction
  <1>4. of(K) = S
    OBVIOUS
  <1> QED
    BY <1>3, <1>4

\* A sum of smaller numbers is smaller.
LEMMA SumLess ==
    ASSUME NEW S, IsFiniteSet(S), NEW f, NEW g,
           \A x \in S : f[x] \in Int /\ g[x] \in Int /\ f[x] <= g[x]
    PROVE  SumFunctionOnSet(f, S) <= SumFunctionOnSet(g, S)
  <1> DEFINE F(t) == SumFunctionOnSet(f, t)
             G(t) == SumFunctionOnSet(g, t)
             good == {t \in SUBSET S : F(t) <= G(t)}
  <1>1. ASSUME NEW t \in SUBSET S, \A u \in SUBSET t : u # t => u \in good
        PROVE  t \in good
    <2>1. CASE t = {}
      BY <2>1, SumEmpty
    <2>2. CASE t # {}
      <3>1. PICK x \in t : TRUE
        BY <2>2
      <3>2. F(t \ {x}) <= G(t \ {x})
        BY <1>1, <3>1
      <3>3. IsFiniteSet(t) /\ IsFiniteSet(t \ {x})
        <4>1. IsFiniteSet(t)
          BY FS_Subset
        <4> QED
          BY <4>1, FS_Difference
      <3>4. /\ F(t) = f[x] + F(t \ {x}) /\ F(t \ {x}) \in Int
            /\ G(t) = g[x] + G(t \ {x}) /\ G(t \ {x}) \in Int
        BY <3>1, <3>3, SumTake
      <3>5. f[x] \in Int /\ g[x] \in Int /\ f[x] <= g[x]
        OBVIOUS
      <3> HIDE DEF F, G
      <3>6. F(t) <= G(t)
        BY <3>2, <3>4, <3>5
      <3> QED
        BY <3>6
    <2> QED
      BY <2>1, <2>2
  <1>2. \A t \in SUBSET S : (\A u \in SUBSET t : u # t => u \in good) => t \in good
    BY <1>1
  <1>3. S \in good
    <2> HIDE DEF good
    <2> QED
      BY <1>2, SubsetInduction
  <1> QED
    BY <1>3

United(S, part) == UNION {part[x] : x \in S}

\* The elements of a union are at most those of its parts together, and as many when no
\* two parts have one in common.
LEMMA CountUnion ==
    ASSUME NEW S, IsFiniteSet(S), NEW part, \A x \in S : IsFiniteSet(part[x]),
           NEW n, \A x \in S : n[x] = Cardinality(part[x])
    PROVE  /\ IsFiniteSet(United(S, part))
           /\ Cardinality(United(S, part)) \in Nat
           /\ Cardinality(United(S, part)) <= SumFunctionOnSet(n, S)
           /\ (\A x, y \in S : x # y => part[x] \cap part[y] = {}) =>
                 Cardinality(United(S, part)) = SumFunctionOnSet(n, S)
  <1> DEFINE all(t) == United(t, part)
             apart == \A x, y \in S : x # y => part[x] \cap part[y] = {}
             good == {t \in SUBSET S :
                        /\ IsFiniteSet(all(t))
                        /\ Cardinality(all(t)) <= SumFunctionOnSet(n, t)
                        /\ apart => Cardinality(all(t)) = SumFunctionOnSet(n, t)}
  <1>0. \A x \in S : n[x] \in Nat
    BY FS_CardinalityType
  <1>1. ASSUME NEW t \in SUBSET S, \A u \in SUBSET t : u # t => u \in good
        PROVE  t \in good
    <2>1. CASE t = {}
      <3>1. all(t) = {}
        BY <2>1 DEF United
      <3>2. IsFiniteSet({}) /\ Cardinality({}) = 0
        BY FS_EmptySet
      <3>3. SumFunctionOnSet(n, t) = 0
        BY <2>1, SumEmpty
      <3> QED
        BY <3>1, <3>2, <3>3
    <2>2. CASE t # {}
      <3>1. PICK x \in t : TRUE
        BY <2>2
      <3>2. t \ {x} \in good
        BY <1>1, <3>1
      <3>3. all(t) = all(t \ {x}) \cup part[x]
        BY <3>1 DEF United
      <3>4. apart => all(t \ {x}) \cap part[x] = {}
        BY <3>1 DEF United
      <3>5. IsFiniteSet(t) /\ IsFiniteSet(t \ {x}) /\ IsFiniteSet(all(t \ {x})) /\ IsFiniteSet(part[x])
        <4>1. IsFiniteSet(t)
          BY FS_Subset
        <4>2. IsFiniteSet(t \ {x})
          BY <4>1, FS_Difference
        <4>3. IsFiniteSet(all(t \ {x}))
          BY <3>2
        <4> HIDE DEF all
        <4> QED
          BY <4>1, <4>2, <4>3
      <3>6. /\ SumFunctionOnSet(n, t) = n[x] + SumFunctionOnSet(n, t \ {x})
            /\ SumFunctionOnSet(n, t \ {x}) \in Int
        <4>1. \A y \in t : n[y] \in Int
          BY <1>0
        <4> QED
          BY <3>1, <3>5, <4>1, SumTake
      <3>7. n[x] = Cardinality(part[x]) /\ n[x] \in Nat
        BY <1>0, <3>1
      <3>8. /\ Cardinality(all(t \ {x})) <= SumFunctionOnSet(n, t \ {x})
            /\ apart => Cardinality(all(t \ {x})) = SumFunctionOnSet(n, t \ {x})
        BY <3>2
      <3> HIDE DEF all, apart
      <3>9. /\ IsFiniteSet(all(t))
            /\ Cardinality(all(t)) = Cardinality(all(t \ {x})) + Cardinality(part[x])
                                     - Cardinality(all(t \ {x}) \cap part[x])
        <4>1. /\ IsFiniteSet(all(t \ {x}) \cup part[x])
              /\ Cardinality(all(t \ {x}) \cup part[x])
                 = Cardinality(all(t \ {x})) + Cardinality(part[x])
                   - Cardinality(all(t \ {x}) \cap part[x])
          BY <3>5, FS_Union
        <4> QED
          BY <3>3, <4>1
      <3>10. /\ Cardinality(all(t \ {x})) \in Nat
             /\ Cardinality(all(t \ {x}) \cap part[x]) \in Nat
             /\ Cardinality({}) = 0
        <4>1. IsFiniteSet(all(t \ {x}) \cap part[x])
          BY <3>5, FS_Intersection
        <4> QED
          BY <3>5, <4>1, FS_CardinalityType, FS_EmptySet
      <3>11. Cardinality(all(t)) <= SumFunctionOnSet(n, t)
        BY <3>6, <3>7, <3>8, <3>9, <3>10
      <3>12. ASSUME apart
             PROVE  Cardinality(all(t)) = SumFunctionOnSet(n, t)
        <4>1. Cardinality(all(t \ {x}) \cap part[x]) = 0
          BY <3>4, <3>10, <3>12
        <4>2. Cardinality(all(t \ {x})) = SumFunctionOnSet(n, t \ {x})
          BY <3>8, <3>12
        <4> QED
          BY <3>6, <3>7, <3>9, <3>10, <4>1, <4>2
      <3> QED
        BY <3>9, <3>11, <3>12
    <2> QED
      BY <2>1, <2>2
  <1>2. \A t \in SUBSET S : (\A u \in SUBSET t : u # t => u \in good) => t \in good
    BY <1>1
  <1>3. S \in good
    <2> HIDE DEF good
    <2> QED
      BY <1>2, SubsetInduction
  <1>4. Cardinality(all(S)) \in Nat
    <2>1. IsFiniteSet(all(S))
      BY <1>3
    <2> HIDE DEF all
    <2> QED
      BY <2>1, FS_CardinalityType
  <1> QED
    BY <1>3, <1>4

-----------------------------------------------------------------------------
(* Amounts that are rounded up: parts cost no less than the whole.               *)

IsAmount(am) ==
    /\ \A a \in Nat : am[a] \in Nat
    /\ \A a, b \in Nat : a <= b => am[a] <= am[b]
    /\ \A a, b \in Nat : am[a + b] <= am[a] + am[b]

\* What two quantities cost together is no more than one by one.
LEMMA AmountOfTwo ==
    ASSUME NEW am, IsAmount(am), NEW a \in Nat, NEW b \in Nat
    PROVE  /\ am[a] \in Nat /\ am[b] \in Nat /\ a + b \in Nat /\ am[a + b] \in Nat
           /\ am[a + b] <= am[a] + am[b]
  <1>1. a + b \in Nat
    OBVIOUS
  <1>2. am[a] \in Nat /\ am[b] \in Nat /\ am[a + b] \in Nat
    BY <1>1 DEF IsAmount
  <1>3. am[a + b] <= am[a] + am[b]
    BY DEF IsAmount
  <1> QED
    BY <1>1, <1>2, <1>3

\* What quantities cost together is no more than one by one.
LEMMA SumOfAmounts ==
    ASSUME NEW S, IsFiniteSet(S), S # {}, NEW n, \A x \in S : n[x] \in Nat,
           NEW am, IsAmount(am),
           NEW f, \A x \in S : f[x] = am[n[x]]
    PROVE  am[SumFunctionOnSet(n, S)] <= SumFunctionOnSet(f, S)
  <1> DEFINE N(t) == SumFunctionOnSet(n, t)
             F(t) == SumFunctionOnSet(f, t)
             good == {t \in SUBSET S : t # {} => am[N(t)] <= F(t)}
  <1>0. \A x \in S : f[x] \in Nat
    BY DEF IsAmount
  <1>1. ASSUME NEW t \in SUBSET S, \A u \in SUBSET t : u # t => u \in good, t # {}
        PROVE  am[N(t)] <= F(t)
    <2>1. PICK x \in t : TRUE
      BY <1>1
    <2>2. IsFiniteSet(t) /\ IsFiniteSet(t \ {x})
      <3>1. IsFiniteSet(t)
        BY FS_Subset
      <3> QED
        BY <3>1, FS_Difference
    <2>3. N(t) = n[x] + N(t \ {x}) /\ F(t) = f[x] + F(t \ {x})
      <3>1. \A y \in t : n[y] \in Int
        OBVIOUS
      <3>2. \A y \in t : f[y] \in Int
        BY <1>0
      <3>3. SumFunctionOnSet(n, t) = n[x] + SumFunctionOnSet(n, t \ {x})
        BY <2>1, <2>2, <3>1, SumTake
      <3>4. SumFunctionOnSet(f, t) = f[x] + SumFunctionOnSet(f, t \ {x})
        BY <2>1, <2>2, <3>2, SumTake
      <3> QED
        BY <3>3, <3>4
    <2>4. N(t \ {x}) \in Nat /\ F(t \ {x}) \in Nat
      BY <1>0, <2>2, SumOfNats
    <2>5. n[x] \in Nat /\ f[x] = am[n[x]] /\ f[x] \in Nat
      BY <1>0
    <2>6. CASE t \ {x} = {}
      <3>1. N(t \ {x}) = 0 /\ F(t \ {x}) = 0
        BY <2>6, SumEmpty
      <3> HIDE DEF N, F
      <3> QED
        BY <2>3, <2>5, <3>1
    <2>7. CASE t \ {x} # {}
      <3>1. t \ {x} \in good
        BY <1>1, <2>1
      <3>2. am[N(t \ {x})] <= F(t \ {x})
        BY <2>7, <3>1
      <3> HIDE DEF N, F
      <3> DEFINE a == n[x]
                 b == N(t \ {x})
      <3>3. a \in Nat /\ b \in Nat /\ N(t) = a + b /\ am[b] <= F(t \ {x}) /\ f[x] = am[a]
        BY <2>3, <2>4, <2>5, <3>2
      <3> HIDE DEF a, b
      <3>4. am[a] \in Nat /\ am[b] \in Nat /\ am[a + b] \in Nat /\ am[a + b] <= am[a] + am[b]
        BY <3>3, AmountOfTwo
      <3> QED
        BY <2>3, <2>4, <3>3, <3>4
    <2> QED
      BY <2>6, <2>7
  <1>2. \A t \in SUBSET S : (\A u \in SUBSET t : u # t => u \in good) => t \in good
    BY <1>1
  <1>3. S \in good
    <2> HIDE DEF good
    <2> QED
      BY <1>2, SubsetInduction
  <1> QED
    BY <1>3

\* A factor that all have in common is a factor of the sum.
LEMMA SumTimes ==
    ASSUME NEW S, IsFiniteSet(S), NEW n, \A x \in S : n[x] \in Int, NEW c \in Int,
           NEW f, \A x \in S : f[x] = c * n[x]
    PROVE  SumFunctionOnSet(f, S) = c * SumFunctionOnSet(n, S)
  <1> DEFINE N(t) == SumFunctionOnSet(n, t)
             F(t) == SumFunctionOnSet(f, t)
             good == {t \in SUBSET S : F(t) = c * N(t)}
  <1>0. \A x \in S : f[x] \in Int
    OBVIOUS
  <1>1. ASSUME NEW t \in SUBSET S, \A u \in SUBSET t : u # t => u \in good
        PROVE  F(t) = c * N(t)
    <2>1. CASE t = {}
      <3>1. N(t) = 0 /\ F(t) = 0
        BY <2>1, SumEmpty
      <3> HIDE DEF N, F
      <3> QED
        BY <3>1
    <2>2. CASE t # {}
      <3>1. PICK x \in t : TRUE
        BY <2>2
      <3>2. IsFiniteSet(t) /\ IsFiniteSet(t \ {x})
        <4>1. IsFiniteSet(t)
          BY FS_Subset
        <4> QED
          BY <4>1, FS_Difference
      <3>3. N(t) = n[x] + N(t \ {x}) /\ F(t) = f[x] + F(t \ {x})
        <4>1. \A y \in t : n[y] \in Int /\ f[y] \in Int
          BY <1>0
        <4> QED
          BY <3>1, <3>2, <4>1, SumTake
      <3>4. N(t \ {x}) \in Int
        BY <3>2, SumTake
      <3>5. F(t \ {x}) = c * N(t \ {x})
        BY <1>1, <3>1
      <3>6. n[x] \in Int /\ f[x] = c * n[x]
        OBVIOUS
      <3> HIDE DEF N, F
      <3>7. c * (n[x] + N(t \ {x})) = c * n[x] + c * N(t \ {x})
        BY <3>4, <3>6
      <3> QED
        BY <3>3, <3>5, <3>6, <3>7
    <2> QED
      BY <2>1, <2>2
  <1>2. \A t \in SUBSET S : (\A u \in SUBSET t : u # t => u \in good) => t \in good
    BY <1>1
  <1>3. S \in good
    <2> HIDE DEF good
    <2> QED
      BY <1>2, SubsetInduction
  <1> QED
    BY <1>3

\* A sum may be taken over what a function that tells the elements apart makes of them.
IsMove(S, f, move, T, g) ==
    /\ IsFiniteSet(S) /\ \A x, y \in S : move[x] = move[y] => x = y
    /\ T = {move[x] : x \in S}
    /\ \A x \in S : f[x] \in Int /\ g[move[x]] = f[x]

\* A sum does not change when its elements are named otherwise.
LEMMA SumMoved ==
    ASSUME NEW S, NEW f, NEW move, NEW T, NEW g, IsMove(S, f, move, T, g)
    PROVE  SumFunctionOnSet(f, S) = SumFunctionOnSet(g, T)
  <1> USE DEF IsMove
  <1>1. IsFiniteSet(T)
    BY ImageOf
  <1>2. ASSUME NEW k \in T
        PROVE  g[k] = SumFunctionOnSet(f, Keyed(S, move, k))
    <2>1. PICK x \in S : k = move[x]
      OBVIOUS
    <2>2. Keyed(S, move, k) = {x}
      BY <2>1 DEF Keyed
    <2>3. SumFunctionOnSet(f, {x}) = f[x]
      <3>1. IsFiniteSet({x}) /\ \A y \in {x} : f[y] \in Int
        BY FS_Singleton
      <3>2. SumFunctionOnSet(f, {x}) = f[x] + SumFunctionOnSet(f, {x} \ {x})
        BY <3>1, SumTake
      <3>3. {x} \ {x} = {}
        OBVIOUS
      <3>4. SumFunctionOnSet(f, {x} \ {x}) = 0
        BY <3>3, SumEmpty
      <3>5. f[x] \in Int
        OBVIOUS
      <3> QED
        BY <3>2, <3>4, <3>5
    <2>4. g[k] = f[x]
      BY <2>1
    <2> QED
      BY <2>2, <2>3, <2>4
  <1>3. \A x \in S : move[x] \in T
    OBVIOUS
  <1> QED
    BY <1>1, <1>2, <1>3, SumByKey

Pairs(I, of) == {x \in I \X United(I, of) : x[2] \in of[x[1]]}

\* A sum of sums is a sum over pairs.
LEMMA SumOfSums ==
    ASSUME NEW I, IsFiniteSet(I), NEW of, \A i \in I : IsFiniteSet(of[i]),
           NEW cost, \A i \in I : \A p \in of[i] : cost[i][p] \in Int,
           NEW f, \A x \in Pairs(I, of) : f[x] = cost[x[1]][x[2]],
           NEW g, \A i \in I : g[i] = SumFunctionOnSet(cost[i], of[i])
    PROVE  /\ IsFiniteSet(Pairs(I, of))
           /\ SumFunctionOnSet(f, Pairs(I, of)) = SumFunctionOnSet(g, I)
  <1> DEFINE X == Pairs(I, of)
             key == [x \in X |-> x[1]]
  <1>1. IsFiniteSet(X)
    <2> DEFINE n == [i \in I |-> Cardinality(of[i])]
    <2>1. \A i \in I : n[i] = Cardinality(of[i])
      OBVIOUS
    <2>2. IsFiniteSet(United(I, of))
      <3> HIDE DEF n
      <3> QED
        BY <2>1, CountUnion
    <2>3. IsFiniteSet(I \X United(I, of))
      BY <2>2, FS_Product
    <2> QED
      BY <2>3, FS_Subset DEF Pairs
  <1>2. ASSUME NEW i \in I, NEW p \in of[i]
        PROVE  <<i, p>> \in X /\ f[<<i, p>>] = cost[i][p] /\ cost[i][p] \in Int
    <2>1. <<i, p>> \in X
      BY DEF Pairs, United
    <2>2. f[<<i, p>>] = cost[<<i, p>>[1]][<<i, p>>[2]]
      BY <2>1
    <2> QED
      BY <2>1, <2>2
  <1>3. \A x \in X : x[1] \in I /\ x[2] \in of[x[1]] /\ x = <<x[1], x[2]>>
    BY DEF Pairs
  <1>4. \A x \in X : f[x] \in Int /\ key[x] \in I
    <2> SUFFICES ASSUME NEW x \in X PROVE f[x] \in Int /\ key[x] \in I
      OBVIOUS
    <2>1. x[1] \in I /\ x[2] \in of[x[1]] /\ f[x] = cost[x[1]][x[2]]
      BY <1>3
    <2>2. cost[x[1]][x[2]] \in Int
      BY <2>1
    <2> QED
      BY <2>1, <2>2
  <1>5. ASSUME NEW i \in I
        PROVE  g[i] = SumFunctionOnSet(f, Keyed(X, key, i))
    <2> DEFINE S == of[i]
               move == [p \in S |-> <<i, p>>]
               T == Keyed(X, key, i)
    <2>1. T = {move[p] : p \in S}
      <3>1. ASSUME NEW x \in T PROVE x \in {move[p] : p \in S}
        <4>1. x \in X /\ x[1] = i
          BY DEF Keyed
        <4>2. x[2] \in S /\ x = <<i, x[2]>>
          BY <1>3, <4>1
        <4> QED
          BY <4>2
      <3>2. ASSUME NEW p \in S PROVE move[p] \in T
        BY <1>2 DEF Keyed
      <3> QED
        BY <3>1, <3>2
    <2>2. \A p, q \in S : move[p] = move[q] => p = q
      OBVIOUS
    <2>3. \A p \in S : f[move[p]] = cost[i][p] /\ cost[i][p] \in Int
      BY <1>2
    <2>4. IsFiniteSet(S) /\ g[i] = SumFunctionOnSet(cost[i], S)
      OBVIOUS
    <2>5. SumFunctionOnSet(cost[i], S) = SumFunctionOnSet(f, T)
      <3>1. IsMove(S, cost[i], move, T, f)
        <4> HIDE DEF S, move, T
        <4> QED
          BY <2>1, <2>2, <2>3, <2>4 DEF IsMove
      <3> HIDE DEF S, move, T
      <3> QED
        BY <3>1, SumMoved
    <2> QED
      BY <2>4, <2>5
  <1>6. SumFunctionOnSet(f, X) = SumFunctionOnSet(g, I)
    <2> HIDE DEF X, key
    <2> QED
      BY <1>1, <1>4, <1>5, SumByKey
  <1> QED
    BY <1>1, <1>6

\* What is covered by parts costs at most what the parts do.
LEMMA CostOf ==
    ASSUME NEW S, IsFiniteSet(S), NEW part, \A x \in S : IsFiniteSet(part[x]),
           NEW whole, whole # {}, whole \subseteq United(S, part),
           NEW am, IsAmount(am),
           NEW f, \A x \in S : f[x] = am[Cardinality(part[x])]
    PROVE  /\ SumFunctionOnSet(f, S) \in Nat /\ am[Cardinality(whole)] \in Nat
           /\ am[Cardinality(whole)] <= SumFunctionOnSet(f, S)
  <1> DEFINE n == [x \in S |-> Cardinality(part[x])]
             all == United(S, part)
             N == SumFunctionOnSet(n, S)
  <1>1. /\ \A x \in S : n[x] = Cardinality(part[x])
        /\ \A x \in S : n[x] \in Nat
        /\ \A x \in S : f[x] = am[n[x]]
    BY FS_CardinalityType
  <1>2. IsFiniteSet(all) /\ Cardinality(all) \in Nat /\ Cardinality(all) <= N
    <2> HIDE DEF n
    <2> QED
      BY <1>1, CountUnion
  <1>3. IsFiniteSet(whole) /\ Cardinality(whole) <= Cardinality(all)
    BY <1>2, FS_Subset
  <1>4. Cardinality(whole) \in Nat
    BY <1>3, FS_CardinalityType
  <1>5. S # {}
    BY DEF United
  <1>6. am[N] <= SumFunctionOnSet(f, S)
    <2> HIDE DEF n
    <2> QED
      BY <1>1, <1>5, SumOfAmounts
  <1>7. N \in Nat
    <2> HIDE DEF n
    <2> QED
      BY <1>1, SumOfNats
  <1>8. SumFunctionOnSet(f, S) \in Nat
    <2>1. \A x \in S : f[x] \in Nat
      BY <1>1 DEF IsAmount
    <2> QED
      BY <2>1, SumOfNats
  <1> DEFINE w == Cardinality(whole)
  <1>9. w \in Nat /\ w <= N
    BY <1>2, <1>3, <1>4, <1>7
  <1> HIDE DEF N, w
  <1>10. am[w] \in Nat /\ am[N] \in Nat /\ am[w] <= am[N]
    BY <1>7, <1>9 DEF IsAmount
  <1>11. am[w] <= SumFunctionOnSet(f, S)
    BY <1>6, <1>8, <1>10
  <1> QED
    BY <1>8, <1>10, <1>11 DEF w

\* And as much when the parts have nothing in common and nothing is rounded.
LEMMA ExactCostOf ==
    ASSUME NEW S, IsFiniteSet(S), NEW part, \A x \in S : IsFiniteSet(part[x]),
           \A x, y \in S : x # y => part[x] \cap part[y] = {},
           NEW whole, whole = United(S, part),
           NEW c \in Nat, NEW f, \A x \in S : f[x] = c * Cardinality(part[x])
    PROVE  c * Cardinality(whole) = SumFunctionOnSet(f, S)
  <1> DEFINE n == [x \in S |-> Cardinality(part[x])]
  <1>1. /\ \A x \in S : n[x] = Cardinality(part[x])
        /\ \A x \in S : n[x] \in Int
        /\ \A x \in S : f[x] = c * n[x]
    BY FS_CardinalityType
  <1>2. Cardinality(whole) = SumFunctionOnSet(n, S)
    <2> HIDE DEF n
    <2> QED
      BY <1>1, CountUnion
  <1>3. SumFunctionOnSet(f, S) = c * SumFunctionOnSet(n, S)
    <2> HIDE DEF n
    <2> QED
      BY <1>1, SumTimes
  <1> QED
    BY <1>2, <1>3

\* Both, of several wholes at different rates.
IsCover(X, part, K, key, whole, am, f, g) ==
    /\ IsFiniteSet(X) /\ IsFiniteSet(K)
    /\ \A x \in X : /\ IsFiniteSet(part[x]) /\ key[x] \in K
                    /\ f[x] = am[key[x]][Cardinality(part[x])]
    /\ \A k \in K : /\ whole[k] # {} /\ whole[k] \subseteq United(Keyed(X, key, k), part)
                    /\ IsAmount(am[k]) /\ g[k] = am[k][Cardinality(whole[k])]

\* Parts that are priced as the wholes they cover are, cost no less than those.
LEMMA CoverCost ==
    ASSUME NEW X, NEW part, NEW K, NEW key, NEW whole, NEW am, NEW f, NEW g,
           IsCover(X, part, K, key, whole, am, f, g)
    PROVE  /\ SumFunctionOnSet(g, K) \in Nat /\ SumFunctionOnSet(f, X) \in Nat
           /\ SumFunctionOnSet(g, K) <= SumFunctionOnSet(f, X)
  <1> USE DEF IsCover
  <1> DEFINE one(k) == Keyed(X, key, k)
             h == [k \in K |-> SumFunctionOnSet(f, one(k))]
  <1>1. ASSUME NEW k \in K
        PROVE  /\ SumFunctionOnSet(f, one(k)) \in Nat /\ am[k][Cardinality(whole[k])] \in Nat
               /\ am[k][Cardinality(whole[k])] <= SumFunctionOnSet(f, one(k))
    <2>1. IsFiniteSet(one(k))
      BY FS_Subset DEF Keyed
    <2>2. \A x \in one(k) : IsFiniteSet(part[x]) /\ f[x] = am[k][Cardinality(part[x])]
      BY DEF Keyed
    <2>3. whole[k] # {} /\ whole[k] \subseteq United(one(k), part) /\ IsAmount(am[k])
      OBVIOUS
    <2> HIDE DEF one
    <2> QED
      BY <2>1, <2>2, <2>3, CostOf
  <1>2. \A k \in K : h[k] \in Nat /\ g[k] \in Nat /\ g[k] <= h[k] /\ h[k] = SumFunctionOnSet(f, one(k))
    <2> HIDE DEF one
    <2> QED
      BY <1>1
  <1>3. \A x \in X : f[x] \in Nat
    <2> SUFFICES ASSUME NEW x \in X PROVE f[x] \in Nat
      OBVIOUS
    <2>1. IsAmount(am[key[x]]) /\ Cardinality(part[x]) \in Nat
      BY FS_CardinalityType
    <2> QED
      BY <2>1 DEF IsAmount
  <1>4. SumFunctionOnSet(f, X) = SumFunctionOnSet(h, K)
    <2>1. \A x \in X : f[x] \in Int
      BY <1>3
    <2>2. \A k \in K : h[k] = SumFunctionOnSet(f, Keyed(X, key, k))
      BY <1>2
    <2> HIDE DEF h
    <2> QED
      BY <2>1, <2>2, SumByKey
  <1>5. SumFunctionOnSet(g, K) <= SumFunctionOnSet(h, K)
    <2>1. \A k \in K : g[k] \in Int /\ h[k] \in Int /\ g[k] <= h[k]
      BY <1>2
    <2> HIDE DEF h
    <2> QED
      BY <2>1, SumLess
  <1>6. SumFunctionOnSet(g, K) \in Nat /\ SumFunctionOnSet(f, X) \in Nat
    <2> HIDE DEF h
    <2> QED
      BY <1>2, <1>3, SumOfNats
  <1> QED
    BY <1>4, <1>5, <1>6

IsExactCover(X, part, K, key, whole, c, f, g) ==
    /\ IsFiniteSet(X) /\ IsFiniteSet(K)
    /\ \A x \in X : /\ IsFiniteSet(part[x]) /\ key[x] \in K
                    /\ f[x] = c[key[x]] * Cardinality(part[x])
    /\ \A x, y \in X : x # y => part[x] \cap part[y] = {}
    /\ \A k \in K : /\ whole[k] = United(Keyed(X, key, k), part)
                    /\ c[k] \in Nat /\ g[k] = c[k] * Cardinality(whole[k])

\* They cost the same when an amount is so much for each member and no parts overlap.
LEMMA ExactCost ==
    ASSUME NEW X, NEW part, NEW K, NEW key, NEW whole, NEW c, NEW f, NEW g,
           IsExactCover(X, part, K, key, whole, c, f, g)
    PROVE  SumFunctionOnSet(g, K) = SumFunctionOnSet(f, X)
  <1> USE DEF IsExactCover
  <1> DEFINE one(k) == Keyed(X, key, k)
  <1>1. ASSUME NEW k \in K
        PROVE  g[k] = SumFunctionOnSet(f, one(k))
    <2>1. IsFiniteSet(one(k))
      BY FS_Subset DEF Keyed
    <2>2. \A x \in one(k) : IsFiniteSet(part[x]) /\ f[x] = c[k] * Cardinality(part[x])
      BY DEF Keyed
    <2>3. \A x, y \in one(k) : x # y => part[x] \cap part[y] = {}
      BY DEF Keyed
    <2>4. whole[k] = United(one(k), part) /\ c[k] \in Nat
      OBVIOUS
    <2>5. c[k] * Cardinality(whole[k]) = SumFunctionOnSet(f, one(k))
      <3> HIDE DEF one
      <3> QED
        BY <2>1, <2>2, <2>3, <2>4, ExactCostOf
    <2> QED
      BY <2>5
  <1>2. \A x \in X : f[x] \in Int
    <2> SUFFICES ASSUME NEW x \in X PROVE f[x] \in Int
      OBVIOUS
    <2>1. c[key[x]] \in Nat /\ Cardinality(part[x]) \in Nat
      BY FS_CardinalityType
    <2> QED
      BY <2>1
  <1>3. \A k \in K : g[k] = SumFunctionOnSet(f, Keyed(X, key, k))
    BY <1>1
  <1> QED
    BY <1>2, <1>3, SumByKey
=============================================================================
