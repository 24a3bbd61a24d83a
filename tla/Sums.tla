-------------------------------- MODULE Sums --------------------------------
(***************************************************************************)
(* What the proofs need to know of SumFunctionOnSet, the sum of the values *)
(* of a function over a finite set: it is 0 for the empty set, and one     *)
(* element more adds that element's value, whichever it is, although the   *)
(* definition takes the elements in the order in which CHOOSE does.        *)
(* And that a finite set of integers that has elements has a largest one.  *)
(*                                                                         *)
(* The inductions are over sets of numbers and over sets of sets: what has *)
(* to be shown of each is that it is in the set of those that satisfy it,  *)
(* which is a first-order statement.                                       *)
(***************************************************************************)
EXTENDS Functions, FiniteSetTheorems, TLAPS

\* The order of the naturals as a relation.
Smaller == OpToRel(<, Nat)

\* Induction on the naturals.
LEMMA NaturalsIn ==
    ASSUME NEW A, 0 \in A, \A n \in Nat : n \in A => n + 1 \in A
    PROVE  Nat \subseteq A
<1> SUFFICES ASSUME Nat \ A # {} PROVE FALSE
  OBVIOUS
<1> DEFINE Bad == Nat \ A
<1>1. IsWellFoundedOn(Smaller, Nat)
  BY NatLessThanWellFounded DEF Smaller
<1>2. PICK n \in Bad : \A m \in Bad : ~ (<<m, n>> \in Smaller)
  <2> HIDE DEF Smaller
  <2> QED
    BY <1>1, WFMin
<1>3. n \in Nat /\ n \notin A /\ n # 0
  OBVIOUS
<1>4. n - 1 \in Nat /\ n - 1 < n /\ (n - 1) + 1 = n
  BY <1>3
<1>5. Smaller = {ss \in Nat \X Nat : ss[1] < ss[2]}
  BY DEF Smaller, OpToRel
<1>6. <<n - 1, n>> \in Smaller
  BY <1>3, <1>4, <1>5
<1>7. n - 1 \in A
  BY <1>2, <1>4, <1>6
<1> QED
  BY <1>3, <1>4, <1>7

\* A set of subsets of a finite set has a smallest element.
LEMMA SmallestSubset ==
    ASSUME NEW S, IsFiniteSet(S), NEW B, B \subseteq SUBSET S, B # {}
    PROVE  \E T \in B : \A U \in B : U \subseteq T => U = T
<1>1. IsWellFoundedOn(StrictSubsetOrdering(S), FiniteSubsetsOf(S))
  BY FS_StrictSubsetOrderingWellFounded
<1>2. B \subseteq FiniteSubsetsOf(S)
  BY FS_FiniteSubsetsOfFinite
<1>3. PICK T \in B : \A U \in B : ~ (<<U, T>> \in StrictSubsetOrdering(S))
  <2> HIDE DEF FiniteSubsetsOf, StrictSubsetOrdering
  <2> QED
    BY <1>1, <1>2, WFMin
<1>4. ASSUME NEW U \in B, U \subseteq T PROVE U = T
  <2>1. U # T => <<U, T>> \in StrictSubsetOrdering(S)
    BY <1>4 DEF StrictSubsetOrdering
  <2> QED
    BY <1>3, <2>1
<1> QED
  BY <1>4

\* Induction on the subsets of a finite set, element by element.
LEMMA SubsetsIn ==
    ASSUME NEW S, IsFiniteSet(S), NEW A, {} \in A,
           \A T \in SUBSET S : \A x \in S \ T : T \in A => T \cup {x} \in A
    PROVE  SUBSET S \subseteq A
<1> DEFINE Bad == (SUBSET S) \ A
<1> SUFFICES ASSUME Bad # {} PROVE FALSE
  OBVIOUS
<1>1. PICK T \in Bad : \A U \in Bad : U \subseteq T => U = T
  <2>1. Bad \subseteq SUBSET S
    OBVIOUS
  <2> HIDE DEF Bad
  <2> QED
    BY <2>1, SmallestSubset
<1>2. PICK x : x \in T
  BY <1>1
<1>3. T \ {x} \in SUBSET S /\ x \in S \ (T \ {x}) /\ T = (T \ {x}) \cup {x}
  BY <1>1, <1>2
<1>4. T \ {x} \in A
  BY <1>1, <1>2, <1>3
<1> QED
  BY <1>1, <1>3, <1>4

\* A finite set of integers that is not empty has a largest element.
LEMMA LargestIn ==
    ASSUME NEW S, IsFiniteSet(S), S \subseteq Int, S # {}
    PROVE  \E m \in S : \A x \in S : m >= x
<1> DEFINE A == {T \in SUBSET S : T = {} \/ \E m \in T : \A x \in T : m >= x}
<1>1. {} \in A
  OBVIOUS
<1>2. ASSUME NEW T \in SUBSET S, NEW x \in S \ T, T \in A
      PROVE  T \cup {x} \in A
  <2>1. CASE T = {}
    BY <2>1
  <2>2. CASE T # {}
    <3>1. PICK m \in T : \A y \in T : m >= y
      BY <1>2, <2>2
    <3>2. m \in Int /\ x \in Int /\ \A y \in T : y \in Int
      OBVIOUS
    <3>3. CASE m >= x
      <4>1. \A y \in T \cup {x} : m >= y
        BY <3>1, <3>3
      <4> QED
        BY <4>1
    <3>4. CASE ~(m >= x)
      <4>1. \A y \in T \cup {x} : x >= y
        BY <3>1, <3>2, <3>4
      <4> QED
        BY <4>1
    <3> QED
      BY <3>3, <3>4
  <2> QED
    BY <2>1, <2>2
<1>3. SUBSET S \subseteq A
  <2> HIDE DEF A
  <2> QED
    BY <1>1, <1>2, SubsetsIn
<1>4. S \in A
  <2> HIDE DEF A
  <2> QED
    BY <1>3
<1> QED
  BY <1>4

-----------------------------------------------------------------------------
First(s) == CHOOSE x \in s : TRUE

\* The recursive function behind a sum.
IsSumOver(g, f, S) ==
    g = [s \in SUBSET S |-> IF s = {} THEN 0 ELSE f[First(s)] + g[s \ {First(s)}]]

LEMMA SumIsSome ==
    ASSUME NEW f, NEW S
    PROVE  SumFunctionOnSet(f, S) = (CHOOSE g : IsSumOver(g, f, S))[S]
BY DEF SumFunctionOnSet, FoldFunctionOnSet, MapThenFoldSet, IsSumOver, First

\* There is such a function.
LEMMA SumExists ==
    ASSUME NEW f, NEW S, IsFiniteSet(S)
    PROVE  \E g : IsSumOver(g, f, S)
<1> DEFINE Upto(n) == {s \in SUBSET S : Cardinality(s) <= n}
           Body(g, s) == IF s = {} THEN 0 ELSE f[First(s)] + g[s \ {First(s)}]
           A == {n \in Nat : \E g : g = [s \in Upto(n) |-> Body(g, s)]}
<1>1. \A s \in SUBSET S : /\ IsFiniteSet(s) /\ Cardinality(s) \in Nat
                          /\ Cardinality(s) <= Cardinality(S)
                          /\ s # {} => /\ First(s) \in s
                                       /\ Cardinality(s \ {First(s)}) = Cardinality(s) - 1
  <2> SUFFICES ASSUME NEW s \in SUBSET S
               PROVE  /\ IsFiniteSet(s) /\ Cardinality(s) \in Nat
                      /\ Cardinality(s) <= Cardinality(S)
                      /\ s # {} => /\ First(s) \in s
                                   /\ Cardinality(s \ {First(s)}) = Cardinality(s) - 1
    OBVIOUS
  <2>1. IsFiniteSet(s) /\ Cardinality(s) \in Nat /\ Cardinality(s) <= Cardinality(S)
    BY FS_Subset, FS_CardinalityType
  <2>2. s # {} => First(s) \in s
    BY DEF First
  <2> QED
    BY <2>1, <2>2, FS_RemoveElement
<1>2. 0 \in A
  <2> DEFINE g == [s \in Upto(0) |-> 0]
  <2>1. \A s \in Upto(0) : s = {}
    <3> SUFFICES ASSUME NEW s \in Upto(0) PROVE s = {}
      OBVIOUS
    <3>1. /\ s \in SUBSET S /\ Cardinality(s) <= 0
          /\ Cardinality(s) \in Nat /\ IsFiniteSet(s)
      BY <1>1
    <3> QED
      BY <3>1, FS_EmptySet
  <2>2. g = [s \in Upto(0) |-> Body(g, s)]
    BY <2>1
  <2> QED
    BY <2>2
<1>3. ASSUME NEW n \in Nat, n \in A PROVE n + 1 \in A
  <2>1. PICK g : g = [s \in Upto(n) |-> Body(g, s)]
    BY <1>3
  <2> DEFINE h == [s \in Upto(n + 1) |-> Body(g, s)]
  <2>2. \A s \in Upto(n) : h[s] = g[s]
    <3>1. Upto(n) \subseteq Upto(n + 1)
      <4> SUFFICES ASSUME NEW s \in SUBSET S, Cardinality(s) <= n
                   PROVE  Cardinality(s) <= n + 1
        OBVIOUS
      <4>1. Cardinality(s) \in Nat
        BY <1>1
      <4> HIDE DEF Upto, A, h
      <4> QED
        BY <1>3, <4>1
    <3>2. \A s \in Upto(n) : h[s] = Body(g, s)
      BY <3>1
    <3>3. \A s \in Upto(n) : g[s] = Body(g, s)
      BY <2>1
    <3> QED
      BY <3>2, <3>3
  <2>3. \A s \in Upto(n + 1) : s # {} => s \ {First(s)} \in Upto(n)
    <3> SUFFICES ASSUME NEW s \in Upto(n + 1), s # {}
                 PROVE  s \ {First(s)} \in Upto(n)
      OBVIOUS
    <3>1. /\ Cardinality(s) \in Nat /\ Cardinality(s) <= n + 1
          /\ Cardinality(s \ {First(s)}) = Cardinality(s) - 1
      BY <1>1
    <3>2. Cardinality(s \ {First(s)}) <= n
      BY <3>1
    <3> QED
      BY <3>2
  <2>4. \A s \in Upto(n + 1) : Body(g, s) = Body(h, s)
    BY <2>2, <2>3
  <2>5. h = [s \in Upto(n + 1) |-> Body(h, s)]
    BY <2>4
  <2>6. \E h1 : h1 = [s \in Upto(n + 1) |-> Body(h1, s)]
    <3> HIDE DEF h
    <3> QED
      BY <2>5
  <2>7. n + 1 \in Nat
    BY <1>3
  <2> HIDE DEF h, Upto, Body
  <2> QED
    BY <2>6, <2>7
<1>4. Cardinality(S) \in A
  <2>1. Cardinality(S) \in Nat
    BY FS_CardinalityType
  <2>2. \A n \in Nat : n \in A => n + 1 \in A
    BY <1>3
  <2> HIDE DEF A
  <2> QED
    BY <1>2, <2>1, <2>2, NaturalsIn
<1>5. Upto(Cardinality(S)) = SUBSET S
  BY <1>1
<1> QED
  BY <1>4, <1>5 DEF IsSumOver

\* It does not depend on the set around.
LEMMA SumsAgree ==
    ASSUME NEW f, NEW S, IsFiniteSet(S), NEW T \in SUBSET S,
           NEW g, IsSumOver(g, f, S), NEW h, IsSumOver(h, f, T)
    PROVE  g[T] = h[T]
<1> SUFFICES ASSUME g[T] # h[T] PROVE FALSE
  OBVIOUS
<1> DEFINE Bad == {s \in SUBSET T : g[s] # h[s]}
<1>1. IsFiniteSet(T)
  BY FS_Subset
<1>2. PICK s \in Bad : \A u \in Bad : u \subseteq s => u = s
  <2>1. Bad \subseteq SUBSET T /\ Bad # {}
    OBVIOUS
  <2> HIDE DEF Bad
  <2> QED
    BY <1>1, <2>1, SmallestSubset
<1>3. /\ g[s] = IF s = {} THEN 0 ELSE f[First(s)] + g[s \ {First(s)}]
      /\ h[s] = IF s = {} THEN 0 ELSE f[First(s)] + h[s \ {First(s)}]
  BY DEF IsSumOver
<1>4. s # {} /\ First(s) \in s
  BY <1>2, <1>3 DEF First
<1>5. s \ {First(s)} \notin Bad
  BY <1>2, <1>4
<1>6. g[s \ {First(s)}] = h[s \ {First(s)}]
  BY <1>4, <1>5
<1> QED
  BY <1>2, <1>3, <1>4, <1>6

LEMMA SumUnfolds ==
    ASSUME NEW f, NEW S, IsFiniteSet(S)
    PROVE  SumFunctionOnSet(f, S) =
              IF S = {} THEN 0
              ELSE f[First(S)] + SumFunctionOnSet(f, S \ {First(S)})
<1> DEFINE g == CHOOSE g : IsSumOver(g, f, S)
           T == S \ {First(S)}
           h == CHOOSE h : IsSumOver(h, f, T)
<1>1. IsFiniteSet(T)
  BY FS_Subset
<1>2. IsSumOver(g, f, S) /\ IsSumOver(h, f, T)
  BY <1>1, SumExists
<1>3. SumFunctionOnSet(f, S) = g[S] /\ SumFunctionOnSet(f, T) = h[T]
  BY SumIsSome
<1> HIDE DEF g, h
<1>4. g[T] = h[T]
  BY <1>2, SumsAgree
<1>5. g[S] = IF S = {} THEN 0 ELSE f[First(S)] + g[T]
  BY <1>2 DEF IsSumOver
<1> QED
  BY <1>3, <1>4, <1>5

-----------------------------------------------------------------------------
\* No element, no sum.
LEMMA SumOfNone ==
    ASSUME NEW f
    PROVE  SumFunctionOnSet(f, {}) = 0
BY SumUnfolds, FS_EmptySet

\* A sum of integers is an integer.
LEMMA SumIsInt ==
    ASSUME NEW f, NEW S, IsFiniteSet(S), \A x \in S : f[x] \in Int
    PROVE  SumFunctionOnSet(f, S) \in Int
<1> SUFFICES ASSUME SumFunctionOnSet(f, S) \notin Int PROVE FALSE
  OBVIOUS
<1> DEFINE Bad == {T \in SUBSET S : SumFunctionOnSet(f, T) \notin Int}
<1>1. PICK T \in Bad : \A U \in Bad : U \subseteq T => U = T
  <2>1. Bad \subseteq SUBSET S /\ Bad # {}
    OBVIOUS
  <2> HIDE DEF Bad
  <2> QED
    BY <2>1, SmallestSubset
<1> DEFINE Rest == T \ {First(T)}
<1>2. SumFunctionOnSet(f, T) =
         IF T = {} THEN 0 ELSE f[First(T)] + SumFunctionOnSet(f, Rest)
  <2>1. IsFiniteSet(T)
    BY FS_Subset
  <2> QED
    BY <2>1, SumUnfolds
<1>3. T # {}
  BY <1>2
<1>4. First(T) \in T /\ First(T) \in S
  BY <1>3 DEF First
<1>5. SumFunctionOnSet(f, Rest) \in Int
  BY <1>1, <1>4
<1>6. f[First(T)] \in Int
  BY <1>4
<1> QED
  BY <1>2, <1>3, <1>5, <1>6

\* Any element can be taken out first.
LEMMA SumTakesOut ==
    ASSUME NEW f, NEW S, IsFiniteSet(S), \A x \in S : f[x] \in Int, NEW a \in S
    PROVE  SumFunctionOnSet(f, S) = f[a] + SumFunctionOnSet(f, S \ {a})
<1> DEFINE Sum(T) == SumFunctionOnSet(f, T)
           Bad == {T \in SUBSET S : \E x \in T : Sum(T) # f[x] + Sum(T \ {x})}
<1> SUFFICES ASSUME Bad # {} PROVE FALSE
  OBVIOUS
<1>1. PICK T \in Bad : \A U \in Bad : U \subseteq T => U = T
  <2>1. Bad \subseteq SUBSET S
    OBVIOUS
  <2> HIDE DEF Bad
  <2> QED
    BY <2>1, SmallestSubset
<1>2. PICK x \in T : Sum(T) # f[x] + Sum(T \ {x})
  BY <1>1
<1> DEFINE c == First(T)
           Rest == T \ {x, c}
<1>3. c \in T
  BY <1>2 DEF First
<1>4. Sum(T) = f[c] + Sum(T \ {c})
  <2>1. IsFiniteSet(T)
    BY FS_Subset
  <2> QED
    BY <1>3, <2>1, SumUnfolds
<1>5. x # c
  BY <1>2, <1>4
<1>6. Sum(T \ {c}) = f[x] + Sum(Rest)
  <2>1. T \ {c} \in SUBSET S /\ T \ {c} \notin Bad /\ x \in T \ {c}
    BY <1>1, <1>2, <1>3, <1>5
  <2>2. (T \ {c}) \ {x} = Rest
    OBVIOUS
  <2> QED
    BY <2>1, <2>2
<1>7. Sum(T \ {x}) = f[c] + Sum(Rest)
  <2>1. T \ {x} \in SUBSET S /\ T \ {x} \notin Bad /\ c \in T \ {x}
    BY <1>1, <1>2, <1>3, <1>5
  <2>2. (T \ {x}) \ {c} = Rest
    OBVIOUS
  <2> QED
    BY <2>1, <2>2
<1>8. f[x] \in Int /\ f[c] \in Int /\ Sum(Rest) \in Int
  <2>1. IsFiniteSet(Rest) /\ Rest \subseteq S
    BY FS_Subset
  <2> QED
    BY <1>2, <1>3, <2>1, SumIsInt
<1> HIDE DEF Sum, c, Rest, Bad
<1> QED
  BY <1>2, <1>4, <1>6, <1>7, <1>8

\* One element more adds its value.
LEMMA SumPutsIn ==
    ASSUME NEW f, NEW S, IsFiniteSet(S), NEW a, a \notin S,
           \A x \in S \cup {a} : f[x] \in Int
    PROVE  SumFunctionOnSet(f, S \cup {a}) = f[a] + SumFunctionOnSet(f, S)
<1>1. IsFiniteSet(S \cup {a})
  BY FS_AddElement
<1>2. (S \cup {a}) \ {a} = S
  OBVIOUS
<1> QED
  BY <1>1, <1>2, SumTakesOut

\* Functions that agree on a set have the same sum over it.
LEMMA SumsOfEquals ==
    ASSUME NEW f, NEW g, NEW S, IsFiniteSet(S), \A x \in S : f[x] = g[x]
    PROVE  SumFunctionOnSet(f, S) = SumFunctionOnSet(g, S)
<1> DEFINE Bad == {T \in SUBSET S : SumFunctionOnSet(f, T) # SumFunctionOnSet(g, T)}
<1> SUFFICES ASSUME Bad # {} PROVE FALSE
  OBVIOUS
<1>1. PICK T \in Bad : \A U \in Bad : U \subseteq T => U = T
  <2>1. Bad \subseteq SUBSET S
    OBVIOUS
  <2> HIDE DEF Bad
  <2> QED
    BY <2>1, SmallestSubset
<1> DEFINE Rest == T \ {First(T)}
<1>2. \A F \in {f, g} :
         SumFunctionOnSet(F, T) =
            IF T = {} THEN 0 ELSE F[First(T)] + SumFunctionOnSet(F, Rest)
  <2>1. IsFiniteSet(T)
    BY FS_Subset
  <2> QED
    BY <2>1, SumUnfolds
<1>3. T # {}
  BY <1>1, <1>2
<1>4. First(T) \in T /\ First(T) \in S
  BY <1>3 DEF First
<1>5. SumFunctionOnSet(f, Rest) = SumFunctionOnSet(g, Rest)
  BY <1>1, <1>4
<1> QED
  BY <1>1, <1>2, <1>3, <1>4, <1>5

\* Zeros add up to zero.
LEMMA SumOfZeros ==
    ASSUME NEW f, NEW S, IsFiniteSet(S), \A x \in S : f[x] = 0
    PROVE  SumFunctionOnSet(f, S) = 0
<1> SUFFICES ASSUME SumFunctionOnSet(f, S) # 0 PROVE FALSE
  OBVIOUS
<1> DEFINE Bad == {T \in SUBSET S : SumFunctionOnSet(f, T) # 0}
<1>1. PICK T \in Bad : \A U \in Bad : U \subseteq T => U = T
  <2>1. Bad \subseteq SUBSET S /\ Bad # {}
    OBVIOUS
  <2> HIDE DEF Bad
  <2> QED
    BY <2>1, SmallestSubset
<1> DEFINE Rest == T \ {First(T)}
<1>2. SumFunctionOnSet(f, T) =
         IF T = {} THEN 0 ELSE f[First(T)] + SumFunctionOnSet(f, Rest)
  <2>1. IsFiniteSet(T)
    BY FS_Subset
  <2> QED
    BY <2>1, SumUnfolds
<1>3. First(T) \in T /\ f[First(T)] = 0
  BY <1>1, <1>2 DEF First
<1>4. SumFunctionOnSet(f, Rest) = 0
  BY <1>1, <1>3
<1> QED
  BY <1>1, <1>2, <1>3, <1>4

\* A change of one value changes the sum by as much.
LEMMA SumChanges ==
    ASSUME NEW f, NEW g, NEW S, IsFiniteSet(S), NEW a \in S,
           \A x \in S : f[x] \in Int /\ g[x] \in Int,
           \A x \in S \ {a} : f[x] = g[x]
    PROVE  SumFunctionOnSet(g, S) = SumFunctionOnSet(f, S) + (g[a] - f[a])
<1>1. IsFiniteSet(S \ {a})
  BY FS_Subset
<1>2. SumFunctionOnSet(f, S \ {a}) = SumFunctionOnSet(g, S \ {a})
  BY <1>1, SumsOfEquals
<1>3. SumFunctionOnSet(f, S \ {a}) \in Int
  BY <1>1, SumIsInt
<1>4. SumFunctionOnSet(f, S) = f[a] + SumFunctionOnSet(f, S \ {a})
  BY SumTakesOut
<1>5. SumFunctionOnSet(g, S) = g[a] + SumFunctionOnSet(g, S \ {a})
  BY SumTakesOut
<1> QED
  BY <1>2, <1>3, <1>4, <1>5

\* A sum of naturals is a natural.
LEMMA SumIsNat ==
    ASSUME NEW f, NEW S, IsFiniteSet(S), \A x \in S : f[x] \in Nat
    PROVE  SumFunctionOnSet(f, S) \in Nat
<1> SUFFICES ASSUME SumFunctionOnSet(f, S) \notin Nat PROVE FALSE
  OBVIOUS
<1> DEFINE Bad == {T \in SUBSET S : SumFunctionOnSet(f, T) \notin Nat}
<1>1. PICK T \in Bad : \A U \in Bad : U \subseteq T => U = T
  <2>1. Bad \subseteq SUBSET S /\ Bad # {}
    OBVIOUS
  <2> HIDE DEF Bad
  <2> QED
    BY <2>1, SmallestSubset
<1> DEFINE Rest == T \ {First(T)}
<1>2. SumFunctionOnSet(f, T) =
         IF T = {} THEN 0 ELSE f[First(T)] + SumFunctionOnSet(f, Rest)
  <2>1. IsFiniteSet(T)
    BY FS_Subset
  <2> QED
    BY <2>1, SumUnfolds
<1>3. T # {}
  BY <1>2
<1>4. First(T) \in T /\ First(T) \in S
  BY <1>3 DEF First
<1>5. SumFunctionOnSet(f, Rest) \in Nat
  BY <1>1, <1>4
<1>6. f[First(T)] \in Nat
  BY <1>4
<1> QED
  BY <1>2, <1>3, <1>5, <1>6

\* A sum over an interval from 0, one number at a time.
LEMMA SumUpTo ==
    ASSUME NEW f
    PROVE  /\ f[0] \in Int => SumFunctionOnSet(f, 0..0) = f[0]
           /\ \A n \in Nat :
                 (\A x \in 0..(n + 1) : f[x] \in Int) =>
                    SumFunctionOnSet(f, 0..(n + 1)) = f[n + 1] + SumFunctionOnSet(f, 0..n)
<1>1. ASSUME f[0] \in Int PROVE SumFunctionOnSet(f, 0..0) = f[0]
  <2>1. 0..0 = {} \cup {0}
    OBVIOUS
  <2>2. SumFunctionOnSet(f, {} \cup {0}) = f[0] + SumFunctionOnSet(f, {})
    BY <1>1, SumPutsIn, FS_EmptySet
  <2> QED
    BY <1>1, <2>1, <2>2, SumOfNone
<1>2. ASSUME NEW n \in Nat, \A x \in 0..(n + 1) : f[x] \in Int
      PROVE  SumFunctionOnSet(f, 0..(n + 1)) = f[n + 1] + SumFunctionOnSet(f, 0..n)
  <2>1. 0..(n + 1) = (0..n) \cup {n + 1} /\ n + 1 \notin 0..n
    OBVIOUS
  <2>2. IsFiniteSet(0..n)
    BY FS_Interval
  <2> QED
    BY <1>2, <2>1, <2>2, SumPutsIn
<1> QED
  BY <1>1, <1>2
=============================================================================
