----------------------------- MODULE Counting -----------------------------
(***************************************************************************)
(* Facts about numbers, positions, sums, orderings and sequences that the  *)
(* proofs of several components cite.  The provers cannot use the          *)
(* library's induction theorems, whose parameter is an operator, so the    *)
(* induction behind each of these is on a set: of the counterexamples      *)
(* there would be a smallest one.                                          *)
(***************************************************************************)
EXTENDS Integers, SequencesExt, SequenceTheorems, FiniteSetTheorems,
        WellFoundedInduction, TLAPS

\* A set of natural numbers that is not empty has a least element.
LEMMA LeastNatural ==
  ASSUME NEW B, B \subseteq Nat, B # {}
  PROVE  \E n \in B : \A m \in B : n <= m
<1>1. PICK c \in B : TRUE
  OBVIOUS
<1> DEFINE T == {1..n : n \in {m \in B : m <= c}}
<1>2. T \subseteq FiniteSubsetsOf(1..c) /\ T # {}
  <2>1. T # {}
    BY <1>1
  <2>2. ASSUME NEW U \in T
        PROVE  U \in SUBSET (1..c) /\ IsFiniteSet(U)
    <3>1. PICK n \in B : U = 1..n /\ n <= c
      OBVIOUS
    <3>2. IsFiniteSet(1..n)
      BY FS_Interval
    <3> QED BY <1>1, <3>1, <3>2
  <2> QED BY <2>1, <2>2 DEF FiniteSubsetsOf
<1>3. PICK U \in T : \A V \in T : <<V, U>> \notin StrictSubsetOrdering(1..c)
  BY <1>2, FS_StrictSubsetOrderingWellFounded, WFMin, Zenon
<1>4. PICK n \in B : U = 1..n /\ n <= c
  BY <1>3
<1>5. ASSUME NEW m \in B, m < n
      PROVE  FALSE
  <2>1. 1..m \in T
    BY <1>1, <1>4, <1>5
  <2>2. 1..m \subseteq 1..n /\ n \in 1..n /\ n \notin 1..m /\ 1..n \subseteq 1..c
    BY <1>1, <1>4, <1>5
  <2>3. <<1..m, 1..n>> \in StrictSubsetOrdering(1..c)
    BY <2>2 DEF StrictSubsetOrdering
  <2> QED BY <1>3, <1>4, <2>1, <2>3
<1> QED BY <1>4, <1>5

\* Max of a set of positions that is not empty is its greatest element.
LEMMA GreatestPosition ==
  ASSUME NEW c \in Nat, NEW S, S \subseteq 0..c, S # {}
  PROVE  Max(S) \in S /\ \A i \in S : i <= Max(S)
<1> DEFINE B == {c - i : i \in S}
<1>1. \A i \in S : i \in Nat /\ i <= c /\ c - i \in Nat
  OBVIOUS
<1>2. PICK n \in B : \A m \in B : n <= m
  <2>1. B \subseteq Nat /\ B # {}
    BY <1>1
  <2> HIDE DEF B
  <2> QED BY <2>1, LeastNatural
<1>3. PICK i \in S : n = c - i
  BY <1>2
<1>4. \A j \in S : i >= j
  <2> SUFFICES ASSUME NEW j \in S PROVE i >= j
    OBVIOUS
  <2>1. c - j \in B
    OBVIOUS
  <2>2. c - i <= c - j
    BY <1>2, <1>3, <2>1
  <2> QED BY <1>1, <2>2
<1> QED BY <1>4 DEF Max

\* Of the sets there are some of, one has no other within it.
LEMMA SmallestSet ==
  ASSUME NEW S, IsFiniteSet(S), NEW B, B \subseteq SUBSET S, B # {}
  PROVE  \E s \in B : \A t \in SUBSET s : t # s => t \notin B
<1>1. B \subseteq FiniteSubsetsOf(S)
  BY FS_FiniteSubsetsOfFinite
<1>2. PICK s \in B : \A t \in B : <<t, s>> \notin StrictSubsetOrdering(S)
  BY <1>1, FS_StrictSubsetOrderingWellFounded, WFMin, Zenon
<1>3. ASSUME NEW t \in SUBSET s, t # s PROVE t \notin B
  <2>1. <<t, s>> \in StrictSubsetOrdering(S)
    BY <1>3 DEF StrictSubsetOrdering
  <2> QED BY <1>2, <2>1
<1> QED BY <1>3

---------------------------------------------------------------------------
(***************************************************************************)
(* Sums.                                                                   *)
(***************************************************************************)
FirstAndRest(f, g, s) ==
  IF s = {} THEN 0 ELSE LET x == CHOOSE y \in s : TRUE IN f[x] + g[s \ {x}]

\* The fold of Functions is a recursive function on the subsets of the domain.
LEMMA SumUnfolds ==
  ASSUME NEW S, NEW f \in [S -> Int]
  PROVE  SumFunction(f) =
           LET iter[s \in SUBSET S] ==
                 IF s = {} THEN 0
                 ELSE LET x == CHOOSE y \in s : TRUE IN f[x] + iter[s \ {x}]
           IN  iter[S]
<1>1. DOMAIN f = S
  OBVIOUS
<1> QED BY <1>1, Zenon
    DEF SumFunction, SumFunctionOnSet, FoldFunctionOnSet, MapThenFoldSet

\* Up to a size, a function sums every set up to that size.
Summed(f, S, n, g) ==
  LET K == {s \in SUBSET S : Cardinality(s) <= n}
  IN  /\ g \in [K -> Int]
      /\ \A s \in K : g[s] = FirstAndRest(f, g, s)

LEMMA SumsGrow ==
  ASSUME NEW S, IsFiniteSet(S), NEW f \in [S -> Int], NEW n \in Nat,
         NEW g, Summed(f, S, n, g)
  PROVE  \E h : Summed(f, S, n + 1, h)
<1> DEFINE K(m) == {s \in SUBSET S : Cardinality(s) <= m}
           h == [s \in K(n + 1) |-> FirstAndRest(f, g, s)]
<1>1. ASSUME NEW s \in K(n + 1), s # {}, NEW x \in s
      PROVE  s \ {x} \in K(n)
  <2>1. IsFiniteSet(s)
    BY FS_Subset
  <2>2. Cardinality(s \ {x}) = Cardinality(s) - 1 /\ Cardinality(s) \in Nat
    BY <1>1, <2>1, FS_RemoveElement, FS_CardinalityType
  <2> QED BY <2>2
<1>2. ASSUME NEW s \in K(n)
      PROVE  s \in K(n + 1) /\ h[s] = g[s]
  <2>1. IsFiniteSet(s) /\ Cardinality(s) \in Nat
    BY FS_Subset, FS_CardinalityType
  <2> QED BY <2>1 DEF Summed
<1>3. ASSUME NEW s \in K(n + 1)
      PROVE  h[s] = FirstAndRest(f, h, s) /\ h[s] \in Int
  <2>1. CASE s = {}
    BY <2>1 DEF FirstAndRest
  <2>2. CASE s # {}
    <3> DEFINE x == CHOOSE y \in s : TRUE
    <3>1. x \in s
      BY <2>2
    <3>2. s \ {x} \in K(n)
      BY <1>1, <2>2, <3>1
    <3>3. h[s \ {x}] = g[s \ {x}] /\ g[s \ {x}] \in Int
      BY <1>2, <3>2 DEF Summed
    <3>4. f[x] \in Int
      BY <3>1
    <3>5. h[s] = f[x] + g[s \ {x}] /\ FirstAndRest(f, h, s) = f[x] + h[s \ {x}]
      BY <2>2 DEF FirstAndRest
    <3> QED BY <3>3, <3>4, <3>5
  <2> QED BY <2>1, <2>2
<1>4. h \in [K(n + 1) -> Int]
  BY <1>3
<1> HIDE DEF h
<1> QED BY <1>3, <1>4 DEF Summed

LEMMA SumsExist ==
  ASSUME NEW S, IsFiniteSet(S), NEW f \in [S -> Int], NEW c \in Nat
  PROVE  \E g : Summed(f, S, c, g)
<1> DEFINE B == {n \in Nat : ~ \E g : Summed(f, S, n, g)}
<1> SUFFICES ASSUME B # {} PROVE FALSE
  OBVIOUS
<1>1. PICK n \in B : \A m \in B : n <= m
  BY LeastNatural, Zenon
<1>2. CASE n = 0
  <2> DEFINE g == [s \in {{}} |-> 0]
  <2>1. {s \in SUBSET S : Cardinality(s) <= 0} = {{}}
    <3>1. \A s \in SUBSET S : Cardinality(s) <= 0 => s = {}
      BY FS_Subset, FS_CardinalityType, FS_EmptySet
    <3> QED BY <3>1, FS_EmptySet
  <2>2. Summed(f, S, 0, g)
    BY <2>1 DEF Summed, FirstAndRest
  <2> QED BY <1>2, <2>2
<1>3. CASE n # 0
  <2>1. n - 1 \in Nat /\ n - 1 \notin B
    BY <1>1, <1>3
  <2>2. PICK g : Summed(f, S, n - 1, g)
    BY <2>1
  <2>3. \E h : Summed(f, S, (n - 1) + 1, h)
    BY <2>1, <2>2, SumsGrow
  <2> QED BY <2>1, <2>3
<1> QED BY <1>2, <1>3

\* g sums every part of a finite set S.
SumsParts(f, S, g) == /\ g \in [SUBSET S -> Int]
                      /\ \A s \in SUBSET S : g[s] = FirstAndRest(f, g, s)

LEMMA SumFolds ==
  ASSUME NEW S, IsFiniteSet(S), NEW f \in [S -> Int]
  PROVE  \E g : SumsParts(f, S, g) /\ SumFunction(f) = g[S]
<1> DEFINE iter[s \in SUBSET S] ==
             IF s = {} THEN 0
             ELSE LET x == CHOOSE y \in s : TRUE IN f[x] + iter[s \ {x}]
<1>1. SumFunction(f) = iter[S]
  BY SumUnfolds, Zenon
<1>2. \E g : g = [s \in SUBSET S |->
                   IF s = {} THEN 0
                   ELSE LET x == CHOOSE y \in s : TRUE IN f[x] + g[s \ {x}]]
  <2>1. Cardinality(S) \in Nat
    BY FS_CardinalityType
  <2>2. PICK g : Summed(f, S, Cardinality(S), g)
    BY <2>1, SumsExist
  <2>3. {s \in SUBSET S : Cardinality(s) <= Cardinality(S)} = SUBSET S
    BY FS_Subset
  <2>4. g \in [SUBSET S -> Int] /\ \A s \in SUBSET S : g[s] = FirstAndRest(f, g, s)
    BY <2>2, <2>3 DEF Summed
  <2>5. g = [s \in SUBSET S |-> FirstAndRest(f, g, s)]
    BY <2>4
  <2> QED BY <2>5, Zenon DEF FirstAndRest
<1>3. iter = [s \in SUBSET S |->
               IF s = {} THEN 0
               ELSE LET x == CHOOSE y \in s : TRUE IN f[x] + iter[s \ {x}]]
  BY <1>2, Zenon
<1> HIDE DEF iter
<1>4. \A s \in SUBSET S : iter[s] = FirstAndRest(f, iter, s)
  BY <1>3 DEF FirstAndRest
<1>5. ASSUME NEW s0 \in SUBSET S PROVE iter[s0] \in Int
  <2> DEFINE B == {s \in SUBSET S : iter[s] \notin Int}
  <2> SUFFICES ASSUME B # {} PROVE FALSE
    OBVIOUS
  <2>0. B \subseteq SUBSET S
    OBVIOUS
  <2>1. PICK s \in B : \A t \in SUBSET s : t # s => t \notin B
    <3> HIDE DEF B
    <3> QED BY <2>0, SmallestSet
  <2>2. s # {}
    BY <1>4, <2>1 DEF FirstAndRest
  <2> DEFINE x == CHOOSE y \in s : TRUE
  <2>3. x \in s /\ iter[s] = f[x] + iter[s \ {x}]
    BY <1>4, <2>2 DEF FirstAndRest
  <2> HIDE DEF x
  <2>4. s \ {x} \in SUBSET S /\ s \ {x} \in SUBSET s /\ s \ {x} # s
    BY <2>3
  <2>5. iter[s \ {x}] \in Int
    BY <2>1, <2>4
  <2> QED BY <2>1, <2>3, <2>5
<1>6. iter \in [SUBSET S -> Int]
  <2>1. DOMAIN iter = SUBSET S
    BY <1>3
  <2>2. iter = [s \in SUBSET S |-> iter[s]]
    BY <1>3
  <2> QED BY <1>5, <2>2
<1> QED BY <1>1, <1>4, <1>6 DEF SumsParts

\* The sum of f over a part of its domain.
SumOn(f, s) == SumFunction([x \in s |-> f[x]])

LEMMA SumOnParts ==
  ASSUME NEW S, IsFiniteSet(S), NEW f \in [S -> Int], NEW g, SumsParts(f, S, g),
         NEW s \in SUBSET S
  PROVE  SumOn(f, s) = g[s]
<1> DEFINE e == [x \in s |-> f[x]]
<1>1. e \in [s -> Int] /\ IsFiniteSet(s) /\ \A x \in s : e[x] = f[x]
  BY FS_Subset
<1> HIDE DEF e
<1>2. PICK h : SumsParts(e, s, h) /\ SumFunction(e) = h[s]
  BY <1>1, SumFolds
<1>3. h[s] = g[s]
  <2> DEFINE B == {t \in SUBSET s : h[t] # g[t]}
  <2> SUFFICES ASSUME B # {} PROVE FALSE
    OBVIOUS
  <2>0. B \subseteq SUBSET s
    OBVIOUS
  <2>1. PICK t \in B : \A u \in SUBSET t : u # t => u \notin B
    <3> HIDE DEF B
    <3> QED BY <1>1, <2>0, SmallestSet
  <2>2. t \in SUBSET s /\ t \in SUBSET S /\ h[t] = FirstAndRest(e, h, t) /\ g[t] = FirstAndRest(f, g, t)
    BY <1>2 DEF SumsParts
  <2>3. t # {}
    BY <2>1, <2>2 DEF FirstAndRest
  <2> DEFINE x == CHOOSE y \in t : TRUE
  <2>4. x \in t /\ h[t] = e[x] + h[t \ {x}] /\ g[t] = f[x] + g[t \ {x}]
    BY <2>2, <2>3 DEF FirstAndRest
  <2> HIDE DEF x
  <2>5. h[t \ {x}] = g[t \ {x}]
    BY <2>1, <2>2, <2>4
  <2> QED BY <1>1, <2>1, <2>2, <2>4, <2>5
<1> QED BY <1>2, <1>3 DEF SumOn, e

\* A sum is a number, and any of its terms can be taken first.
LEMMA SumSplits ==
  ASSUME NEW S, IsFiniteSet(S), NEW f \in [S -> Int]
  PROVE  /\ SumOn(f, {}) = 0
         /\ SumFunction(f) = SumOn(f, S)
         /\ \A s \in SUBSET S : SumOn(f, s) \in Int
         /\ \A s \in SUBSET S : \A x \in s : SumOn(f, s) = f[x] + SumOn(f, s \ {x})
<1>1. PICK g : SumsParts(f, S, g)
  BY SumFolds
<1>2. \A s \in SUBSET S : SumOn(f, s) = g[s] /\ g[s] \in Int /\ g[s] = FirstAndRest(f, g, s)
  <2> SUFFICES ASSUME NEW s \in SUBSET S
               PROVE  SumOn(f, s) = g[s] /\ g[s] \in Int /\ g[s] = FirstAndRest(f, g, s)
    OBVIOUS
  <2>1. SumOn(f, s) = g[s]
    BY <1>1, SumOnParts
  <2>2. g[s] \in Int /\ g[s] = FirstAndRest(f, g, s)
    BY <1>1 DEF SumsParts
  <2> QED BY <2>1, <2>2
<1>3. [x \in S |-> f[x]] = f
  OBVIOUS
<1>4. ASSUME NEW s0 \in SUBSET S, NEW x0 \in s0
      PROVE  g[s0] = f[x0] + g[s0 \ {x0}]
  <2> DEFINE B == {s \in SUBSET S : \E x \in s : g[s] # f[x] + g[s \ {x}]}
  <2> SUFFICES ASSUME B # {} PROVE FALSE
    OBVIOUS
  <2>0. B \subseteq SUBSET S
    OBVIOUS
  <2>1. PICK s \in B : \A t \in SUBSET s : t # s => t \notin B
    <3> HIDE DEF B
    <3> QED BY <2>0, SmallestSet
  <2>2. PICK x \in s : g[s] # f[x] + g[s \ {x}]
    BY <2>1
  <2> DEFINE y == CHOOSE z \in s : TRUE
  <2>3. y \in s /\ g[s] = f[y] + g[s \ {y}]
    BY <1>2, <2>1, <2>2 DEF FirstAndRest
  <2> HIDE DEF y
  <2>4. x # y
    BY <2>2, <2>3
  <2>5. s \ {y} \in SUBSET S /\ s \ {x} \in SUBSET S
        /\ s \ {y} \in SUBSET s /\ s \ {y} # s /\ s \ {x} \in SUBSET s /\ s \ {x} # s
    BY <2>1, <2>2, <2>3
  <2>6. g[s \ {y}] = f[x] + g[(s \ {y}) \ {x}]
    BY <2>1, <2>2, <2>4, <2>5
  <2>7. g[s \ {x}] = f[y] + g[(s \ {x}) \ {y}]
    BY <2>1, <2>3, <2>4, <2>5
  <2> DEFINE r == (s \ {y}) \ {x}
  <2>8. r = (s \ {x}) \ {y} /\ r \in SUBSET S
    BY <2>5
  <2>9. g[r] \in Int /\ f[x] \in Int /\ f[y] \in Int
    BY <1>2, <2>1, <2>2, <2>3, <2>8
  <2>10. g[s] = f[y] + (f[x] + g[r]) /\ g[s \ {x}] = f[y] + g[r]
    BY <2>3, <2>6, <2>7, <2>8
  <2> HIDE DEF r
  <2>11. f[y] + (f[x] + g[r]) = f[x] + (f[y] + g[r])
    BY <2>9
  <2> QED BY <2>2, <2>10, <2>11
<1>5. SumOn(f, {}) = 0
  BY <1>2 DEF FirstAndRest
<1>6. ASSUME NEW s \in SUBSET S, NEW x \in s
      PROVE  SumOn(f, s) = f[x] + SumOn(f, s \ {x})
  BY <1>2, <1>4
<1>7. SumFunction(f) = SumOn(f, S)
  BY <1>3 DEF SumOn
<1> QED BY <1>2, <1>5, <1>6, <1>7

LEMMA SumIsInteger ==
  ASSUME NEW S, IsFiniteSet(S), NEW f \in [S -> Int]
  PROVE  SumFunction(f) \in Int
BY SumSplits

\* A sum of smaller terms is smaller.
LEMMA SumMonotone ==
  ASSUME NEW S, IsFiniteSet(S), NEW f \in [S -> Int], NEW g \in [S -> Int],
         \A x \in S : f[x] <= g[x]
  PROVE  SumFunction(f) <= SumFunction(g)
<1> DEFINE B == {s \in SUBSET S : ~ (SumOn(f, s) <= SumOn(g, s))}
<1> SUFFICES ASSUME B # {} PROVE FALSE
  BY SumSplits
<1>9. B \subseteq SUBSET S
  OBVIOUS
<1>1. PICK s \in B : \A t \in SUBSET s : t # s => t \notin B
  <2> HIDE DEF B
  <2> QED BY <1>9, SmallestSet
<1>2. s # {}
  <2>1. SumOn(f, {}) = 0 /\ SumOn(g, {}) = 0
    BY SumSplits
  <2>2. SumOn(f, {}) <= SumOn(g, {})
    BY <2>1
  <2> QED BY <2>2, <1>1, Zenon
<1>3. PICK x \in s : TRUE
  BY <1>2
<1>4. s \ {x} \in SUBSET S /\ s \in SUBSET S /\ SumOn(f, s \ {x}) <= SumOn(g, s \ {x})
  BY <1>1, <1>3
<1>5. /\ SumOn(f, s) = f[x] + SumOn(f, s \ {x}) /\ SumOn(g, s) = g[x] + SumOn(g, s \ {x})
      /\ SumOn(f, s \ {x}) \in Int /\ SumOn(g, s \ {x}) \in Int
  BY <1>3, <1>4, SumSplits
<1> QED BY <1>1, <1>3, <1>4, <1>5

\* A sum of natural numbers is one.
LEMMA SumIsNatural ==
  ASSUME NEW S, IsFiniteSet(S), NEW f \in [S -> Nat]
  PROVE  SumFunction(f) \in Nat
<1> DEFINE B == {s \in SUBSET S : SumOn(f, s) \notin Nat}
<1>0. f \in [S -> Int]
  OBVIOUS
<1> SUFFICES ASSUME B # {} PROVE FALSE
  BY <1>0, SumSplits
<1>9. B \subseteq SUBSET S
  OBVIOUS
<1>1. PICK s \in B : \A t \in SUBSET s : t # s => t \notin B
  <2> HIDE DEF B
  <2> QED BY <1>9, SmallestSet
<1>2. s # {}
  <2>1. SumOn(f, {}) \in Nat
    BY <1>0, SumSplits
  <2> QED BY <2>1, <1>1, Zenon
<1>3. PICK x \in s : TRUE
  BY <1>2
<1>4. s \ {x} \in SUBSET S /\ s \in SUBSET S /\ SumOn(f, s \ {x}) \in Nat
  BY <1>1, <1>3
<1>5. SumOn(f, s) = f[x] + SumOn(f, s \ {x})
  BY <1>0, <1>3, <1>4, SumSplits
<1> QED BY <1>1, <1>3, <1>4, <1>5

\* Changing one term changes the sum by as much.
LEMMA SumChanges ==
  ASSUME NEW S, IsFiniteSet(S), NEW f \in [S -> Int], NEW g \in [S -> Int],
         NEW c \in S, \A x \in S \ {c} : f[x] = g[x]
  PROVE  SumFunction(f) - f[c] = SumFunction(g) - g[c]
<1>1. [x \in S \ {c} |-> f[x]] = [x \in S \ {c} |-> g[x]]
  OBVIOUS
<1>2. SumOn(f, S \ {c}) = SumOn(g, S \ {c})
  BY <1>1 DEF SumOn
<1>3. /\ SumFunction(f) = f[c] + SumOn(f, S \ {c}) /\ SumOn(f, S \ {c}) \in Int
      /\ SumFunction(g) = g[c] + SumOn(g, S \ {c}) /\ SumOn(g, S \ {c}) \in Int
  BY SumSplits
<1>4. f[c] \in Int /\ g[c] \in Int
  OBVIOUS
<1> QED BY <1>2, <1>3, <1>4

LEMMA SumOfZeros ==
  ASSUME NEW S, IsFiniteSet(S), NEW f \in [S -> Int], \A x \in S : f[x] = 0
  PROVE  SumFunction(f) = 0
<1> DEFINE B == {s \in SUBSET S : SumOn(f, s) # 0}
<1> SUFFICES ASSUME B # {} PROVE FALSE
  BY SumSplits
<1>1. B \subseteq SUBSET S
  OBVIOUS
<1>2. PICK s \in B : \A t \in SUBSET s : t # s => t \notin B
  <2> HIDE DEF B
  <2> QED BY <1>1, SmallestSet
<1>3. s # {}
  <2>1. SumOn(f, {}) = 0
    BY SumSplits
  <2> QED BY <2>1, <1>2, Zenon
<1>4. PICK x \in s : TRUE
  BY <1>3
<1>5. s \ {x} \in SUBSET S /\ SumOn(f, s \ {x}) = 0
  BY <1>2, <1>4
<1>6. SumOn(f, s) = f[x] + SumOn(f, s \ {x})
  BY <1>2, <1>4, SumSplits
<1>7. f[x] = 0
  BY <1>2, <1>4
<1> QED BY <1>2, <1>5, <1>6, <1>7

\* A sum is the sum of the sums of the classes its terms fall into.
LEMMA SumPartition ==
  ASSUME NEW S, IsFiniteSet(S), NEW f \in [S -> Int], NEW h
  PROVE  SumFunction(f) = SumFunction([c \in {h[x] : x \in S} |->
                                        SumOn(f, {x \in S : h[x] = c})])
<1> DEFINE C == {h[x] : x \in S}
           Class(s, c) == {x \in s : h[x] = c}
           Part(s) == [c \in C |-> SumOn(f, Class(s, c))]
           B == {s \in SUBSET S : SumOn(f, s) # SumFunction(Part(s))}
<1>1. SUFFICES ASSUME B # {} PROVE FALSE
  BY SumSplits
<1>2. B \subseteq SUBSET S
  OBVIOUS
<1>3. PICK s \in B : \A t \in SUBSET s : t # s => t \notin B
  <2> HIDE DEF B
  <2> QED BY <1>1, <1>2, SmallestSet
<1>4. IsFiniteSet(C)
  <2> DEFINE G == [x \in S |-> h[x]]
  <2>1. G \in Surjection(S, C)
    BY DEF Surjection
  <2> HIDE DEF G, C
  <2> QED BY <2>1, FS_Surjection
<1>5. ASSUME NEW t \in SUBSET S
      PROVE  Part(t) \in [C -> Int]
  <2>1. \A c \in C : Class(t, c) \in SUBSET S
    OBVIOUS
  <2> HIDE DEF C, Class
  <2> QED BY <2>1, SumSplits
<1>6. s # {}
  <2> SUFFICES ASSUME s = {} PROVE FALSE
    OBVIOUS
  <2>1. SumOn(f, {}) = 0
    BY SumSplits
  <2>2. \A c \in C : Class(s, c) = {}
    OBVIOUS
  <2>3. \A c \in C : Part(s)[c] = 0
    BY <2>1, <2>2
  <2>4. SumFunction(Part(s)) = 0
    <3>1. Part(s) \in [C -> Int]
      BY <1>3, <1>5
    <3> HIDE DEF C, Part
    <3> QED BY <1>4, <2>3, <3>1, SumOfZeros
  <2> HIDE DEF Part
  <2> QED BY <1>3, <2>1, <2>4
<1>7. PICK x \in s : TRUE
  BY <1>6
<1> DEFINE r == s \ {x}
<1>8. r \in SUBSET S /\ SumOn(f, r) = SumFunction(Part(r))
  <2>1. r \in SUBSET S /\ r \in SUBSET s /\ r # s
    BY <1>3, <1>7
  <2> HIDE DEF Part
  <2> QED BY <1>3, <2>1
<1>9. SumOn(f, s) = f[x] + SumOn(f, r) /\ SumOn(f, r) \in Int
  BY <1>3, <1>7, <1>8, SumSplits
<1>10. h[x] \in C /\ f[x] \in Int
  BY <1>3, <1>7
<1>11. \A c \in C \ {h[x]} : Part(s)[c] = Part(r)[c]
  <2>1. \A c \in C \ {h[x]} : Class(s, c) = Class(r, c)
    OBVIOUS
  <2> HIDE DEF Class, r
  <2> QED BY <2>1
<1>12. Part(s)[h[x]] = f[x] + Part(r)[h[x]]
  <2>1. Class(r, h[x]) = Class(s, h[x]) \ {x} /\ x \in Class(s, h[x])
        /\ Class(s, h[x]) \in SUBSET S
    BY <1>3, <1>7
  <2>2. SumOn(f, Class(s, h[x])) = f[x] + SumOn(f, Class(r, h[x]))
    <3> HIDE DEF Class, r
    <3> QED BY <2>1, SumSplits
  <2> HIDE DEF Class, r
  <2> QED BY <1>10, <2>2
<1>13. Part(s) \in [C -> Int] /\ Part(r) \in [C -> Int]
  BY <1>3, <1>5, <1>8
<1>14. SumFunction(Part(s)) \in Int /\ SumFunction(Part(r)) \in Int
  <2> DEFINE P == Part(s)
             Q == Part(r)
  <2>1. P \in [C -> Int] /\ Q \in [C -> Int]
    BY <1>13
  <2> HIDE DEF P, Q, C
  <2>2. SumFunction(P) \in Int /\ SumFunction(Q) \in Int
    BY <1>4, <2>1, SumIsInteger
  <2> QED BY <2>2 DEF P, Q
<1>15. SumFunction(Part(s)) - Part(s)[h[x]] = SumFunction(Part(r)) - Part(r)[h[x]]
  <2> DEFINE P == Part(s)
             Q == Part(r)
             k == h[x]
  <2>1. /\ P \in [C -> Int] /\ Q \in [C -> Int] /\ k \in C
        /\ \A c \in C \ {k} : P[c] = Q[c]
    BY <1>10, <1>11, <1>13
  <2> HIDE DEF P, Q, C, k
  <2>2. SumFunction(P) - P[k] = SumFunction(Q) - Q[k]
    BY <1>4, <2>1, SumChanges
  <2> QED BY <2>2 DEF P, Q, k
<1>16. Part(s)[h[x]] \in Int /\ Part(r)[h[x]] \in Int
  BY <1>10, <1>13
<1>17. SumOn(f, s) = SumFunction(Part(s))
  <2> HIDE DEF Part
  <2> QED BY <1>8, <1>9, <1>10, <1>12, <1>14, <1>15, <1>16
<1> HIDE DEF Part
<1> QED BY <1>3, <1>17

\* One smaller term, and none greater, make a smaller sum.
LEMMA SumStrict ==
  ASSUME NEW S, IsFiniteSet(S), NEW f \in [S -> Int], NEW g \in [S -> Int],
         \A x \in S : f[x] <= g[x], NEW c \in S, f[c] < g[c]
  PROVE  SumFunction(f) < SumFunction(g)
<1> DEFINE h == [f EXCEPT ![c] = g[c]]
<1>1. h \in [S -> Int] /\ h[c] = g[c] /\ \A x \in S \ {c} : f[x] = h[x]
  OBVIOUS
<1>2. \A x \in S : h[x] <= g[x]
  OBVIOUS
<1> HIDE DEF h
<1>3. SumFunction(h) <= SumFunction(g)
  BY <1>1, <1>2, SumMonotone
<1>4. SumFunction(f) - f[c] = SumFunction(h) - h[c]
  BY <1>1, SumChanges
<1>5. SumFunction(f) \in Int /\ SumFunction(g) \in Int /\ SumFunction(h) \in Int
  BY <1>1, SumIsInteger
<1>6. f[c] \in Int /\ g[c] \in Int
  OBVIOUS
<1> QED BY <1>1, <1>3, <1>4, <1>5, <1>6

\* r is s without x.
Without(s, x, r) == r = s \ {x}
\* Any term of a sum can be taken first, the last position's in particular.
LEMMA SumTakes ==
  ASSUME NEW S, IsFiniteSet(S), NEW f \in [S -> Int], NEW s \in SUBSET S, NEW x \in s,
         NEW r, Without(s, x, r)
  PROVE  SumOn(f, s) = f[x] + SumOn(f, r) /\ SumOn(f, r) \in Int /\ f[x] \in Int
<1>1. SumOn(f, s) = f[x] + SumOn(f, s \ {x})
  BY SumSplits
<1>2. SumOn(f, s) = f[x] + SumOn(f, r)
  BY <1>1, Zenon DEF Without
<1>3. r \in SUBSET S
  BY DEF Without
<1>4. SumOn(f, r) \in Int
  BY <1>3, SumSplits
<1> QED BY <1>2, <1>4

LEMMA SumTakesLast ==
  ASSUME NEW n \in Nat, NEW W \in [1..n -> Int], NEW i \in 1..n
  PROVE  /\ SumOn(W, 1..(i - 1)) \in Int
         /\ SumOn(W, 1..i) = SumOn(W, 1..(i - 1)) + W[i]
<1> DEFINE D == 1..n
           upto == 1..i
           before == 1..(i - 1)
<1>1. IsFiniteSet(D)
  BY FS_Interval
<1>2. W \in [D -> Int]
  OBVIOUS
<1>3. upto \in SUBSET D /\ i \in upto
  OBVIOUS
<1>5. Without(upto, i, before)
  BY DEF Without
<1>6. W[i] \in Int
  OBVIOUS
<1> HIDE DEF D, upto, before
<1>7. SumOn(W, upto) = W[i] + SumOn(W, before) /\ SumOn(W, before) \in Int
  BY <1>1, <1>2, <1>3, <1>5, SumTakes
<1>8. SumOn(W, upto) = SumOn(W, before) + W[i]
  BY <1>6, <1>7
<1> QED BY <1>7, <1>8 DEF upto, before

\* The terms of a sum in two parts, one after the other.
LEMMA SumOfConcat ==
  ASSUME NEW n \in Nat, NEW W \in [1..n -> Int], NEW a \in Nat, NEW b \in Nat, a + b <= n
  PROVE  SumOn(W, 1..(a + b)) = SumOn(W, 1..a) + SumFunction([j \in 1..b |-> W[a + j]])
<1> DEFINE part == [j \in 1..b |-> W[a + j]]
           Holds(c) == SumOn(W, 1..(a + c)) = SumOn(W, 1..a) + SumOn(part, 1..c)
           B == {c \in 0..b : ~Holds(c)}
<1>1. part \in [1..b -> Int] /\ IsFiniteSet(1..b) /\ IsFiniteSet(1..n)
  BY FS_Interval
<1>2. SumFunction(part) = SumOn(part, 1..b)
  <2> HIDE DEF part
  <2> QED BY <1>1, SumSplits
<1>3. SumOn(W, 1..a) \in Int
  <2> DEFINE upto == 1..a
             D == 1..n
  <2>1. upto \in SUBSET D /\ IsFiniteSet(D) /\ W \in [D -> Int]
    BY <1>1
  <2> HIDE DEF upto, D
  <2>2. SumOn(W, upto) \in Int
    BY <2>1, SumSplits
  <2> QED BY <2>2 DEF upto
<1>4. Holds(0)
  <2>1. SumOn(part, {}) = 0
    <3> HIDE DEF part
    <3> QED BY <1>1, SumSplits
  <2>2. 1..0 = {} /\ a + 0 = a
    OBVIOUS
  <2> HIDE DEF part
  <2> QED BY <1>3, <2>1, <2>2
<1>5. ASSUME NEW c \in 1..b, Holds(c - 1)
      PROVE  Holds(c)
  <2>1. /\ a + c \in 1..n /\ (a + c) - 1 = a + (c - 1)
        /\ part[c] = W[a + c] /\ W[a + c] \in Int
    OBVIOUS
  <2> HIDE DEF part
  <2>2. SumOn(W, 1..(a + c)) = SumOn(W, 1..(a + (c - 1))) + W[a + c]
    <3> DEFINE k == a + c
    <3>1. k \in 1..n
      BY <2>1
    <3>2. SumOn(W, 1..k) = SumOn(W, 1..(k - 1)) + W[k]
      BY <3>1, SumTakesLast
    <3> QED BY <2>1, <3>2
  <2>3. SumOn(part, 1..c) = SumOn(part, 1..(c - 1)) + part[c] /\ SumOn(part, 1..(c - 1)) \in Int
    BY <1>1, SumTakesLast
  <2> QED BY <1>3, <1>5, <2>1, <2>2, <2>3
<1>6. Holds(b)
  <2> HIDE DEF Holds
  <2> SUFFICES ASSUME B # {} PROVE FALSE
    OBVIOUS
  <2>1. PICK c \in B : \A d \in B : c <= d
    <3>1. B \subseteq Nat
      OBVIOUS
    <3> HIDE DEF B
    <3> QED BY <3>1, LeastNatural
  <2>2. c # 0
    BY <1>4, <2>1
  <2>3. c \in 1..b /\ c - 1 \in 0..b /\ ~(c <= c - 1)
    BY <2>1, <2>2
  <2> QED BY <1>5, <2>1, <2>3
<1> HIDE DEF part
<1>7. SumOn(W, 1..(a + b)) = SumOn(W, 1..a) + SumFunction(part)
  BY <1>2, <1>6
<1> QED BY <1>7 DEF part

---------------------------------------------------------------------------
\* A finite set of numbers has an enumeration in their order.
LEMMA IncreasingExists ==
  ASSUME NEW S, S \subseteq Nat, IsFiniteSet(S)
  PROVE  \E f \in [1..Cardinality(S) -> S] :
           \A i, j \in 1..Cardinality(S) : i < j => f[i] < f[j]
<1> DEFINE Ordered(T) == \E f \in [1..Cardinality(T) -> T] :
                           \A i, j \in 1..Cardinality(T) : i < j => f[i] < f[j]
           B == {T \in SUBSET S : ~ Ordered(T)}
<1> SUFFICES ASSUME B # {} PROVE FALSE
  BY DEF B
<1>1. B \subseteq FiniteSubsetsOf(S)
  BY FS_FiniteSubsetsOfFinite
<1>2. PICK T \in B : \A U \in B : <<U, T>> \notin StrictSubsetOrdering(S)
  <2> HIDE DEF B
  <2> QED BY <1>1, FS_StrictSubsetOrderingWellFounded, WFMin, Zenon
<1>3. T # {}
  <2> SUFFICES ASSUME T = {} PROVE FALSE
    OBVIOUS
  <2>1. Cardinality(T) = 0
    BY FS_EmptySet
  <2>2. [i \in 1..0 |-> 0] \in [1..0 -> T]
    OBVIOUS
  <2> QED BY <2>1, <2>2
<1>4. PICK m \in T : \A n \in T : m <= n
  BY <1>3, LeastNatural
<1> DEFINE U == T \ {m}
<1>5. /\ IsFiniteSet(T) /\ Cardinality(T) \in Nat
      /\ Cardinality(U) = Cardinality(T) - 1 /\ Cardinality(U) \in Nat
  BY FS_Subset, FS_RemoveElement, FS_CardinalityType
<1>6. U \in SUBSET S /\ <<U, T>> \in StrictSubsetOrdering(S)
  BY DEF StrictSubsetOrdering
<1>7. PICK g \in [1..Cardinality(U) -> U] :
        \A i, j \in 1..Cardinality(U) : i < j => g[i] < g[j]
  BY <1>2, <1>6
<1> DEFINE c == Cardinality(T)
           f == [i \in 1..c |-> IF i = 1 THEN m ELSE g[i - 1]]
<1>8. \A i \in 1..c : i # 1 => i - 1 \in 1..Cardinality(U)
  BY <1>5
<1>9. f \in [1..c -> T]
  BY <1>7, <1>8
<1>10. ASSUME NEW i \in 1..c, NEW j \in 1..c, i < j
       PROVE  f[i] < f[j]
  <2>1. j # 1 /\ j - 1 \in 1..Cardinality(U) /\ f[j] = g[j - 1] /\ g[j - 1] \in U
    <3>1. j # 1
      BY <1>5, <1>10
    <3>2. j - 1 \in 1..Cardinality(U)
      BY <1>8, <3>1
    <3>3. g[j - 1] \in U
      BY <1>7, <3>2
    <3> HIDE DEF U
    <3> QED BY <3>1, <3>2, <3>3
  <2>2. CASE i = 1
    <3>1. f[i] = m /\ m \in Nat /\ f[j] \in Nat /\ f[j] # m /\ m <= f[j]
      BY <1>4, <2>1, <2>2
    <3> QED BY <3>1
  <2>3. CASE i # 1
    <3>1. i - 1 \in 1..Cardinality(U) /\ f[i] = g[i - 1] /\ i - 1 < j - 1
      BY <1>5, <1>8, <1>10, <2>3
    <3> QED BY <1>7, <2>1, <3>1
  <2> QED BY <2>2, <2>3
<1> HIDE DEF f
<1>11. Ordered(T)
  BY <1>9, <1>10
<1> QED BY <1>11

\* Such an enumeration lists every element, and its first n are those with
\* fewer than n below them.
LEMMA FirstOfIncreasing ==
  ASSUME NEW S, S \subseteq Nat, IsFiniteSet(S),
         NEW f \in [1..Cardinality(S) -> S],
         \A i, j \in 1..Cardinality(S) : i < j => f[i] < f[j],
         NEW n \in 0..Cardinality(S)
  PROVE  {f[i] : i \in 1..n} = {p \in S : Cardinality({q \in S : q < p}) < n}
<1> DEFINE c == Cardinality(S)
<1>1. c \in Nat /\ \A i \in 1..c : f[i] \in S /\ f[i] \in Nat
  BY FS_CardinalityType
<1> HIDE DEF c
<1>0. ASSUME NEW i \in 1..c, NEW j \in 1..c
      PROVE  (f[i] = f[j] => i = j) /\ (i < j <=> f[i] < f[j])
  <2>1. f[i] \in Nat /\ f[j] \in Nat /\ i \in Nat /\ j \in Nat
    BY <1>1
  <2>2. (i < j => f[i] < f[j]) /\ (j < i => f[j] < f[i])
    BY DEF c
  <2> QED BY <2>1, <2>2
<1>2. f \in Injection(1..c, S)
  <2>1. f \in [1..c -> S]
    BY DEF c
  <2> QED BY <1>0, <2>1 DEF Injection, IsInjective
<1>3. f \in Surjection(1..c, S)
  <2>1. IsFiniteSet(1..c) /\ Cardinality(1..c) = c
    BY <1>1, FS_Interval
  <2> QED BY <1>2, <2>1, FS_Injection DEF c
<1>4. ASSUME NEW k \in 1..c
      PROVE  Cardinality({q \in S : q < f[k]}) = k - 1
  <2> DEFINE L == {q \in S : q < f[k]}
             g == [i \in 1..(k - 1) |-> f[i]]
  <2>1. g \in [1..(k - 1) -> L]
    <3>1. ASSUME NEW i \in 1..(k - 1)
          PROVE  f[i] \in L
      BY <1>0, <1>1
    <3> QED BY <3>1
  <2>2. \A q \in L : \E i \in 1..(k - 1) : g[i] = q
    <3> SUFFICES ASSUME NEW q \in S, q < f[k] PROVE \E i \in 1..(k - 1) : g[i] = q
      OBVIOUS
    <3>1. PICK i \in 1..c : f[i] = q
      BY <1>3 DEF Surjection
    <3>2. i < k
      BY <1>0, <3>1
    <3> QED BY <1>1, <3>1, <3>2
  <2>3. \A i, j \in 1..(k - 1) : g[i] = g[j] => i = j
    BY <1>0, <1>1
  <2> HIDE DEF g
  <2>4. ExistsBijection(1..(k - 1), L)
    BY <2>1, <2>2, <2>3
    DEF ExistsBijection, Bijection, Injection, IsInjective, Surjection
  <2> HIDE DEF L
  <2>5. Cardinality(L) = k - 1
    BY <1>1, <2>4, FS_CountingElements
  <2> QED BY <2>5 DEF L
<1>5. ASSUME NEW p \in S
      PROVE  p \in {f[i] : i \in 1..n} <=> Cardinality({q \in S : q < p}) < n
  <2>1. PICK k \in 1..c : f[k] = p
    BY <1>3 DEF Surjection
  <2>2. Cardinality({q \in S : q < p}) = k - 1
    BY <1>4, <2>1
  <2>3. p \in {f[i] : i \in 1..n} <=> k <= n
    <3>1. ASSUME NEW i \in 1..n, f[i] = p
          PROVE  i = k
      BY <1>0, <1>1, <2>1, <3>1 DEF c
    <3> QED BY <1>1, <2>1, <3>1
  <2> QED BY <1>1, <2>2, <2>3 DEF c
<1>6. {f[i] : i \in 1..n} \subseteq S
  BY <1>1 DEF c
<1> QED BY <1>5, <1>6

---------------------------------------------------------------------------
(***************************************************************************)
(* Sequences laid end to end.                                              *)
(***************************************************************************)
\* flat[i] is what the first i sequences are together.
LaidOut(ss, n, flat) ==
  flat = [i \in 1..n |-> IF i = 1 THEN ss[i] ELSE flat[i - 1] \o ss[i]]

\* The recursive function that FlattenSeq is defined by exists.
LEMMA LayOutExists ==
  ASSUME NEW ss, NEW c \in Nat
  PROVE  \E flat : LaidOut(ss, c, flat)
<1> DEFINE B == {n \in Nat : ~ \E flat : LaidOut(ss, n, flat)}
<1> SUFFICES ASSUME B # {} PROVE FALSE
  OBVIOUS
<1>1. PICK n \in B : \A m \in B : n <= m
  <2> HIDE DEF B
  <2> QED BY LeastNatural DEF B
<1>2. CASE n = 0
  <2>1. LaidOut(ss, 0, [i \in 1..0 |-> 0])
    BY DEF LaidOut
  <2> QED BY <1>2, <2>1
<1>3. CASE n # 0
  <2>1. n - 1 \in Nat /\ n - 1 \notin B
    BY <1>1, <1>3
  <2>2. PICK flat : LaidOut(ss, n - 1, flat)
    BY <2>1
  <2> DEFINE next == [i \in 1..n |->
                       IF i = n THEN IF i = 1 THEN ss[i] ELSE flat[i - 1] \o ss[i] ELSE flat[i]]
  <2>3. ASSUME NEW i \in 1..n
        PROVE  next[i] = IF i = 1 THEN ss[i] ELSE next[i - 1] \o ss[i]
    <3>1. CASE i = n
      <4>1. i # 1 => i - 1 \in 1..n /\ i - 1 # n /\ next[i - 1] = flat[i - 1]
        BY <1>1, <3>1
      <4> QED BY <3>1, <4>1
    <3>2. CASE i # n
      <4>1. i \in 1..(n - 1) /\ next[i] = flat[i]
        BY <1>1, <3>2
      <4>2. i # 1 => i - 1 \in 1..n /\ i - 1 # n /\ next[i - 1] = flat[i - 1]
        BY <1>1, <3>2
      <4>3. flat[i] = IF i = 1 THEN ss[i] ELSE flat[i - 1] \o ss[i]
        BY <2>2, <4>1 DEF LaidOut
      <4> HIDE DEF next
      <4> QED BY <4>1, <4>2, <4>3
    <3> QED BY <3>1, <3>2
  <2>4. next = [i \in 1..n |-> next[i]]
    OBVIOUS
  <2> HIDE DEF next
  <2>5. LaidOut(ss, n, next)
    BY <2>3, <2>4 DEF LaidOut
  <2> QED BY <1>1, <2>5
<1> QED BY <1>2, <1>3

LEMMA FlattenUnfolds ==
  ASSUME NEW ss, Len(ss) \in Nat, Len(ss) # 0
  PROVE  \E flat : LaidOut(ss, Len(ss), flat) /\ FlattenSeq(ss) = flat[Len(ss)]
<1> DEFINE n == Len(ss)
           flatten[i \in 1..n] == IF i = 1 THEN ss[i] ELSE flatten[i - 1] \o ss[i]
<1>1. FlattenSeq(ss) = flatten[n]
  BY Zenon DEF FlattenSeq
<1>2. \E flat : flat = [i \in 1..n |-> IF i = 1 THEN ss[i] ELSE flat[i - 1] \o ss[i]]
  BY LayOutExists, Zenon DEF LaidOut
<1>3. flatten = [i \in 1..n |-> IF i = 1 THEN ss[i] ELSE flatten[i - 1] \o ss[i]]
  BY <1>2, Zenon
<1> HIDE DEF flatten
<1>4. LaidOut(ss, n, flatten)
  BY <1>3 DEF LaidOut
<1> QED BY <1>1, <1>4

\* How many elements the first i sequences have.
Lens(ss) == [i \in DOMAIN ss |-> Len(ss[i])]
Offset(ss, i) == SumOn(Lens(ss), 1..i)

LEMMA OffsetSteps ==
  ASSUME NEW S, NEW ss \in Seq(Seq(S))
  PROVE  /\ Offset(ss, 0) = 0
         /\ \A i \in 0..Len(ss) : Offset(ss, i) \in Nat
         /\ \A i \in 1..Len(ss) : Offset(ss, i) = Offset(ss, i - 1) + Len(ss[i])
         /\ Offset(ss, Len(ss)) = SumFunction(Lens(ss))
<1> DEFINE n == Len(ss)
           lens == Lens(ss)
<1>1. /\ n \in Nat /\ DOMAIN ss = 1..n /\ IsFiniteSet(1..n)
      /\ lens \in [1..n -> Nat]
  <2>1. n \in Nat /\ DOMAIN ss = 1..n
    OBVIOUS
  <2>2. IsFiniteSet(1..n)
    BY <2>1, FS_Interval
  <2>3. \A i \in 1..n : ss[i] \in Seq(S)
    OBVIOUS
  <2>4. \A i \in 1..n : Len(ss[i]) \in Nat
    BY <2>3
  <2> QED BY <2>1, <2>2, <2>4 DEF Lens
<1>2. \A i \in 1..n : lens[i] = Len(ss[i])
  BY <1>1 DEF Lens
<1> HIDE DEF lens, n
<1>3. lens \in [1..n -> Int]
  BY <1>1
<1>4. SumOn(lens, {}) = 0 /\ 1..0 = {}
  BY <1>1, <1>3, SumSplits
<1>5. SumFunction(lens) = SumOn(lens, 1..n)
  BY <1>1, <1>3, SumSplits
<1>6. ASSUME NEW i \in 1..n
      PROVE  SumOn(lens, 1..i) = SumOn(lens, 1..(i - 1)) + Len(ss[i])
  <2>1. SumOn(lens, 1..i) = SumOn(lens, 1..(i - 1)) + lens[i]
    BY <1>1, <1>3, SumTakesLast
  <2> QED BY <1>2, <2>1
<1>7. ASSUME NEW i \in 0..n
      PROVE  SumOn(lens, 1..i) \in Nat
  <2> DEFINE f == [x \in 1..i |-> lens[x]]
  <2>1. f \in [1..i -> Nat] /\ IsFiniteSet(1..i)
    <3>1. 1..i \in SUBSET (1..n)
      BY <1>1
    <3> QED BY <1>1, <3>1, FS_Subset
  <2> HIDE DEF f
  <2>2. SumFunction(f) \in Nat
    BY <2>1, SumIsNatural
  <2> QED BY <2>2 DEF SumOn, f
<1> QED BY <1>4, <1>5, <1>6, <1>7 DEF Offset, lens, n

LEMMA OffsetsGrow ==
  ASSUME NEW S, NEW ss \in Seq(Seq(S)), NEW i \in 0..Len(ss)
  PROVE  Offset(ss, i) <= Offset(ss, Len(ss))
<1> DEFINE n == Len(ss)
           B == {m \in i..n : ~(Offset(ss, i) <= Offset(ss, m))}
<1>1. n \in Nat /\ i \in 0..n /\ \A m \in 0..n : Offset(ss, m) \in Nat
  BY OffsetSteps
<1>2. \A m \in 1..n : Len(ss[m]) \in Nat /\ Offset(ss, m) = Offset(ss, m - 1) + Len(ss[m])
  <2>1. \A m \in 1..n : ss[m] \in Seq(S)
    OBVIOUS
  <2> QED BY <2>1, OffsetSteps
<1> HIDE DEF n
<1> SUFFICES ASSUME B # {} PROVE FALSE
  BY <1>1 DEF n
<1>3. PICK m \in B : \A d \in B : m <= d
  <2>1. B \subseteq Nat
    BY <1>1
  <2> HIDE DEF B
  <2> QED BY <2>1, LeastNatural
<1>4. m # i
  BY <1>1, <1>3
<1>5. m \in 1..n /\ m - 1 \in 0..n /\ m - 1 \in i..n /\ m - 1 \notin B
  BY <1>1, <1>3, <1>4
<1>6. Offset(ss, i) <= Offset(ss, m - 1)
  BY <1>5
<1>7. /\ Offset(ss, m) = Offset(ss, m - 1) + Len(ss[m]) /\ Len(ss[m]) \in Nat
      /\ Offset(ss, m - 1) \in Nat /\ Offset(ss, i) \in Nat
  BY <1>1, <1>2, <1>5
<1>8. Offset(ss, i) <= Offset(ss, m)
  BY <1>6, <1>7
<1> QED BY <1>3, <1>8

\* Each element of each sequence has its place among them all.
LEMMA FlattenPlaces ==
  ASSUME NEW S, NEW ss \in Seq(Seq(S))
  PROVE  /\ FlattenSeq(ss) \in Seq(S)
         /\ Len(FlattenSeq(ss)) = Offset(ss, Len(ss))
         /\ \A i \in 1..Len(ss) : \A j \in 1..Len(ss[i]) :
              /\ Offset(ss, i - 1) + j \in 1..Len(FlattenSeq(ss))
              /\ FlattenSeq(ss)[Offset(ss, i - 1) + j] = ss[i][j]
<1> DEFINE n == Len(ss)
<1>1. n \in Nat
  OBVIOUS
<1>2. CASE n = 0
  <2>1. FlattenSeq(ss) = ss /\ ss = <<>>
    BY <1>2 DEF FlattenSeq
  <2>2. Offset(ss, n) = 0
    BY <1>2, OffsetSteps
  <2> QED BY <1>2, <2>1, <2>2
<1>3. CASE n # 0
  <2>1. PICK flat : LaidOut(ss, n, flat) /\ FlattenSeq(ss) = flat[n]
    BY <1>1, <1>3, FlattenUnfolds
  <2> DEFINE Good(m) == /\ flat[m] \in Seq(S) /\ Len(flat[m]) = Offset(ss, m)
                        /\ \A i \in 1..m : \A j \in 1..Len(ss[i]) :
                             /\ Offset(ss, i - 1) + j \in 1..Offset(ss, m)
                             /\ flat[m][Offset(ss, i - 1) + j] = ss[i][j]
  <2>2. ASSUME NEW m \in 1..n, m # 1 => Good(m - 1)
        PROVE  Good(m)
    <3> DEFINE o == Offset(ss, m - 1)
    <3>1. /\ ss[m] \in Seq(S) /\ Len(ss[m]) \in Nat
          /\ o \in Nat /\ Offset(ss, m) = o + Len(ss[m]) /\ Offset(ss, 0) = 0
      <4>1. m \in 1..n /\ m - 1 \in 0..n
        BY <1>1
      <4>2. ss[m] \in Seq(S)
        OBVIOUS
      <4> QED BY <4>1, <4>2, OffsetSteps
    <3>2. CASE m = 1
      <4>0. o = 0
        BY <3>1, <3>2
      <4>1. flat[m] = ss[m] /\ o = 0
        BY <2>1, <3>2, <4>0 DEF LaidOut
      <4>2. ASSUME NEW i \in 1..m, NEW j \in 1..Len(ss[i])
            PROVE  /\ Offset(ss, i - 1) + j \in 1..Offset(ss, m)
                   /\ flat[m][Offset(ss, i - 1) + j] = ss[i][j]
        <5>1. i = m
          BY <3>2
        <5>2. Offset(ss, i - 1) + j = j
          BY <4>1, <5>1
        <5> HIDE DEF o
        <5> QED BY <3>1, <4>1, <5>1, <5>2
      <4> QED BY <3>1, <4>1, <4>2
    <3>3. CASE m # 1
      <4> DEFINE p == flat[m - 1]
      <4>1. flat[m] = p \o ss[m]
        BY <2>1, <3>3 DEF LaidOut
      <4>2. p \in Seq(S) /\ Len(p) = o
        BY <2>2, <3>3
      <4>3. \A i \in 1..(m - 1) : \A j \in 1..Len(ss[i]) :
              Offset(ss, i - 1) + j \in 1..o /\ p[Offset(ss, i - 1) + j] = ss[i][j]
        BY <2>2, <3>3
      <4> HIDE DEF p, o
      <4>4. /\ flat[m] \in Seq(S) /\ Len(flat[m]) = o + Len(ss[m])
            /\ \A k \in 1..(o + Len(ss[m])) :
                 flat[m][k] = IF k <= o THEN p[k] ELSE ss[m][k - o]
        BY <3>1, <4>1, <4>2, ConcatProperties
      <4>5. ASSUME NEW i \in 1..m, NEW j \in 1..Len(ss[i])
            PROVE  /\ Offset(ss, i - 1) + j \in 1..Offset(ss, m)
                   /\ flat[m][Offset(ss, i - 1) + j] = ss[i][j]
        <5>1. CASE i = m
          <6>1. Offset(ss, i - 1) + j = o + j
            BY <5>1 DEF o
          <6>2. o + j \in 1..(o + Len(ss[m])) /\ ~(o + j <= o) /\ (o + j) - o = j
            BY <3>1, <5>1
          <6> QED BY <3>1, <4>4, <5>1, <6>1, <6>2
        <5>2. CASE i # m
          <6> DEFINE k == Offset(ss, i - 1) + j
          <6>1. i \in 1..(m - 1)
            BY <5>2
          <6>2. k \in 1..o /\ p[k] = ss[i][j]
            BY <4>3, <6>1
          <6> HIDE DEF k
          <6>3. k \in 1..(o + Len(ss[m])) /\ k <= o
            BY <3>1, <6>2
          <6>4. flat[m][k] = ss[i][j] /\ k \in 1..Offset(ss, m)
            BY <3>1, <4>4, <6>2, <6>3
          <6> QED BY <6>4 DEF k
        <5> QED BY <5>1, <5>2
      <4> QED BY <3>1, <4>4, <4>5
    <3> QED BY <3>2, <3>3
  <2>3. Good(n)
    <3> DEFINE B == {m \in 1..n : ~Good(m)}
    <3>0. n \in 1..n
      BY <1>1, <1>3
    <3> HIDE DEF Good, n
    <3> SUFFICES ASSUME B # {} PROVE FALSE
      BY <3>0
    <3>1. PICK m \in B : \A k \in B : m <= k
      <4>1. B \subseteq Nat
        OBVIOUS
      <4> HIDE DEF B
      <4> QED BY <4>1, LeastNatural
    <3>2. m # 1 => m - 1 \in 1..n /\ m - 1 \notin B
      <4>1. m \in 1..n /\ m \in Nat
        BY <1>1, <3>1
      <4>2. m # 1 => m - 1 \in 1..n /\ ~(m <= m - 1)
        BY <1>1, <4>1
      <4> HIDE DEF B
      <4> QED BY <3>1, <4>2
    <3> QED BY <2>2, <3>1, <3>2
  <2> QED BY <2>1, <2>3
<1> QED BY <1>2, <1>3

\* And each place is that of one of them.
LEMMA OffsetCovers ==
  ASSUME NEW S, NEW ss \in Seq(Seq(S)), NEW k \in 1..Offset(ss, Len(ss))
  PROVE  \E i \in 1..Len(ss) : \E j \in 1..Len(ss[i]) : k = Offset(ss, i - 1) + j
<1> DEFINE n == Len(ss)
           B == {i \in 0..n : k <= Offset(ss, i)}
<1>1. n \in Nat /\ \A i \in 0..n : Offset(ss, i) \in Nat
  BY OffsetSteps
<1>2. n \in B
  BY <1>1
<1>3. PICK i \in B : \A m \in B : i <= m
  <2>1. B \subseteq Nat
    OBVIOUS
  <2> HIDE DEF B
  <2> QED BY <1>2, <2>1, LeastNatural
<1>4. i # 0
  BY <1>1, <1>3, OffsetSteps
<1>5. i \in 1..n /\ i - 1 \in 0..n /\ i - 1 \notin B
  BY <1>1, <1>3, <1>4
<1>6. Offset(ss, i) = Offset(ss, i - 1) + Len(ss[i])
  BY <1>5, OffsetSteps
<1>7. Len(ss[i]) \in Nat
  <2>1. ss[i] \in Seq(S)
    BY <1>5
  <2> QED BY <2>1
<1> DEFINE low  == Offset(ss, i - 1)
           high == Offset(ss, i)
           len  == Len(ss[i])
<1>8. /\ low \in Nat /\ high = low + len /\ len \in Nat /\ k \in Nat
      /\ k <= high /\ ~(k <= low)
  <2>1. low \in Nat /\ k \in Nat
    BY <1>1, <1>5
  <2>2. k <= high
    BY <1>3
  <2>3. ~(k <= low)
    BY <1>5
  <2> QED BY <1>6, <1>7, <2>1, <2>2, <2>3
<1>9. \E j \in 1..len : k = low + j
  <2> HIDE DEF low, high, len
  <2>1. k - low \in 1..len /\ k = low + (k - low)
    BY <1>8
  <2> QED BY <2>1
<1> HIDE DEF B
<1> QED BY <1>5, <1>9

\* Two lists of sequences of the same lengths go together element by element.
Together(ss, tt, k) ==
  \E i \in 1..Len(ss) : \E j \in 1..Len(ss[i]) :
    FlattenSeq(ss)[k] = ss[i][j] /\ FlattenSeq(tt)[k] = tt[i][j]

LEMMA FlattenTogether ==
  ASSUME NEW S, NEW ss \in Seq(Seq(S)), NEW T, NEW tt \in Seq(Seq(T)),
         Len(ss) = Len(tt), \A i \in 1..Len(ss) : Len(ss[i]) = Len(tt[i])
  PROVE  /\ Len(FlattenSeq(ss)) = Len(FlattenSeq(tt))
         /\ \A k \in 1..Len(FlattenSeq(ss)) : Together(ss, tt, k)
<1>1. Lens(ss) = Lens(tt)
  <2>1. DOMAIN ss = DOMAIN tt /\ DOMAIN ss = 1..Len(ss)
    OBVIOUS
  <2> QED BY <2>1 DEF Lens
<1>2. \A i : Offset(ss, i) = Offset(tt, i)
  BY <1>1 DEF Offset
<1>3. Len(FlattenSeq(ss)) = Offset(ss, Len(ss)) /\ Len(FlattenSeq(tt)) = Offset(tt, Len(tt))
  BY FlattenPlaces
<1>4. ASSUME NEW k \in 1..Len(FlattenSeq(ss))
      PROVE  Together(ss, tt, k)
  <2>1. PICK i \in 1..Len(ss) : \E j \in 1..Len(ss[i]) : k = Offset(ss, i - 1) + j
    BY <1>3, OffsetCovers
  <2>2. PICK j \in 1..Len(ss[i]) : k = Offset(ss, i - 1) + j
    BY <2>1
  <2>3. FlattenSeq(ss)[k] = ss[i][j]
    BY <2>2, FlattenPlaces
  <2>4. FlattenSeq(tt)[k] = tt[i][j]
    <3>1. i \in 1..Len(tt) /\ j \in 1..Len(tt[i]) /\ k = Offset(tt, i - 1) + j
      BY <1>2, <2>2
    <3> QED BY <3>1, FlattenPlaces
  <2> QED BY <2>3, <2>4 DEF Together
<1> QED BY <1>2, <1>3, <1>4

\* Each element of each sequence is among them all.
LEMMA FlattenKeeps ==
  ASSUME NEW S, NEW ss \in Seq(Seq(S)), NEW k \in DOMAIN FlattenSeq(ss)
  PROVE  \E i \in DOMAIN ss : \E j \in DOMAIN ss[i] : FlattenSeq(ss)[k] = ss[i][j]
<1>1. DOMAIN ss = 1..Len(ss) /\ \A i \in 1..Len(ss) : DOMAIN ss[i] = 1..Len(ss[i])
  <2>1. \A i \in 1..Len(ss) : ss[i] \in Seq(S)
    OBVIOUS
  <2> QED BY <2>1
<1>2. k \in 1..Offset(ss, Len(ss))
  <2> DEFINE F == FlattenSeq(ss)
  <2>1. F \in Seq(S) /\ Len(F) = Offset(ss, Len(ss)) /\ k \in DOMAIN F
    BY FlattenPlaces
  <2> HIDE DEF F
  <2> QED BY <2>1
<1>3. PICK i \in 1..Len(ss) : \E j \in 1..Len(ss[i]) : k = Offset(ss, i - 1) + j
  BY <1>2, OffsetCovers
<1>4. PICK j \in 1..Len(ss[i]) : k = Offset(ss, i - 1) + j
  BY <1>3
<1>5. FlattenSeq(ss)[k] = ss[i][j]
  BY <1>4, FlattenPlaces
<1> QED BY <1>1, <1>5

\* A sum over them all is the sum of the sums over each sequence.
LEMMA FlattenSum ==
  ASSUME NEW S, NEW ss \in Seq(Seq(S)), NEW w \in [S -> Int]
  PROVE  /\ SumFunction([k \in DOMAIN FlattenSeq(ss) |-> w[FlattenSeq(ss)[k]]]) =
              SumFunction([i \in DOMAIN ss |-> SumFunction([j \in DOMAIN ss[i] |-> w[ss[i][j]]])])
         /\ \A i \in DOMAIN ss : SumFunction([j \in DOMAIN ss[i] |-> w[ss[i][j]]]) \in Int
<1> DEFINE n == Len(ss)
           F == FlattenSeq(ss)
           N == Len(F)
           W == [k \in DOMAIN F |-> w[F[k]]]
           Block(i) == [j \in DOMAIN ss[i] |-> w[ss[i][j]]]
           sums == [i \in DOMAIN ss |-> SumFunction(Block(i))]
           Holds(m) == SumOn(W, 1..Offset(ss, m)) = SumOn(sums, 1..m)
           B == {m \in 0..n : ~Holds(m)}
<1>1. /\ n \in Nat /\ DOMAIN ss = 1..n /\ IsFiniteSet(1..n)
      /\ \A i \in 1..n : ss[i] \in Seq(S) /\ DOMAIN ss[i] = 1..Len(ss[i]) /\ Len(ss[i]) \in Nat
  <2>1. n \in Nat /\ DOMAIN ss = 1..n
    OBVIOUS
  <2>2. IsFiniteSet(1..n)
    BY <2>1, FS_Interval
  <2>3. \A i \in 1..n : ss[i] \in Seq(S)
    OBVIOUS
  <2> HIDE DEF n
  <2> QED BY <2>1, <2>2, <2>3
<1>2. F \in Seq(S) /\ N = Offset(ss, n) /\ N \in Nat /\ DOMAIN F = 1..N
  <2>1. F \in Seq(S) /\ N = Offset(ss, n)
    BY FlattenPlaces
  <2> HIDE DEF F
  <2> QED BY <2>1
<1>3. W \in [1..N -> Int]
  <2> HIDE DEF F, N
  <2>1. \A k \in 1..N : F[k] \in S
    BY <1>2
  <2> QED BY <1>2, <2>1
<1>4. ASSUME NEW i \in 1..n
      PROVE  Block(i) \in [1..Len(ss[i]) -> Int] /\ SumFunction(Block(i)) \in Int
  <2>1. Block(i) \in [1..Len(ss[i]) -> Int] /\ IsFiniteSet(1..Len(ss[i]))
    <3>1. \A j \in 1..Len(ss[i]) : ss[i][j] \in S
      BY <1>1
    <3>2. IsFiniteSet(1..Len(ss[i]))
      BY <1>1, FS_Interval
    <3> QED BY <1>1, <3>1, <3>2
  <2> HIDE DEF Block
  <2>2. SumFunction(Block(i)) \in Int
    <3> DEFINE D == 1..Len(ss[i])
               f == Block(i)
    <3>1. IsFiniteSet(D) /\ f \in [D -> Int]
      BY <2>1
    <3> HIDE DEF D, f
    <3>2. SumFunction(f) \in Int
      BY <3>1, SumIsInteger
    <3> QED BY <3>2 DEF f
  <2> QED BY <2>1, <2>2
<1>5. sums \in [1..n -> Int]
  <2> HIDE DEF Block
  <2> QED BY <1>1, <1>4
<1>6. Holds(0)
  <2>1. Offset(ss, 0) = 0 /\ 1..0 = {}
    BY OffsetSteps
  <2>2. IsFiniteSet(1..N)
    BY <1>2, FS_Interval
  <2> DEFINE DN == 1..N
             Dn == 1..n
  <2>3. W \in [DN -> Int] /\ IsFiniteSet(DN) /\ sums \in [Dn -> Int] /\ IsFiniteSet(Dn)
    BY <1>1, <1>3, <1>5, <2>2
  <2> HIDE DEF W, sums, DN, Dn
  <2>4. SumOn(W, {}) = 0 /\ SumOn(sums, {}) = 0
    BY <2>3, SumSplits
  <2> QED BY <2>1, <2>4
<1>7. ASSUME NEW m \in 1..n, Holds(m - 1)
      PROVE  Holds(m)
  <2> DEFINE o == Offset(ss, m - 1)
             len == Len(ss[m])
             part == [j \in 1..len |-> W[o + j]]
  <2>1. o \in Nat /\ len \in Nat /\ Offset(ss, m) = o + len /\ o + len <= N
    <3>1. m - 1 \in 0..n /\ m \in 0..n
      BY <1>1
    <3>2. o \in Nat /\ Offset(ss, m) = o + len /\ Offset(ss, m) \in Nat
      BY <1>1, <3>1, OffsetSteps
    <3>3. len \in Nat
      BY <1>1
    <3>4. len # 0 => o + len \in 1..N
      <4> HIDE DEF F
      <4>1. len # 0 => len \in 1..Len(ss[m])
        BY <3>3
      <4>2. \A j \in 1..Len(ss[m]) : Offset(ss, m - 1) + j \in 1..Len(F)
        BY FlattenPlaces DEF F
      <4> QED BY <4>1, <4>2
    <3>5. len = 0 => o <= N
      <4>1. Offset(ss, m) <= Offset(ss, n)
        BY <1>1, OffsetsGrow
      <4> QED BY <1>2, <3>2, <3>3, <4>1
    <3> HIDE DEF F, N, o, len
    <3> QED BY <1>2, <3>2, <3>3, <3>4, <3>5
  <2>2. part = Block(m)
    <3>1. \A j \in 1..len : o + j \in 1..N /\ F[o + j] = ss[m][j]
      <4> HIDE DEF F
      <4> QED BY FlattenPlaces DEF F
    <3>2. \A j \in 1..len : W[o + j] = w[ss[m][j]]
      <4> HIDE DEF F, N, o
      <4> QED BY <1>2, <3>1
    <3> HIDE DEF W, o
    <3> QED BY <1>1, <3>2
  <2>3. SumOn(W, 1..(o + len)) = SumOn(W, 1..o) + SumFunction(part)
    <3>1. N \in Nat /\ W \in [1..N -> Int] /\ o \in Nat /\ len \in Nat /\ o + len <= N
      BY <1>2, <1>3, <2>1
    <3> HIDE DEF W, N, o, len
    <3>2. \A a, b \in Nat :
            a + b <= N =>
              SumOn(W, 1..(a + b)) = SumOn(W, 1..a) + SumFunction([j \in 1..b |-> W[a + j]])
      BY <3>1, SumOfConcat, Zenon
    <3> QED BY <3>1, <3>2, Zenon
  <2>4. SumOn(sums, 1..m) = SumOn(sums, 1..(m - 1)) + sums[m]
    <3> HIDE DEF sums
    <3> QED BY <1>1, <1>5, SumTakesLast
  <2>5. sums[m] = SumFunction(Block(m))
    <3> HIDE DEF Block
    <3> QED BY <1>1
  <2> HIDE DEF sums, part, Block, W
  <2> QED BY <1>7, <2>1, <2>2, <2>3, <2>4, <2>5
<1>8. Holds(n)
  <2> HIDE DEF Holds, n
  <2> SUFFICES ASSUME B # {} PROVE FALSE
    BY <1>1
  <2>1. PICK c \in B : \A d \in B : c <= d
    <3>1. B \subseteq Nat
      OBVIOUS
    <3> HIDE DEF B
    <3> QED BY <3>1, LeastNatural
  <2>2. c # 0
    BY <1>6, <2>1
  <2>3. c \in 1..n /\ c - 1 \in 0..n /\ ~(c <= c - 1)
    BY <1>1, <2>1, <2>2
  <2> QED BY <1>7, <2>1, <2>3
<1>9. SumFunction(W) = SumOn(W, 1..N) /\ SumFunction(sums) = SumOn(sums, 1..n)
  <2> DEFINE DN == 1..N
             Dn == 1..n
  <2>2. IsFiniteSet(1..N)
    BY <1>2, FS_Interval
  <2>3. W \in [DN -> Int] /\ IsFiniteSet(DN) /\ sums \in [Dn -> Int] /\ IsFiniteSet(Dn)
    BY <1>1, <1>3, <1>5, <2>2
  <2> HIDE DEF W, sums, DN, Dn
  <2>4. SumFunction(W) = SumOn(W, DN) /\ SumFunction(sums) = SumOn(sums, Dn)
    BY <2>3, SumSplits
  <2> QED BY <2>4 DEF DN, Dn
<1>10. SumFunction(W) = SumFunction(sums) /\ \A i \in DOMAIN ss : SumFunction(Block(i)) \in Int
  <2> HIDE DEF W, sums, Block, N
  <2> QED BY <1>1, <1>2, <1>4, <1>8, <1>9
<1> HIDE DEF W, sums, Block
<1> QED BY <1>10 DEF W, sums, Block, F

\* Empty sequences at either end do not count.
LEMMA FlattenTrim ==
  ASSUME NEW S, NEW ss \in Seq(Seq(S)), NEW a \in 1..Len(ss), NEW b \in a..Len(ss),
         \A i \in 1..Len(ss) : i \notin a..b => ss[i] = <<>>
  PROVE  FlattenSeq(SubSeq(ss, a, b)) = FlattenSeq(ss)
<1> DEFINE n == Len(ss)
           tt == SubSeq(ss, a, b)
           c == b - a + 1
<1>1. n \in Nat /\ a \in 1..n /\ b \in a..n /\ c \in Nat /\ c \in 1..n /\ a + c = b + 1
  OBVIOUS
<1>2. /\ tt \in Seq(Seq(S)) /\ Len(tt) = c
      /\ \A i \in 1..c : tt[i] = ss[a - 1 + i] /\ a - 1 + i \in 1..n
  <2>1. tt \in Seq(Seq(S)) /\ Len(tt) = c
    BY <1>1, SubSeqProperties
  <2>2. \A i \in 1..c : tt[i] = ss[a + i - 1] /\ a + i - 1 = a - 1 + i /\ a - 1 + i \in 1..n
    BY <1>1, SubSeqProperties
  <2> HIDE DEF tt, c
  <2> QED BY <2>1, <2>2
<1>3. /\ \A i \in 0..n : Offset(ss, i) \in Nat
      /\ \A i \in 1..n : Offset(ss, i) = Offset(ss, i - 1) + Len(ss[i])
      /\ Offset(ss, 0) = 0
  BY OffsetSteps
<1>4. \A i \in 1..n : i \notin a..b => Offset(ss, i) = Offset(ss, i - 1)
  <2> SUFFICES ASSUME NEW i \in 1..n, i \notin a..b
               PROVE  Offset(ss, i) = Offset(ss, i - 1)
    OBVIOUS
  <2>1. ss[i] = <<>>
    OBVIOUS
  <2>2. Len(ss[i]) = 0
    BY <2>1
  <2>3. i - 1 \in 0..n
    BY <1>1
  <2>4. Offset(ss, i) = Offset(ss, i - 1) + Len(ss[i]) /\ Offset(ss, i - 1) \in Nat
    BY <1>3, <2>3
  <2> HIDE DEF n
  <2> QED BY <2>2, <2>4
<1> HIDE DEF n, tt, c
<1>5. \A i \in 0..(a - 1) : Offset(ss, i) = 0
  <2> DEFINE B == {i \in 0..(a - 1) : Offset(ss, i) # 0}
  <2> SUFFICES ASSUME B # {} PROVE FALSE
    OBVIOUS
  <2>1. PICK m \in B : \A d \in B : m <= d
    <3>1. B \subseteq Nat
      BY <1>1
    <3> HIDE DEF B
    <3> QED BY <3>1, LeastNatural
  <2>2. m # 0
    BY <1>3, <2>1
  <2>3. m \in 1..n /\ m - 1 \in 0..(a - 1) /\ m - 1 \notin B /\ m \notin a..b
    BY <1>1, <2>1, <2>2
  <2> QED BY <1>4, <2>1, <2>3
<1>6. \A i \in b..n : Offset(ss, i) = Offset(ss, b)
  <2> DEFINE B == {i \in b..n : Offset(ss, i) # Offset(ss, b)}
  <2> SUFFICES ASSUME B # {} PROVE FALSE
    OBVIOUS
  <2>1. PICK m \in B : \A d \in B : m <= d
    <3>1. B \subseteq Nat
      BY <1>1
    <3> HIDE DEF B
    <3> QED BY <3>1, LeastNatural
  <2>2. m # b
    BY <2>1
  <2>3. m \in 1..n /\ m - 1 \in b..n /\ m - 1 \notin B /\ m \notin a..b
    BY <1>1, <2>1, <2>2
  <2> QED BY <1>4, <2>1, <2>3
<1>7. \A i \in 0..c : Offset(tt, i) = Offset(ss, a - 1 + i)
  <2> DEFINE B == {i \in 0..c : Offset(tt, i) # Offset(ss, a - 1 + i)}
  <2> SUFFICES ASSUME B # {} PROVE FALSE
    OBVIOUS
  <2>1. PICK m \in B : \A d \in B : m <= d
    <3>1. B \subseteq Nat
      BY <1>1
    <3> HIDE DEF B
    <3> QED BY <3>1, LeastNatural
  <2>2. m # 0
    <3>1. Offset(tt, 0) = 0
      BY <1>2, OffsetSteps
    <3>2. a - 1 + 0 = a - 1 /\ a - 1 \in 0..(a - 1)
      BY <1>1
    <3> QED BY <1>5, <2>1, <3>1, <3>2
  <2>3. /\ m \in 1..c /\ m - 1 \in 0..c /\ m - 1 \notin B
        /\ a - 1 + m \in 1..n /\ (a - 1 + m) - 1 = a - 1 + (m - 1)
    BY <1>1, <2>1, <2>2
  <2>4. Offset(tt, m) = Offset(tt, m - 1) + Len(tt[m])
    BY <1>2, <2>3, OffsetSteps
  <2>5. Offset(ss, a - 1 + m) = Offset(ss, (a - 1 + m) - 1) + Len(ss[a - 1 + m])
    BY <1>3, <2>3
  <2> QED BY <1>2, <2>1, <2>3, <2>4, <2>5
<1> DEFINE F == FlattenSeq(ss)
           G == FlattenSeq(tt)
<1>8. /\ F \in Seq(S) /\ Len(F) = Offset(ss, n) /\ G \in Seq(S) /\ Len(G) = Offset(tt, c)
  BY <1>2, FlattenPlaces DEF n
<1>9. Len(F) = Len(G)
  <2>1. a - 1 + c = b /\ c \in 0..c /\ n \in b..n
    BY <1>1
  <2>2. Offset(tt, c) = Offset(ss, b) /\ Offset(ss, n) = Offset(ss, b)
    BY <1>6, <1>7, <2>1
  <2> QED BY <1>8, <2>2
<1>10. ASSUME NEW k \in 1..Len(G)
       PROVE  F[k] = G[k]
  <2>1. k \in 1..Offset(tt, Len(tt))
    BY <1>2, <1>8
  <2>2. PICK i \in 1..Len(tt) : \E j \in 1..Len(tt[i]) : k = Offset(tt, i - 1) + j
    BY <1>2, <2>1, OffsetCovers
  <2>3. PICK j \in 1..Len(tt[i]) : k = Offset(tt, i - 1) + j
    BY <2>2
  <2>4. G[k] = tt[i][j]
    <3> HIDE DEF G
    <3>1. tt \in Seq(Seq(S)) /\ i \in 1..Len(tt) /\ j \in 1..Len(tt[i])
      BY <1>2
    <3>2. FlattenSeq(tt)[Offset(tt, i - 1) + j] = tt[i][j]
      BY <3>1, FlattenPlaces
    <3> QED BY <2>3, <3>2 DEF G
  <2>5. tt[i] = ss[a - 1 + i] /\ a - 1 + i \in 1..n
    BY <1>2
  <2>6. Offset(tt, i - 1) = Offset(ss, (a - 1 + i) - 1)
    <3>1. i - 1 \in 0..c /\ a - 1 + (i - 1) = (a - 1 + i) - 1
      BY <1>1, <1>2
    <3> QED BY <1>7, <3>1
  <2>7. F[k] = ss[a - 1 + i][j]
    <3> DEFINE p == a - 1 + i
    <3>1. p \in 1..Len(ss) /\ j \in 1..Len(ss[p]) /\ k = Offset(ss, p - 1) + j
      BY <2>3, <2>5, <2>6 DEF n
    <3> HIDE DEF p, F
    <3>2. F[k] = ss[p][j]
      BY <3>1, FlattenPlaces DEF F
    <3> QED BY <3>2 DEF p
  <2> QED BY <2>4, <2>5, <2>7
<1> HIDE DEF F, G
<1>11. F = G
  BY <1>8, <1>9, <1>10, SeqEqual
<1> QED BY <1>11 DEF F, G, tt

\* A short sequence that is not empty, and one with a suffix.
LEMMA OneLong ==
  ASSUME NEW S, NEW s \in Seq(S), s # <<>>, Len(s) <= 1
  PROVE  Len(s) = 1
<1>1. Len(s) \in Nat \ {0}
  BY EmptySeq, Zenon
<1> QED BY <1>1

LEMMA Suffixed ==
  ASSUME NEW S, NEW s \in Seq(S), Len(s) = 1, NEW x \in S
  PROVE  Len(Append(s, x)) = 2 /\ Append(s, x)[1] = s[1] /\ Append(s, x)[2] = x
<1>1. Len(Append(s, x)) = Len(s) + 1 /\ Append(s, x)[Len(s) + 1] = x
  BY AppendProperties, Zenon
<1>2. ASSUME NEW i \in 1..Len(s) PROVE Append(s, x)[i] = s[i]
  OBVIOUS
<1>3. Len(s) + 1 = 2 /\ 1 \in 1..Len(s)
  OBVIOUS
<1>4. Append(s, x)[1] = s[1]
  BY <1>2, <1>3, Zenon
<1>5. Append(s, x)[2] = x /\ Len(Append(s, x)) = 2
  BY <1>1, <1>3, Zenon
<1> QED BY <1>4, <1>5, Zenon
=============================================================================
