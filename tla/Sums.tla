--------------------------------- MODULE Sums ---------------------------------
(***************************************************************************)
(* Sums of integers over finite sets, as FiniteSetsExt defines them: a     *)
(* fold that takes a chosen element at a time.  That the fold exists, and  *)
(* what a change of one summand does to the sum, is shown without an       *)
(* induction rule that takes an operator: by a least counterexample.       *)
(***************************************************************************)
EXTENDS Integers, FiniteSetsExt, FiniteSetTheorems, WellFoundedInduction, TLAPS

\* The element that the fold takes.
First(s) == CHOOSE x \in s : TRUE

\* g adds up f over every subset of S.
IsSum(g, f, S) ==
  g = [s \in SUBSET S |-> IF s = {} THEN 0 ELSE f[First(s)] + g[s \ {First(s)}]]

\* The fold is a function that is chosen.
LEMMA SumIsChosen ==
  ASSUME NEW f, NEW S
  PROVE  MapThenSumSet(LAMBDA x : f[x], S) = (CHOOSE g : IsSum(g, f, S))[S]
BY DEF MapThenSumSet, MapThenFoldSet, IsSum, First

\* A set of numbers has a least one.
LEMMA NatMin ==
  ASSUME NEW T, T \subseteq Nat, T # {}
  PROVE  \E n \in T : \A m \in T : ~(m < n)
<1> DEFINE R == {ss \in Nat \X Nat : ss[1] < ss[2]}
<1>1. IsWellFoundedOn(R, Nat)
  BY NatLessThanWellFounded DEF OpToRel
<1> HIDE DEF R
<1>2. PICK n \in T : \A m \in T : ~(<<m, n>> \in R)
  BY <1>1, WFMin, Zenon
<1>3. \A m \in T : ~(m < n)
  BY <1>2 DEF R
<1> QED BY <1>3

\* The element taken is one of the set.
LEMMA Picked ==
  ASSUME NEW s, s # {}
  PROVE  First(s) \in s
BY DEF First

\* There is such a function: on the sets of at most n elements, for every n.
LEMMA SumExists ==
  ASSUME NEW f, NEW S, IsFiniteSet(S)
  PROVE  \E g : IsSum(g, f, S)
<1> DEFINE Small(n) == {s \in SUBSET S : Cardinality(s) <= n}
           Step(g, s) == IF s = {} THEN 0 ELSE f[First(s)] + g[s \ {First(s)}]
           Good(n) == \E g : g = [s \in Small(n) |-> Step(g, s)]
           Bad == {n \in Nat : ~Good(n)}
<1>1. \A s \in SUBSET S : /\ IsFiniteSet(s)
                          /\ Cardinality(s) \in Nat
                          /\ Cardinality(s) <= Cardinality(S)
  BY FS_Subset, FS_CardinalityType
<1>2. \A s \in SUBSET S : s # {} =>
        /\ s \ {First(s)} \in SUBSET S
        /\ Cardinality(s \ {First(s)}) = Cardinality(s) - 1
  <2> SUFFICES ASSUME NEW s \in SUBSET S, s # {}
               PROVE  /\ s \ {First(s)} \in SUBSET S
                      /\ Cardinality(s \ {First(s)}) = Cardinality(s) - 1
    OBVIOUS
  <2>1. First(s) \in s /\ IsFiniteSet(s)
    BY <1>1, Picked
  <2>2. Cardinality(s \ {First(s)}) = Cardinality(s) - 1
    BY <2>1, FS_RemoveElement, Zenon
  <2> QED BY <2>2
<1>3. Cardinality({}) = 0
  BY FS_EmptySet
<1>4. Good(0)
  <2> DEFINE g == [s \in Small(0) |-> 0]
  <2>1. \A s \in Small(0) : s = {}
    BY <1>1, FS_EmptySet
  <2>2. g = [s \in Small(0) |-> Step(g, s)]
    BY <2>1
  <2> QED BY <2>2
<1>5. ASSUME NEW n \in Nat, Good(n) PROVE Good(n + 1)
  <2>1. PICK g : g = [s \in Small(n) |-> Step(g, s)]
    BY <1>5
  <2> DEFINE h == [s \in Small(n + 1) |-> Step(g, s)]
  <2>2. \A s \in Small(n + 1) : s # {} => s \ {First(s)} \in Small(n)
    BY <1>1, <1>2
  <2>3. \A s \in Small(n) : g[s] = Step(g, s)
    <3> HIDE DEF Small, Step
    <3> QED BY <2>1, Zenon
  <2>7. \A s \in Small(n) : s \in Small(n + 1)
    BY <1>1
  <2>4. \A s \in Small(n) : h[s] = g[s]
    <3> HIDE DEF Small, Step
    <3> QED BY <2>3, <2>7
  <2>5. \A s \in Small(n + 1) : Step(h, s) = Step(g, s)
    <3> HIDE DEF h, Small
    <3> QED BY <2>2, <2>4
  <2>6. h = [s \in Small(n + 1) |-> Step(h, s)]
    BY <2>5
  <2> QED BY <2>6
<1> HIDE DEF Good
<1>6. Bad = {}
  <2> SUFFICES ASSUME Bad # {} PROVE FALSE
    OBVIOUS
  <2>1. PICK n \in Bad : \A m \in Bad : ~(m < n)
    BY NatMin
  <2>2. n \in Nat /\ n # 0
    BY <1>4, <2>1
  <2>3. n - 1 \in Nat /\ n - 1 \notin Bad /\ (n - 1) + 1 = n
    BY <2>1, <2>2
  <2>4. Good(n)
    BY <1>5, <2>3
  <2> QED BY <2>1, <2>4
<1>7. Good(Cardinality(S))
  BY <1>6, FS_CardinalityType
<1>8. Small(Cardinality(S)) = SUBSET S
  BY <1>1
<1> QED BY <1>7, <1>8 DEF Good, IsSum

\* What MapThenSumSet is, on the subsets of S.
Part(f, S) == CHOOSE g : IsSum(g, f, S)

\* Part, unfolded.
PartAdds(f, S) ==
  \A s \in SUBSET S :
    Part(f, S)[s] = IF s = {} THEN 0 ELSE f[First(s)] + Part(f, S)[s \ {First(s)}]

\* The chosen function adds up.
LEMMA PartUnfolds ==
  ASSUME NEW f, NEW S, IsFiniteSet(S)
  PROVE  PartAdds(f, S)
<1>1. IsSum(Part(f, S), f, S)
  BY SumExists DEF Part
<1> DEFINE g == Part(f, S)
<1> HIDE DEF g
<1> QED BY <1>1, Zenon DEF IsSum, PartAdds, g

\* What holds of the empty set, and of a set when it holds of the set without
\* the element taken, holds of every subset of a finite set.
LEMMA SubsetInduction ==
  ASSUME NEW S, IsFiniteSet(S), NEW P, {} \in P,
         \A s \in SUBSET S : (s # {} /\ s \ {First(s)} \in P) => s \in P
  PROVE  SUBSET S \subseteq P
<1> DEFINE Bad == {s \in SUBSET S : s \notin P}
           Sizes == {Cardinality(s) : s \in Bad}
<1> SUFFICES ASSUME Bad # {} PROVE FALSE
  OBVIOUS
<1>1. \A s \in SUBSET S : IsFiniteSet(s) /\ Cardinality(s) \in Nat
  BY FS_Subset, FS_CardinalityType
<1>2. Sizes # {} /\ Sizes \subseteq Nat
  BY <1>1
<1>3. PICK n \in Sizes : \A m \in Sizes : ~(m < n)
  <2> HIDE DEF Sizes
  <2> QED BY <1>2, NatMin
<1>4. PICK s \in Bad : Cardinality(s) = n
  BY <1>3
<1>5. s # {} /\ s \in SUBSET S
  BY <1>4
<1> DEFINE r == s \ {First(s)}
<1>6. r \in SUBSET S
  BY <1>5
<1>7. Cardinality(r) = Cardinality(s) - 1
  <2>1. First(s) \in s /\ IsFiniteSet(s)
    BY <1>1, <1>5, Picked
  <2> QED BY <2>1, FS_RemoveElement, Zenon
<1>8. r \in Bad
  BY <1>4, <1>5, <1>6
<1>9. Cardinality(r) \in Sizes
  BY <1>8
<1>10. Cardinality(s) \in Nat
  BY <1>1, <1>5
<1>11. Cardinality(r) < n
  BY <1>4, <1>7, <1>10
<1> QED BY <1>3, <1>9, <1>11

\* Partial sums of integers are integers.
LEMMA PartIsInt ==
  ASSUME NEW f, NEW S, IsFiniteSet(S), \A x \in S : f[x] \in Int
  PROVE  \A s \in SUBSET S : Part(f, S)[s] \in Int
<1> DEFINE P == {s \in SUBSET S : Part(f, S)[s] \in Int}
<1>0. PartAdds(f, S)
  BY PartUnfolds
<1>1. {} \in P
  <2>1. Part(f, S)[{}] = 0
    BY <1>0, Zenon DEF PartAdds
  <2> QED BY <2>1
<1>2. ASSUME NEW s \in SUBSET S, s # {}, s \ {First(s)} \in P PROVE s \in P
  <2>0. s \in SUBSET S /\ s # {}
    BY <1>2
  <2>1. Part(f, S)[s] = f[First(s)] + Part(f, S)[s \ {First(s)}]
    BY <1>0, <2>0, Zenon DEF PartAdds
  <2>2. f[First(s)] \in Int
    BY <1>2, Picked
  <2>3. Part(f, S)[s \ {First(s)}] \in Int
    BY <1>2
  <2> DEFINE a == f[First(s)]
             b == Part(f, S)[s \ {First(s)}]
  <2>4. a + b \in Int
    <3> HIDE DEF a, b
    <3>1. a \in Int /\ b \in Int
      BY <2>2, <2>3 DEF a, b
    <3> QED BY <3>1
  <2> QED BY <2>1, <2>4
<1> HIDE DEF P
<1>3. SUBSET S \subseteq P
  BY <1>1, <1>2, SubsetInduction
<1> QED BY <1>3 DEF P

\* A change of one summand changes the partial sums that have it.
LEMMA PartChanges ==
  ASSUME NEW f, NEW g, NEW S, IsFiniteSet(S), NEW z, NEW d \in Int,
         \A x \in S : f[x] \in Int,
         \A x \in S : g[x] = IF x = z THEN f[x] + d ELSE f[x]
  PROVE  \A s \in SUBSET S :
           Part(g, S)[s] = Part(f, S)[s] + (IF z \in s THEN d ELSE 0)
<1> DEFINE F(s) == Part(f, S)[s]
           G(s) == Part(g, S)[s]
           P == {s \in SUBSET S : G(s) = F(s) + (IF z \in s THEN d ELSE 0)}
<1>0. PartAdds(f, S) /\ PartAdds(g, S)
  BY PartUnfolds
<1>1. {} \in P
  <2>1. F({}) = 0 /\ G({}) = 0
    BY <1>0, Zenon DEF PartAdds
  <2> HIDE DEF F, G
  <2> QED BY <2>1
<1>2. ASSUME NEW s \in SUBSET S, s # {}, s \ {First(s)} \in P PROVE s \in P
  <2> DEFINE p == First(s)
             r == s \ {First(s)}
  <2>0. s \in SUBSET S /\ s # {}
    BY <1>2
  <2>1. F(s) = f[p] + F(r) /\ G(s) = g[p] + G(r)
    BY <1>0, <2>0, Zenon DEF PartAdds
  <2>2. p \in s /\ p \in S /\ f[p] \in Int /\ g[p] = IF p = z THEN f[p] + d ELSE f[p]
    BY <1>2, Picked
  <2>3. r \in SUBSET S /\ G(r) = F(r) + (IF z \in r THEN d ELSE 0)
    BY <1>2
  <2>4. F(r) \in Int
    BY <2>3, PartIsInt
  <2>5. z \in s <=> (z = p \/ z \in r)
    BY <2>2
  <2>6. p \notin r
    OBVIOUS
  <2> HIDE DEF F, G, p, r
  <2>7. G(s) = F(s) + (IF z \in s THEN d ELSE 0)
    <3> DEFINE fp == f[p]
               gp == g[p]
    <3>1. /\ fp \in Int /\ F(s) = fp + F(r) /\ G(s) = gp + G(r)
          /\ gp = IF p = z THEN fp + d ELSE fp
      BY <2>1, <2>2
    <3> HIDE DEF fp, gp
    <3>2. CASE z = p
      BY <3>1, <3>2, <2>3, <2>4, <2>5, <2>6
    <3>3. CASE z # p /\ z \in s
      BY <3>1, <3>3, <2>3, <2>4, <2>5
    <3>4. CASE z # p /\ z \notin s
      BY <3>1, <3>4, <2>3, <2>4, <2>5
    <3> QED BY <3>2, <3>3, <3>4
  <2> QED BY <2>7
<1> HIDE DEF P
<1>3. SUBSET S \subseteq P
  BY <1>1, <1>2, SubsetInduction
<1> QED BY <1>3 DEF P

\* The sum of f over S.
Sum(f, S) == MapThenSumSet(LAMBDA x : f[x], S)

\* The sum over all of S is the last partial sum.
LEMMA SumIsPart == ASSUME NEW f, NEW S PROVE Sum(f, S) = Part(f, S)[S]
BY SumIsChosen DEF Sum, Part

\* A sum of integers is an integer.
LEMMA SumIsInt ==
  ASSUME NEW f, NEW S, IsFiniteSet(S), \A x \in S : f[x] \in Int
  PROVE  Sum(f, S) \in Int
<1>1. S \in SUBSET S
  OBVIOUS
<1>2. Part(f, S)[S] \in Int
  BY <1>1, PartIsInt
<1> QED BY <1>2, SumIsPart, Zenon

\* A change of one summand changes the sum by as much.
LEMMA SumChanges ==
  ASSUME NEW f, NEW g, NEW S, IsFiniteSet(S), NEW z, NEW d \in Int,
         \A x \in S : f[x] \in Int,
         \A x \in S : g[x] = IF x = z THEN f[x] + d ELSE f[x]
  PROVE  Sum(g, S) = Sum(f, S) + (IF z \in S THEN d ELSE 0)
<1>1. S \in SUBSET S
  OBVIOUS
<1>2. Part(g, S)[S] = Part(f, S)[S] + (IF z \in S THEN d ELSE 0)
  BY <1>1, PartChanges
<1> QED BY <1>2, SumIsPart, Zenon

\* Zeros add up to zero.
LEMMA SumOfZeros ==
  ASSUME NEW f, NEW S, IsFiniteSet(S), \A x \in S : f[x] = 0
  PROVE  Sum(f, S) = 0
<1> DEFINE P == {s \in SUBSET S : Part(f, S)[s] = 0}
<1>0. PartAdds(f, S)
  BY PartUnfolds
<1>1. {} \in P
  <2>1. Part(f, S)[{}] = 0
    BY <1>0, Zenon DEF PartAdds
  <2> QED BY <2>1
<1>2. ASSUME NEW s \in SUBSET S, s # {}, s \ {First(s)} \in P PROVE s \in P
  <2>0. s \in SUBSET S /\ s # {}
    BY <1>2
  <2>1. Part(f, S)[s] = f[First(s)] + Part(f, S)[s \ {First(s)}]
    BY <1>0, <2>0, Zenon DEF PartAdds
  <2>2. f[First(s)] = 0
    BY <2>0, Picked
  <2>3. Part(f, S)[s \ {First(s)}] = 0
    BY <1>2
  <2> QED BY <2>1, <2>2, <2>3
<1> HIDE DEF P
<1>3. SUBSET S \subseteq P
  BY <1>1, <1>2, SubsetInduction
<1>4. Part(f, S)[S] = 0
  BY <1>3 DEF P
<1> QED BY <1>4, SumIsPart, Zenon

\* What holds of a set when it holds of all smaller ones holds of every subset
\* of a finite set.
LEMMA SizeInduction ==
  ASSUME NEW S, IsFiniteSet(S), NEW P,
         \A s \in SUBSET S :
           (\A r \in SUBSET S : Cardinality(r) < Cardinality(s) => r \in P) => s \in P
  PROVE  SUBSET S \subseteq P
<1> DEFINE Bad == {s \in SUBSET S : s \notin P}
           Sizes == {Cardinality(s) : s \in Bad}
<1> SUFFICES ASSUME Bad # {} PROVE FALSE
  OBVIOUS
<1>1. \A s \in SUBSET S : Cardinality(s) \in Nat
  BY FS_Subset, FS_CardinalityType
<1>2. Sizes # {} /\ Sizes \subseteq Nat
  BY <1>1
<1>3. PICK n \in Sizes : \A m \in Sizes : ~(m < n)
  <2> HIDE DEF Sizes
  <2> QED BY <1>2, NatMin
<1>4. PICK s \in Bad : Cardinality(s) = n
  BY <1>3
<1>5. \A r \in Bad : ~(Cardinality(r) < Cardinality(s))
  BY <1>3, <1>4
<1> QED BY <1>4, <1>5

\* Partial sums over a set and over a part of it are the same.
LEMMA PartsAgree ==
  ASSUME NEW f, NEW g, NEW S, IsFiniteSet(S), NEW T, T \subseteq S,
         \A x \in T : g[x] = f[x]
  PROVE  \A s \in SUBSET T : Part(f, T)[s] = Part(g, S)[s]
<1> DEFINE F(s) == Part(f, T)[s]
           G(s) == Part(g, S)[s]
           P == {s \in SUBSET T : F(s) = G(s)}
<1>0. IsFiniteSet(T)
  BY FS_Subset
<1>1. PartAdds(f, T) /\ PartAdds(g, S)
  BY <1>0, PartUnfolds
<1>2. {} \in P
  <2>1. F({}) = 0 /\ G({}) = 0
    BY <1>1, Zenon DEF PartAdds
  <2> QED BY <2>1
<1>3. ASSUME NEW s \in SUBSET T, s # {}, s \ {First(s)} \in P PROVE s \in P
  <2> DEFINE p == First(s)
             r == s \ {First(s)}
  <2>0. s \in SUBSET T /\ s # {} /\ s \in SUBSET S
    BY <1>3
  <2>1. F(s) = f[p] + F(r) /\ G(s) = g[p] + G(r)
    BY <1>1, <2>0, Zenon DEF PartAdds
  <2>2. g[p] = f[p]
    BY <2>0, Picked
  <2>3. F(r) = G(r)
    BY <1>3
  <2>4. F(s) = G(s)
    <3> HIDE DEF F, G, p, r
    <3> QED BY <2>1, <2>2, <2>3
  <2> QED BY <2>0, <2>4
<1> HIDE DEF P
<1>4. SUBSET T \subseteq P
  BY <1>0, <1>2, <1>3, SubsetInduction
<1> QED BY <1>4 DEF P

\* One element more, whichever the fold takes first, adds its summand.
LEMMA PartGrows ==
  ASSUME NEW f, NEW S, IsFiniteSet(S), \A x \in S : f[x] \in Int
  PROVE  \A s \in SUBSET S : \A x \in S \ s : Part(f, S)[s \cup {x}] = Part(f, S)[s] + f[x]
<1> DEFINE F(s) == Part(f, S)[s]
           P == {s \in SUBSET S : \A x \in S \ s : F(s \cup {x}) = F(s) + f[x]}
<1>0. PartAdds(f, S)
  BY PartUnfolds
<1>1. \A s \in SUBSET S : F(s) \in Int
  BY PartIsInt
<1>2. ASSUME NEW s \in SUBSET S,
             \A r \in SUBSET S : Cardinality(r) < Cardinality(s) => r \in P
      PROVE  s \in P
  <2> SUFFICES ASSUME NEW x \in S \ s PROVE F(s \cup {x}) = F(s) + f[x]
    OBVIOUS
  <2> DEFINE u == s \cup {x}
             y == First(u)
             r == s \ {y}
  <2>1. u \in SUBSET S /\ u # {} /\ y \in u
    BY Picked
  <2>2. F(u) = f[y] + F(u \ {y})
    BY <1>0, <2>1, Zenon DEF PartAdds
  <2> HIDE DEF y
  <2>3. CASE y = x
    <3>1. u \ {y} = s
      BY <2>3
    <3>2. F(s) \in Int /\ f[x] \in Int
      BY <1>1
    <3> DEFINE a == F(s)
               b == f[x]
    <3>3. F(u) = b + a
      BY <2>2, <2>3, <3>1, Zenon
    <3>4. b + a = a + b
      <4> HIDE DEF a, b
      <4>1. a \in Int /\ b \in Int
        BY <3>2 DEF a, b
      <4> QED BY <4>1
    <3> QED BY <3>3, <3>4, Zenon
  <2>4. CASE y # x
    <3>1. y \in s /\ y \in S
      BY <2>1, <2>4
    <3>2. /\ r \in SUBSET S /\ u \ {y} = r \cup {x} /\ r \cup {y} = s
          /\ x \in S \ r /\ y \in S \ r
      BY <2>4, <3>1
    <3>3. Cardinality(r) < Cardinality(s)
      <4>1. IsFiniteSet(s) /\ Cardinality(s) \in Nat
        BY FS_Subset, FS_CardinalityType
      <4>2. Cardinality(r) = Cardinality(s) - 1
        BY <3>1, <4>1, FS_RemoveElement, Zenon
      <4> QED BY <4>1, <4>2
    <3>4. r \in P
      BY <1>2, <3>2, <3>3
    <3>5. F(r \cup {x}) = F(r) + f[x] /\ F(r \cup {y}) = F(r) + f[y]
      BY <3>2, <3>4
    <3> DEFINE a == F(r)
               b == f[x]
               c == f[y]
    <3>6. a \in Int /\ b \in Int /\ c \in Int
      BY <1>1, <3>2
    <3>7. F(u) = c + (a + b) /\ F(s) = a + c
      BY <2>2, <3>2, <3>5, Zenon
    <3>8. c + (a + b) = (a + c) + b
      <4> HIDE DEF a, b, c
      <4> QED BY <3>6
    <3> QED BY <3>7, <3>8, Zenon
  <2> QED BY <2>3, <2>4
<1> HIDE DEF P
<1>3. SUBSET S \subseteq P
  BY <1>2, SizeInduction
<1> QED BY <1>3 DEF P

\* g has the summands that f has on S, and one more at x.
OneMore(f, g, S, x) ==
  /\ IsFiniteSet(S)
  /\ x \notin S
  /\ \A y \in S \cup {x} : g[y] \in Int
  /\ \A y \in S : g[y] = f[y]

SumIsMore(f, g, S, x) == Sum(g, S \cup {x}) = Sum(f, S) + g[x]

\* A summand more adds to the sum.
LEMMA SumGrows ==
  ASSUME NEW f, NEW g, NEW S, NEW x, OneMore(f, g, S, x)
  PROVE  SumIsMore(f, g, S, x)
<1> USE DEF OneMore
<1> DEFINE T == S \cup {x}
<1>1. IsFiniteSet(T)
  BY FS_AddElement
<1>2. S \subseteq T /\ S \in SUBSET T /\ x \in T \ S /\ S \in SUBSET S
  OBVIOUS
<1>3. \A y \in T : g[y] \in Int
  OBVIOUS
<1> HIDE DEF T
<1>4. Part(g, T)[S \cup {x}] = Part(g, T)[S] + g[x]
  BY <1>1, <1>2, <1>3, PartGrows
<1>5. Part(f, S)[S] = Part(g, T)[S]
  BY <1>1, <1>2, PartsAgree
<1>6. Sum(g, T) = Part(g, T)[T] /\ Sum(f, S) = Part(f, S)[S]
  BY SumIsPart
<1> QED BY <1>4, <1>5, <1>6, Zenon DEF T, SumIsMore

\* f and g are integers on S, and h what they give together.
Together(f, g, h, S) ==
  /\ IsFiniteSet(S)
  /\ \A x \in S : f[x] \in Int /\ g[x] \in Int /\ h[x] = f[x] + g[x]

SumsTogether(f, g, h, S) == Sum(h, S) = Sum(f, S) + Sum(g, S)

\* The sum of two functions is that of their sums.
LEMMA SumAdds ==
  ASSUME NEW f, NEW g, NEW h, NEW S, Together(f, g, h, S)
  PROVE  SumsTogether(f, g, h, S)
<1> DEFINE F(s) == Part(f, S)[s]
           G(s) == Part(g, S)[s]
           H(s) == Part(h, S)[s]
           P == {s \in SUBSET S : H(s) = F(s) + G(s)}
<1> USE DEF Together
<1>0. /\ PartAdds(f, S) /\ PartAdds(g, S) /\ PartAdds(h, S)
      /\ \A s \in SUBSET S : F(s) \in Int /\ G(s) \in Int
  BY PartUnfolds, PartIsInt
<1>1. {} \in P
  <2>1. F({}) = 0 /\ G({}) = 0 /\ H({}) = 0
    BY <1>0, Zenon DEF PartAdds
  <2> HIDE DEF F, G, H
  <2> QED BY <2>1
<1>2. ASSUME NEW s \in SUBSET S, s # {}, s \ {First(s)} \in P PROVE s \in P
  <2> DEFINE p == First(s)
             r == s \ {First(s)}
  <2>0. s \in SUBSET S /\ s # {} /\ r \in SUBSET S
    BY <1>2
  <2>1. F(s) = f[p] + F(r) /\ G(s) = g[p] + G(r) /\ H(s) = h[p] + H(r)
    BY <1>0, <2>0, Zenon DEF PartAdds
  <2>2. f[p] \in Int /\ g[p] \in Int /\ h[p] = f[p] + g[p]
    BY <2>0, Picked
  <2>3. H(r) = F(r) + G(r)
    BY <1>2
  <2>4. F(r) \in Int /\ G(r) \in Int
    BY <1>0, <2>0
  <2> HIDE DEF F, G, H, p, r
  <2>5. H(s) = F(s) + G(s)
    <3> DEFINE a == f[p]
               b == g[p]
               c == h[p]
    <3>1. a \in Int /\ b \in Int /\ c = a + b
      BY <2>2
    <3>2. F(s) = a + F(r) /\ G(s) = b + G(r) /\ H(s) = c + H(r)
      BY <2>1
    <3> HIDE DEF a, b, c
    <3> QED BY <2>3, <2>4, <3>1, <3>2
  <2> QED BY <2>0, <2>5
<1> HIDE DEF P
<1>3. SUBSET S \subseteq P
  BY <1>1, <1>2, SubsetInduction
<1>4. H(S) = F(S) + G(S)
  BY <1>3 DEF P
<1>5. Sum(f, S) = F(S) /\ Sum(g, S) = G(S) /\ Sum(h, S) = H(S)
  BY SumIsPart
<1> QED BY <1>4, <1>5, Zenon DEF SumsTogether

\* Amounts that are not negative add up to one.
LEMMA SumIsNat ==
  ASSUME NEW f, NEW S, IsFiniteSet(S), \A x \in S : f[x] \in Nat
  PROVE  Sum(f, S) \in Nat
<1> DEFINE P == {s \in SUBSET S : Part(f, S)[s] \in Nat}
<1>0. PartAdds(f, S)
  BY PartUnfolds
<1>1. {} \in P
  <2>1. Part(f, S)[{}] = 0
    BY <1>0, Zenon DEF PartAdds
  <2> QED BY <2>1
<1>2. ASSUME NEW s \in SUBSET S, s # {}, s \ {First(s)} \in P PROVE s \in P
  <2> DEFINE a == f[First(s)]
             b == Part(f, S)[s \ {First(s)}]
  <2>0. s \in SUBSET S /\ s # {}
    BY <1>2
  <2>1. Part(f, S)[s] = a + b
    BY <1>0, <2>0, Zenon DEF PartAdds
  <2>2. a \in Nat /\ b \in Nat
    BY <1>2, <2>0, Picked
  <2>3. a + b \in Nat
    <3> HIDE DEF a, b
    <3> QED BY <2>2
  <2> QED BY <2>0, <2>1, <2>3
<1> HIDE DEF P
<1>3. SUBSET S \subseteq P
  BY <1>1, <1>2, SubsetInduction
<1>4. Part(f, S)[S] \in Nat
  BY <1>3 DEF P
<1> QED BY <1>4, SumIsPart, Zenon

----------------------------------------------------------------------------
(* Shares: what is counted in c is given away, each to one of pay.         *)

\* The shares of T, and what nobody has, of the summands in s.
ShareOf(c, pay, s, u) == Sum(c, {k \in s : u \in pay[k]})
Shares(c, pay, s, T) == [u \in T |-> ShareOf(c, pay, s, u)]
Nobodys(c, pay, s) == Sum(c, {k \in s : pay[k] = {}})

\* Each summand is an integer and goes to one of T or to nobody.
GivenAway(c, pay, S, T) ==
  /\ IsFiniteSet(S) /\ IsFiniteSet(T)
  /\ \A k \in S : c[k] \in Int
  /\ \A k \in S : pay[k] = {} \/ \E u \in T : pay[k] = {u}

\* The shares add up to the whole.
AddUp(c, pay, s, T) == Sum(Shares(c, pay, s, T), T) + Nobodys(c, pay, s) = Sum(c, s)

\* The sum over the empty set.
LEMMA SumOfNone == ASSUME NEW f PROVE Sum(f, {}) = 0
<1>1. IsFiniteSet({})
  BY FS_EmptySet
<1> QED BY <1>1, SumOfZeros

\* s has the summand at p more than r has.
Joins(c, s, r, p) ==
  /\ IsFiniteSet(r)
  /\ p \notin r
  /\ s = r \cup {p}
  /\ \A k \in s : c[k] \in Int

SumJoins(c, s, r, p) == Sum(c, s) = Sum(c, r) + c[p]

\* A summand more, of one and the same function.
LEMMA OneSummandMore ==
  ASSUME NEW c, NEW s, NEW r, NEW p, Joins(c, s, r, p)
  PROVE  SumJoins(c, s, r, p)
<1>1. OneMore(c, c, r, p)
  BY DEF Joins, OneMore
<1>2. SumIsMore(c, c, r, p)
  BY <1>1, SumGrows, Zenon
<1> QED BY <1>2, Zenon DEF SumIsMore, SumJoins, Joins

\* g is f but for d more at z.
Shifted(f, g, S, z, d) ==
  /\ IsFiniteSet(S) /\ z \in S /\ d \in Int
  /\ \A x \in S : f[x] \in Int
  /\ \A x \in S : g[x] = IF x = z THEN f[x] + d ELSE f[x]

SumShifted(f, g, S, d) == Sum(g, S) = Sum(f, S) + d

\* So is the sum.
LEMMA SumShifts ==
  ASSUME NEW f, NEW g, NEW S, NEW z, NEW d, Shifted(f, g, S, z, d)
  PROVE  SumShifted(f, g, S, d)
<1>1. Sum(g, S) = Sum(f, S) + (IF z \in S THEN d ELSE 0)
  BY SumChanges DEF Shifted
<1> QED BY <1>1 DEF Shifted, SumShifted

\* What is given away in one go: nobody, or one, has so much more.
LEMMA OneShareMore ==
  ASSUME NEW c, NEW pay, NEW s, NEW r, NEW p, NEW T, GivenAway(c, pay, s, T),
         p \notin r, s = r \cup {p}, AddUp(c, pay, r, T)
  PROVE  AddUp(c, pay, s, T)
<1> DEFINE Of(q, u) == {k \in q : u \in pay[k]}
           None(q) == {k \in q : pay[k] = {}}
           f == Shares(c, pay, r, T)
           g == Shares(c, pay, s, T)
<1>1. /\ IsFiniteSet(s) /\ IsFiniteSet(T) /\ c[p] \in Int
      /\ \A k \in s : c[k] \in Int
      /\ pay[p] = {} \/ \E u \in T : pay[p] = {u}
  BY DEF GivenAway
<1>2. /\ IsFiniteSet(r) /\ IsFiniteSet(None(r)) /\ IsFiniteSet(None(s))
      /\ \A u \in T : IsFiniteSet(Of(r, u)) /\ IsFiniteSet(Of(s, u))
  BY <1>1, FS_Subset
<1>3. Sum(c, s) = Sum(c, r) + c[p] /\ Sum(c, r) \in Int
  <2>1. Joins(c, s, r, p)
    BY <1>1, <1>2 DEF Joins
  <2>2. SumJoins(c, s, r, p)
    BY <2>1, OneSummandMore, Zenon
  <2>3. Sum(c, r) \in Int
    BY <1>1, <1>2, SumIsInt
  <2> QED BY <2>2, <2>3, Zenon DEF SumJoins
<1>4. Sum(c, None(r)) \in Int /\ \A u \in T : Sum(c, Of(r, u)) \in Int
  BY <1>1, <1>2, SumIsInt
<1>5. \A u \in T : f[u] = Sum(c, Of(r, u)) /\ g[u] = Sum(c, Of(s, u))
  BY DEF Shares, ShareOf
<1> HIDE DEF f, g
<1>6. Sum(f, T) \in Int
  BY <1>1, <1>4, <1>5, SumIsInt
<1>7. Sum(f, T) + Sum(c, None(r)) = Sum(c, r)
  BY DEF AddUp, Nobodys, f
<1>8. SUFFICES Sum(g, T) + Sum(c, None(s)) = Sum(c, s)
  BY DEF AddUp, Nobodys, g
<1>9. CASE pay[p] = {}
  <2>1. None(s) = None(r) \cup {p} /\ p \notin None(r)
    BY <1>9
  <2>2. \A u \in T : Of(s, u) = Of(r, u)
    BY <1>9
  <2>3. \A k \in None(s) : c[k] \in Int
    BY <1>1
  <2> HIDE DEF None, Of
  <2>4. Sum(c, None(s)) = Sum(c, None(r)) + c[p]
    <3>1. Joins(c, None(s), None(r), p)
      BY <1>2, <2>1, <2>3 DEF Joins
    <3>2. SumJoins(c, None(s), None(r), p)
      BY <3>1, OneSummandMore, Zenon
    <3> QED BY <3>2, Zenon DEF SumJoins
  <2>5. \A u \in T : ShareOf(c, pay, s, u) = ShareOf(c, pay, r, u)
    BY <2>2 DEF ShareOf, Of
  <2>6. Sum(g, T) = Sum(f, T)
    BY <2>5 DEF f, g, Shares
  <2> DEFINE a == Sum(f, T)
             b == Sum(c, None(r))
             d == c[p]
  <2>7. a \in Int /\ b \in Int /\ d \in Int
    BY <1>1, <1>4, <1>6
  <2>8. a + (b + d) = (a + b) + d
    <3> HIDE DEF a, b, d
    <3> QED BY <2>7
  <2> QED BY <1>3, <1>7, <2>4, <2>6, <2>8, Zenon
<1>10. ASSUME NEW v \in T, pay[p] = {v}
       PROVE  Sum(g, T) + Sum(c, None(s)) = Sum(c, s)
  <2>1. None(s) = None(r)
    BY <1>10
  <2>2. /\ Of(s, v) = Of(r, v) \cup {p} /\ p \notin Of(r, v)
        /\ \A u \in T : u # v => Of(s, u) = Of(r, u)
    BY <1>10
  <2>3. \A k \in Of(s, v) : c[k] \in Int
    BY <1>1
  <2> HIDE DEF None, Of
  <2>4. Sum(c, Of(s, v)) = Sum(c, Of(r, v)) + c[p]
    <3>1. Joins(c, Of(s, v), Of(r, v), p)
      BY <1>2, <2>2, <2>3 DEF Joins
    <3>2. SumJoins(c, Of(s, v), Of(r, v), p)
      BY <3>1, OneSummandMore, Zenon
    <3> QED BY <3>2, Zenon DEF SumJoins
  <2>5. \A x \in T : g[x] = IF x = v THEN f[x] + c[p] ELSE f[x]
    BY <1>5, <2>2, <2>4
  <2>6. Sum(g, T) = Sum(f, T) + c[p]
    <3>1. \A x \in T : f[x] \in Int
      BY <1>4, <1>5
    <3>2. Shifted(f, g, T, v, c[p])
      BY <1>1, <1>10, <3>1, <2>5 DEF Shifted
    <3>3. SumShifted(f, g, T, c[p])
      BY <3>2, SumShifts, Zenon
    <3> QED BY <3>3, Zenon DEF SumShifted
  <2> DEFINE a == Sum(f, T)
             b == Sum(c, None(r))
             d == c[p]
  <2>7. a \in Int /\ b \in Int /\ d \in Int
    BY <1>1, <1>4, <1>6
  <2>8. (a + d) + b = (a + b) + d
    <3> HIDE DEF a, b, d
    <3> QED BY <2>7
  <2> QED BY <1>3, <1>7, <2>1, <2>6, <2>8, Zenon
<1> QED BY <1>1, <1>9, <1>10

\* Whatever is given away, the shares and the rest are the whole.
LEMMA SharesAddUp ==
  ASSUME NEW c, NEW pay, NEW S, NEW T, GivenAway(c, pay, S, T)
  PROVE  AddUp(c, pay, S, T)
<1> DEFINE P == {s \in SUBSET S : AddUp(c, pay, s, T)}
<1>1. IsFiniteSet(S) /\ IsFiniteSet(T)
  BY DEF GivenAway
<1>2. {} \in P
  <2>1. /\ {k \in {} : pay[k] = {}} = {}
        /\ \A u \in T : {k \in {} : u \in pay[k]} = {}
    OBVIOUS
  <2>2. Nobodys(c, pay, {}) = 0 /\ Sum(c, {}) = 0
    BY <2>1, SumOfNone DEF Nobodys
  <2>3. \A u \in T : Shares(c, pay, {}, T)[u] = 0
    BY <2>1, SumOfNone DEF Shares, ShareOf
  <2>4. Sum(Shares(c, pay, {}, T), T) = 0
    BY <1>1, <2>3, SumOfZeros
  <2> QED BY <2>2, <2>4 DEF AddUp
<1>3. ASSUME NEW s \in SUBSET S, s # {}, s \ {First(s)} \in P PROVE s \in P
  <2> DEFINE p == First(s)
             r == s \ {p}
  <2>1. p \in s /\ p \notin r /\ s = r \cup {p}
    BY <1>3, Picked
  <2>2. GivenAway(c, pay, s, T)
    BY <1>1, FS_Subset DEF GivenAway
  <2>3. AddUp(c, pay, r, T)
    BY <1>3
  <2> HIDE DEF p, r
  <2>4. AddUp(c, pay, s, T)
    BY <2>1, <2>2, <2>3, OneShareMore
  <2> QED BY <2>4
<1> HIDE DEF P
<1>4. SUBSET S \subseteq P
  BY <1>1, <1>2, <1>3, SubsetInduction
<1> QED BY <1>4 DEF P

=============================================================================
