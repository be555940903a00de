---------------------------- MODULE SumTheorems ----------------------------
(***************************************************************************)
(* Facts about sums over finite sets, as MapThenSumSet of the community    *)
(* modules defines them: the library has no theorems about it.  Everything *)
(* rests on the least-number principle, from which each induction below is *)
(* done by the argument of the smallest counterexample.                    *)
(***************************************************************************)
EXTENDS Integers, FiniteSets, FiniteSetsExt, FiniteSetTheorems, WellFoundedInduction, TLAPS

\* The sum of f over S, as the models write it.
SumOver(f, S) == MapThenSumSet(LAMBDA x : f[x], S)

\* A nonempty set of natural numbers has a least element.
LEMMA LeastNat ==
    ASSUME NEW T, T \subseteq Nat, T # {}
    PROVE  \E n \in T : \A m \in T : n <= m
<1> DEFINE R == {ss \in Nat \X Nat : ss[1] < ss[2]}
<1>1. IsWellFoundedOn(R, Nat)
  BY NatLessThanWellFounded DEF OpToRel
<1>2. PICK x \in T : \A y \in T : ~(<<y, x>> \in R)
  <2> HIDE DEF R
  <2> QED
    BY <1>1, WFMin
<1>3. ASSUME NEW y \in T PROVE x <= y
  <2>1. x \in Nat /\ y \in Nat /\ <<y, x>> \in Nat \X Nat
    OBVIOUS
  <2>2. ~(<<y, x>>[1] < <<y, x>>[2])
    BY <1>2, <2>1
  <2> QED
    BY <2>1, <2>2
<1> QED
  BY <1>3

\* Nothing below the least element is in the set.
LEMMA NotSmaller ==
    ASSUME NEW T \in SUBSET Nat, NEW n \in T, \A m \in T : n <= m, NEW k \in Nat, k < n
    PROVE  k \notin T
  OBVIOUS

\* Induction: a set of numbers that contains zero and with a number its successor
\* contains all.
LEMMA NatInduct ==
    ASSUME NEW T, 0 \in T, \A n \in Nat : n \in T => n + 1 \in T
    PROVE  Nat \subseteq T
<1> SUFFICES ASSUME ~(Nat \subseteq T) PROVE FALSE
  OBVIOUS
<1>1. PICK n \in Nat \ T : \A m \in Nat \ T : n <= m
  BY LeastNat
<1>2. n # 0 /\ n - 1 \in Nat
  BY <1>1
<1>3. n - 1 \in T
  BY <1>1, <1>2
<1>4. (n - 1) + 1 = n
  BY <1>1
<1> QED
  BY <1>1, <1>2, <1>3, <1>4

\* Induction over the finite subsets of a set: a class of sets that contains the
\* empty set and with a set also each that has one more element.
LEMMA SetInduct ==
    ASSUME NEW S, IsFiniteSet(S), NEW G, {} \in G,
           \A s \in SUBSET S, x \in S : x \notin s /\ s \in G => s \cup {x} \in G
    PROVE  SUBSET S \subseteq G
<1> DEFINE T == {n \in Nat : \A s \in SUBSET S : Cardinality(s) = n => s \in G}
<1>0. \A s \in SUBSET S : IsFiniteSet(s) /\ Cardinality(s) \in Nat
  BY FS_Subset, FS_CardinalityType
<1>1. 0 \in T
  BY <1>0, FS_EmptySet
<1>2. ASSUME NEW n \in Nat, n \in T PROVE n + 1 \in T
  <2> SUFFICES ASSUME NEW s \in SUBSET S, Cardinality(s) = n + 1 PROVE s \in G
    OBVIOUS
  <2>1. s # {}
    BY <1>0, FS_EmptySet
  <2>2. PICK x : x \in s
    BY <2>1
  <2>3. Cardinality(s \ {x}) = Cardinality(s) - 1
    BY <1>0, <2>2, FS_RemoveElement
  <2>4. Cardinality(s \ {x}) = n
    BY <2>3
  <2>5. s \ {x} \in G
    BY <1>2, <2>4
  <2>6. (s \ {x}) \cup {x} = s
    BY <2>2
  <2> QED
    BY <2>2, <2>5, <2>6
<1> HIDE DEF T
<1>3. Nat \subseteq T
  BY <1>1, <1>2, NatInduct
<1> QED
  BY <1>0, <1>3 DEF T

----------------------------------------------------------------------------

\* The equations of the recursive function behind MapThenSumSet.
First(s) == CHOOSE x \in s : TRUE

Adds(f, g, s) == g[s] = IF s = {} THEN 0 ELSE f[First(s)] + g[s \ {First(s)}]

\* The element that is added first is one of the set.
LEMMA FirstIn == ASSUME NEW s, s # {} PROVE First(s) \in s
  BY DEF First

\* There is a function that satisfies the equations.
LEMMA SumExists ==
    ASSUME NEW S, IsFiniteSet(S), NEW f, \A x \in S : f[x] \in Int
    PROVE  \E g \in [SUBSET S -> Int] : \A s \in SUBSET S : Adds(f, g, s)
<1> DEFINE Up(n) == {s \in SUBSET S : Cardinality(s) <= n}
           T == {n \in Nat : \E g \in [SUBSET S -> Int] : \A s \in Up(n) : Adds(f, g, s)}
<1>0. \A s \in SUBSET S : IsFiniteSet(s) /\ Cardinality(s) \in Nat
  BY FS_Subset, FS_CardinalityType
<1>1. 0 \in T
  <2> DEFINE g == [s \in SUBSET S |-> 0]
  <2>1. g \in [SUBSET S -> Int]
    OBVIOUS
  <2>2. ASSUME NEW s \in Up(0) PROVE Adds(f, g, s)
    <3>1. s = {}
      BY <1>0, FS_EmptySet
    <3> QED
      BY <3>1 DEF Adds
  <2> QED
    BY <2>1, <2>2
<1>2. ASSUME NEW n \in Nat, n \in T PROVE n + 1 \in T
  <2>1. PICK g \in [SUBSET S -> Int] : \A s \in Up(n) : Adds(f, g, s)
    BY <1>2
  <2> DEFINE h == [s \in SUBSET S |-> IF s \in Up(n) \/ s = {} THEN g[s]
                                      ELSE f[First(s)] + g[s \ {First(s)}]]
  <2>2. ASSUME NEW s \in SUBSET S, s # {}
        PROVE  First(s) \in S /\ s \ {First(s)} \in SUBSET S /\ First(s) \in s
    BY <2>2, FirstIn
  <2>3. h \in [SUBSET S -> Int]
    BY <2>2
  <2>4. ASSUME NEW s \in Up(n + 1) PROVE Adds(f, h, s)
    <3>0. s \in SUBSET S /\ Cardinality(s) <= n + 1
      OBVIOUS
    <3>1. CASE s = {}
      <4>1. h[s] = g[s]
        BY <3>0, <3>1
      <4>2. s \in Up(n)
        BY <3>1, FS_EmptySet
      <4> QED
        BY <2>1, <3>1, <4>1, <4>2 DEF Adds
    <3>2. CASE s # {}
      <4> DEFINE r == s \ {First(s)}
      <4>1. r \in SUBSET S /\ First(s) \in s
        BY <2>2, <3>0, <3>2
      <4>2. Cardinality(r) = Cardinality(s) - 1
        BY <1>0, <3>0, <4>1, FS_RemoveElement
      <4>3. r \in Up(n)
        BY <1>0, <3>0, <4>1, <4>2
      <4>4. h[r] = g[r]
        BY <4>1, <4>3
      <4>5. h[s] = f[First(s)] + g[r]
        <5>1. CASE s \in Up(n)
          <6>1. h[s] = g[s]
            BY <3>0, <5>1
          <6> QED
            BY <2>1, <3>2, <5>1, <6>1 DEF Adds
        <5>2. CASE s \notin Up(n)
          BY <3>0, <3>2, <5>2
        <5> QED
          BY <5>1, <5>2
      <4> QED
        BY <3>2, <4>4, <4>5 DEF Adds
    <3> QED
      BY <3>1, <3>2
  <2> HIDE DEF h, Up
  <2> QED
    BY <2>3, <2>4
<1> HIDE DEF T
<1>3. Nat \subseteq T
  BY <1>1, <1>2, NatInduct
<1>4. Cardinality(S) \in T
  BY <1>0, <1>3
<1>5. PICK g \in [SUBSET S -> Int] : \A s \in Up(Cardinality(S)) : Adds(f, g, s)
  BY <1>4 DEF T
<1>6. ASSUME NEW s \in SUBSET S PROVE s \in Up(Cardinality(S))
  BY FS_Subset
<1> QED
  BY <1>5, <1>6

\* The sum is what such a function says.
LEMMA SumByAdds ==
    ASSUME NEW S, IsFiniteSet(S), NEW f, \A x \in S : f[x] \in Int
    PROVE  \E g \in [SUBSET S -> Int] :
              SumOver(f, S) = g[S] /\ \A s \in SUBSET S : Adds(f, g, s)
<1> DEFINE Body(g) == [s \in SUBSET S |-> IF s = {} THEN 0
                                          ELSE f[First(s)] + g[s \ {First(s)}]]
           G == CHOOSE g : g = Body(g)
<1>1. SumOver(f, S) = G[S]
  BY DEF SumOver, MapThenSumSet, MapThenFoldSet, First
<1>2. PICK g \in [SUBSET S -> Int] : \A s \in SUBSET S : Adds(f, g, s)
  BY SumExists
<1>3. g = Body(g)
  BY <1>2 DEF Adds
<1>4. G = Body(G)
  BY <1>3
<1> HIDE DEF G
<1>5. \A s \in SUBSET S : Adds(f, G, s)
  BY <1>4 DEF Adds
<1>6. G \in [SUBSET S -> Int]
  <2> DEFINE H == {s \in SUBSET S : G[s] = g[s]}
  <2>1. {} \in H
    BY <1>2, <1>5 DEF Adds
  <2>2. \A s \in SUBSET S : G[s] = g[s]
    <3> DEFINE C == {n \in Nat : \E s \in SUBSET S : Cardinality(s) = n /\ G[s] # g[s]}
    <3>0. \A s \in SUBSET S : IsFiniteSet(s) /\ Cardinality(s) \in Nat
      BY FS_Subset, FS_CardinalityType
    <3> SUFFICES ASSUME C # {} PROVE FALSE
      BY <3>0
    <3>1. PICK n \in C : \A m \in C : n <= m
      BY LeastNat
    <3>2. PICK s \in SUBSET S : Cardinality(s) = n /\ G[s] # g[s]
      OBVIOUS
    <3>3. s # {}
      BY <2>1, <3>2
    <3>4. First(s) \in s /\ s \ {First(s)} \in SUBSET S
      BY <3>3, FirstIn
    <3>5. Cardinality(s \ {First(s)}) = Cardinality(s) - 1
      BY <3>0, <3>4, FS_RemoveElement
    <3>6. Cardinality(s \ {First(s)}) \in Nat /\ Cardinality(s \ {First(s)}) < n
      BY <3>0, <3>2, <3>4, <3>5
    <3>7. Cardinality(s \ {First(s)}) \notin C
      BY <3>1, <3>6, NotSmaller
    <3>8. G[s \ {First(s)}] = g[s \ {First(s)}]
      BY <3>4, <3>6, <3>7
    <3> QED
      BY <1>2, <1>5, <3>2, <3>3, <3>8 DEF Adds
  <2>3. \A s \in SUBSET S : G[s] \in Int
    BY <2>2
  <2>4. G = [s \in SUBSET S |-> G[s]]
    BY <1>4
  <2> QED
    BY <2>3, <2>4
<1> QED
  BY <1>1, <1>5, <1>6

\* Two such functions agree where both are defined.
LEMMA AddsUnique ==
    ASSUME NEW S, IsFiniteSet(S), NEW f, NEW g, NEW h,
           \A s \in SUBSET S : Adds(f, g, s) /\ Adds(f, h, s)
    PROVE  g[S] = h[S]
<1> DEFINE C == {n \in Nat : \E s \in SUBSET S : Cardinality(s) = n /\ g[s] # h[s]}
<1>0. \A s \in SUBSET S : IsFiniteSet(s) /\ Cardinality(s) \in Nat
  BY FS_Subset, FS_CardinalityType
<1> SUFFICES ASSUME g[S] # h[S] PROVE FALSE
  OBVIOUS
<1>1. C # {}
  BY <1>0
<1>2. PICK n \in C : \A m \in C : n <= m
  BY <1>1, LeastNat
<1>3. PICK s \in SUBSET S : Cardinality(s) = n /\ g[s] # h[s]
  OBVIOUS
<1>4. s # {}
  BY <1>3 DEF Adds
<1>5. First(s) \in s /\ s \ {First(s)} \in SUBSET S
  BY <1>4, FirstIn
<1>6. Cardinality(s \ {First(s)}) = Cardinality(s) - 1
  BY <1>0, <1>5, FS_RemoveElement
<1>7. Cardinality(s \ {First(s)}) \in Nat /\ Cardinality(s \ {First(s)}) < n
  BY <1>0, <1>3, <1>5, <1>6
<1>8. Cardinality(s \ {First(s)}) \notin C
  BY <1>2, <1>7, NotSmaller
<1>9. g[s \ {First(s)}] = h[s \ {First(s)}]
  BY <1>5, <1>7, <1>8
<1> QED
  BY <1>3, <1>4, <1>9 DEF Adds

\* Any element may be added first.
LEMMA AnyFirst ==
    ASSUME NEW S, IsFiniteSet(S), NEW f, \A x \in S : f[x] \in Int
    PROVE  \A g \in [SUBSET S -> Int] :
              (\A s \in SUBSET S : Adds(f, g, s)) => \A x \in S : g[S] = f[x] + g[S \ {x}]
<1> TAKE g \in [SUBSET S -> Int]
<1> HAVE \A s \in SUBSET S : Adds(f, g, s)
<1> DEFINE Good(s) == \A x \in S : x \in s => g[s] = f[x] + g[s \ {x}]
           C == {n \in Nat : \E s \in SUBSET S : Cardinality(s) = n /\ ~Good(s)}
<1>0. \A s \in SUBSET S : IsFiniteSet(s) /\ Cardinality(s) \in Nat
  BY FS_Subset, FS_CardinalityType
<1> SUFFICES ASSUME ~Good(S) PROVE FALSE
  OBVIOUS
<1>1. C # {}
  BY <1>0
<1>2. PICK n \in C : \A m \in C : n <= m
  BY <1>1, LeastNat
<1>3. PICK s \in SUBSET S : Cardinality(s) = n /\ ~Good(s)
  OBVIOUS
<1>4. PICK x \in S : x \in s /\ g[s] # f[x] + g[s \ {x}]
  BY <1>3
<1>5. PICK c \in S : c = First(s) /\ c \in s
  BY <1>4, FirstIn
<1>6. g[s] = f[c] + g[s \ {c}]
  BY <1>4, <1>5 DEF Adds
<1>7. x # c
  BY <1>4, <1>6
<1>8. ASSUME NEW y \in s PROVE Good(s \ {y})
  <2>1. Cardinality(s \ {y}) = Cardinality(s) - 1
    BY <1>0, <1>8, FS_RemoveElement
  <2>2. Cardinality(s \ {y}) \in Nat /\ Cardinality(s \ {y}) < n
    BY <1>0, <1>3, <2>1
  <2>3. Cardinality(s \ {y}) \notin C
    BY <1>2, <2>2, NotSmaller
  <2> HIDE DEF Good
  <2> QED
    BY <2>2, <2>3
<1>9. g[s \ {c}] = f[x] + g[(s \ {c}) \ {x}]
  BY <1>4, <1>5, <1>7, <1>8
<1>10. g[s \ {x}] = f[c] + g[(s \ {x}) \ {c}]
  BY <1>4, <1>5, <1>7, <1>8
<1>11. (s \ {c}) \ {x} = (s \ {x}) \ {c}
  OBVIOUS
<1>12. g[(s \ {x}) \ {c}] \in Int /\ f[x] \in Int /\ f[c] \in Int
  BY <1>4, <1>5
<1>13. PICK a \in Int, b \in Int, d \in Int :
          a = f[x] /\ b = f[c] /\ d = g[(s \ {x}) \ {c}]
  BY <1>12
<1>14. g[s] = b + (a + d) /\ f[x] + g[s \ {x}] = a + (b + d)
  BY <1>6, <1>9, <1>10, <1>11, <1>13
<1> HIDE DEF Good, C
<1>15. b + (a + d) = a + (b + d)
  OBVIOUS
<1> QED
  BY <1>4, <1>14, <1>15

----------------------------------------------------------------------------
(* The facts to cite.                                                      *)

\* The empty sum.
LEMMA SumEmpty == ASSUME NEW f PROVE SumOver(f, {}) = 0
<1>1. PICK g \in [SUBSET {} -> Int] : SumOver(f, {}) = g[{}] /\ \A s \in SUBSET {} : Adds(f, g, s)
  BY SumByAdds, FS_EmptySet
<1> QED
  BY <1>1 DEF Adds

\* A sum of integers is an integer.
LEMMA SumType ==
    ASSUME NEW S, IsFiniteSet(S), NEW f, \A x \in S : f[x] \in Int
    PROVE  SumOver(f, S) \in Int
<1>1. PICK g \in [SUBSET S -> Int] : SumOver(f, S) = g[S]
  BY SumByAdds
<1> QED
  BY <1>1

\* A sum without one of its terms.
LEMMA SumRemove ==
    ASSUME NEW S, IsFiniteSet(S), NEW f, \A x \in S : f[x] \in Int, NEW x \in S
    PROVE  SumOver(f, S) = f[x] + SumOver(f, S \ {x})
<1> DEFINE r == S \ {x}
<1>0. IsFiniteSet(r) /\ r \in SUBSET S /\ \A y \in r : f[y] \in Int
  BY FS_Subset
<1>1. PICK g \in [SUBSET S -> Int] : SumOver(f, S) = g[S] /\ \A s \in SUBSET S : Adds(f, g, s)
  BY SumByAdds
<1>2. PICK h \in [SUBSET r -> Int] : SumOver(f, r) = h[r] /\ \A s \in SUBSET r : Adds(f, h, s)
  BY <1>0, SumByAdds
<1>3. \A s \in SUBSET r : Adds(f, g, s) /\ Adds(f, h, s)
  BY <1>0, <1>1, <1>2
<1> HIDE DEF r
<1>4. g[r] = h[r]
  BY <1>0, <1>3, AddsUnique
<1>5. g[S] = f[x] + g[S \ {x}]
  <2>1. \A s \in SUBSET S : Adds(f, g, s)
    BY <1>1
  <2>2. \A y \in S : g[S] = f[y] + g[S \ {y}]
    <3>1. \A k \in [SUBSET S -> Int] :
             (\A s \in SUBSET S : Adds(f, k, s)) => \A y \in S : k[S] = f[y] + k[S \ {y}]
      BY AnyFirst
    <3> QED
      BY <2>1, <3>1
  <2> QED
    BY <2>2
<1> QED
  BY <1>1, <1>2, <1>4, <1>5 DEF r

\* A sum with one more term.
LEMMA SumExtend ==
    ASSUME NEW S, IsFiniteSet(S), NEW x, x \notin S, NEW f, \A y \in S \cup {x} : f[y] \in Int
    PROVE  SumOver(f, S \cup {x}) = f[x] + SumOver(f, S)
<1> DEFINE r == S \cup {x}
<1>1. IsFiniteSet(r) /\ x \in r /\ \A y \in r : f[y] \in Int
  BY FS_AddElement
<1>2. r \ {x} = S
  OBVIOUS
<1> HIDE DEF r
<1>3. SumOver(f, r) = f[x] + SumOver(f, r \ {x})
  BY <1>1, SumRemove
<1> QED
  BY <1>2, <1>3 DEF r

\* Sums are added term by term.
LEMMA SumPlus ==
    ASSUME NEW S, IsFiniteSet(S), NEW f, NEW g, NEW h,
           \A x \in S : f[x] \in Int /\ g[x] \in Int /\ h[x] = f[x] + g[x]
    PROVE  SumOver(h, S) = SumOver(f, S) + SumOver(g, S)
<1> DEFINE G == {s \in SUBSET S : SumOver(h, s) = SumOver(f, s) + SumOver(g, s)}
<1>1. {} \in G
  BY SumEmpty
<1>2. ASSUME NEW s \in SUBSET S, NEW x \in S, x \notin s, s \in G PROVE s \cup {x} \in G
  <2>1. IsFiniteSet(s) /\ \A y \in s \cup {x} : f[y] \in Int /\ g[y] \in Int /\ h[y] \in Int
    BY FS_Subset
  <2>2. /\ SumOver(f, s \cup {x}) = f[x] + SumOver(f, s)
        /\ SumOver(g, s \cup {x}) = g[x] + SumOver(g, s)
        /\ SumOver(h, s \cup {x}) = h[x] + SumOver(h, s)
    BY <1>2, <2>1, SumExtend
  <2>3. SumOver(f, s) \in Int /\ SumOver(g, s) \in Int
    BY <2>1, SumType
  <2>4. PICK a \in Int, b \in Int, c \in Int, d \in Int :
           a = f[x] /\ b = g[x] /\ c = SumOver(f, s) /\ d = SumOver(g, s)
    BY <2>3
  <2>5. SumOver(h, s \cup {x}) = (a + b) + (c + d)
    BY <1>2, <2>2, <2>4
  <2>6. SumOver(f, s \cup {x}) + SumOver(g, s \cup {x}) = (a + c) + (b + d)
    BY <2>2, <2>4
  <2>7. SumOver(h, s \cup {x}) = SumOver(f, s \cup {x}) + SumOver(g, s \cup {x})
    BY <2>5, <2>6
  <2> QED
    BY <2>7
<1> HIDE DEF G
<1>3. SUBSET S \subseteq G
  BY <1>1, <1>2, SetInduct
<1> QED
  BY <1>3 DEF G

\* A sum of zeros.
LEMMA SumZero ==
    ASSUME NEW S, IsFiniteSet(S), NEW f, \A x \in S : f[x] = 0
    PROVE  SumOver(f, S) = 0
<1> DEFINE G == {s \in SUBSET S : SumOver(f, s) = 0}
<1>1. {} \in G
  BY SumEmpty
<1>2. ASSUME NEW s \in SUBSET S, NEW x \in S, x \notin s, s \in G PROVE s \cup {x} \in G
  <2>1. IsFiniteSet(s) /\ \A y \in s \cup {x} : f[y] \in Int
    BY FS_Subset
  <2>2. SumOver(f, s \cup {x}) = f[x] + SumOver(f, s)
    BY <1>2, <2>1, SumExtend
  <2> QED
    BY <1>2, <2>2
<1> HIDE DEF G
<1>3. SUBSET S \subseteq G
  BY <1>1, <1>2, SetInduct
<1> QED
  BY <1>3 DEF G

\* Sums are monotonic, and equal only when all terms are.
LEMMA SumLeq ==
    ASSUME NEW S, IsFiniteSet(S), NEW f, NEW g,
           \A x \in S : f[x] \in Int /\ g[x] \in Int /\ f[x] <= g[x]
    PROVE  /\ SumOver(f, S) <= SumOver(g, S)
           /\ SumOver(f, S) = SumOver(g, S) => \A x \in S : f[x] = g[x]
<1> DEFINE P(s) == /\ SumOver(f, s) <= SumOver(g, s)
                   /\ SumOver(f, s) = SumOver(g, s) => \A x \in s : f[x] = g[x]
           G == {s \in SUBSET S : P(s)}
<1>1. {} \in G
  BY SumEmpty
<1>2. ASSUME NEW s \in SUBSET S, NEW x \in S, x \notin s, s \in G PROVE s \cup {x} \in G
  <2>1. IsFiniteSet(s) /\ \A y \in s \cup {x} : f[y] \in Int /\ g[y] \in Int
    BY FS_Subset
  <2>2. /\ SumOver(f, s \cup {x}) = f[x] + SumOver(f, s)
        /\ SumOver(g, s \cup {x}) = g[x] + SumOver(g, s)
    BY <1>2, <2>1, SumExtend
  <2>3. SumOver(f, s) \in Int /\ SumOver(g, s) \in Int
    BY <2>1, SumType
  <2>4. PICK a \in Int, b \in Int, c \in Int, d \in Int :
           a = f[x] /\ b = g[x] /\ c = SumOver(f, s) /\ d = SumOver(g, s)
    BY <2>3
  <2>5. a <= b /\ c <= d /\ (c = d => \A y \in s : f[y] = g[y])
    BY <1>2, <2>4
  <2>6. a + c <= b + d /\ (a + c = b + d => a = b /\ c = d)
    BY <2>4, <2>5
  <2> QED
    BY <2>2, <2>4, <2>5, <2>6
<1> HIDE DEF G
<1>3. SUBSET S \subseteq G
  BY <1>1, <1>2, SetInduct
<1> QED
  BY <1>3 DEF G

\* A sum depends on its terms only.
LEMMA SumEqual ==
    ASSUME NEW S, IsFiniteSet(S), NEW f, NEW g, \A x \in S : f[x] \in Int /\ f[x] = g[x]
    PROVE  SumOver(f, S) = SumOver(g, S)
<1>1. SumOver(f, S) <= SumOver(g, S) /\ SumOver(g, S) <= SumOver(f, S)
  BY SumLeq
<1>2. SumOver(f, S) \in Int /\ SumOver(g, S) \in Int
  BY SumType
<1> QED
  BY <1>1, <1>2

\* One term of a sum changes.
LEMMA SumUpdate ==
    ASSUME NEW S, IsFiniteSet(S), NEW f, NEW g, NEW x \in S,
           \A y \in S : f[y] \in Int /\ g[y] \in Int /\ (y # x => g[y] = f[y])
    PROVE  SumOver(g, S) - SumOver(f, S) = g[x] - f[x]
<1>1. IsFiniteSet(S \ {x}) /\ \A y \in S \ {x} : f[y] \in Int /\ f[y] = g[y]
  BY FS_Subset
<1>2. SumOver(f, S \ {x}) = SumOver(g, S \ {x})
  BY <1>1, SumEqual
<1>3. /\ SumOver(f, S) = f[x] + SumOver(f, S \ {x})
      /\ SumOver(g, S) = g[x] + SumOver(g, S \ {x})
  BY SumRemove
<1>4. SumOver(f, S \ {x}) \in Int /\ f[x] \in Int /\ g[x] \in Int
  BY <1>1, SumType
<1> QED
  BY <1>2, <1>3, <1>4

\* Natural terms have a natural sum, which is zero only when they all are.
LEMMA SumNat ==
    ASSUME NEW S, IsFiniteSet(S), NEW f, \A x \in S : f[x] \in Nat
    PROVE  /\ SumOver(f, S) \in Nat
           /\ SumOver(f, S) = 0 => \A x \in S : f[x] = 0
<1> DEFINE z == [x \in S |-> 0]
<1>1. \A x \in S : z[x] \in Int /\ f[x] \in Int /\ z[x] <= f[x] /\ z[x] = 0
  OBVIOUS
<1> HIDE DEF z
<1>2. SumOver(z, S) = 0
  BY <1>1, SumZero
<1>3. /\ SumOver(z, S) <= SumOver(f, S)
      /\ SumOver(z, S) = SumOver(f, S) => \A x \in S : z[x] = f[x]
  BY <1>1, SumLeq
<1>4. SumOver(f, S) \in Int
  BY SumType
<1> QED
  BY <1>1, <1>2, <1>3, <1>4

\* Terms that are zero may be left out.
LEMMA SumSupport ==
    ASSUME NEW S, IsFiniteSet(S), NEW T \in SUBSET S, NEW f, \A x \in S : f[x] \in Int,
           \A x \in S \ T : f[x] = 0
    PROVE  SumOver(f, S) = SumOver(f, T)
<1> DEFINE R == S \ T
           G == {s \in SUBSET R : SumOver(f, T \cup s) = SumOver(f, T)}
<1>0. IsFiniteSet(R) /\ IsFiniteSet(T) /\ T \cup R = S
  BY FS_Subset
<1>1. {} \in G
  OBVIOUS
<1>2. ASSUME NEW s \in SUBSET R, NEW x \in R, x \notin s, s \in G PROVE s \cup {x} \in G
  <2>1. PICK U : U = T \cup s
    OBVIOUS
  <2>2. IsFiniteSet(U) /\ x \notin U /\ \A y \in U \cup {x} : f[y] \in Int
    BY <1>2, <2>1, FS_Subset
  <2>3. SumOver(f, U \cup {x}) = f[x] + SumOver(f, U)
    BY <2>2, SumExtend
  <2>4. SumOver(f, U) \in Int /\ f[x] = 0
    BY <2>2, SumType
  <2>5. SumOver(f, U \cup {x}) = SumOver(f, T)
    BY <1>2, <2>1, <2>3, <2>4
  <2>6. T \cup (s \cup {x}) = U \cup {x}
    BY <2>1
  <2> QED
    BY <1>2, <2>5, <2>6
<1>3. SUBSET R \subseteq G
  <2> HIDE DEF G, R
  <2> QED
    BY <1>0, <1>1, <1>2, SetInduct
<1> QED
  BY <1>0, <1>3

\* Terms that are at most c add up to at most c times their number.
LEMMA SumBound ==
    ASSUME NEW S, IsFiniteSet(S), NEW f, NEW c \in Int, \A x \in S : f[x] \in Int /\ f[x] <= c
    PROVE  SumOver(f, S) <= Cardinality(S) * c
<1> DEFINE G == {s \in SUBSET S : SumOver(f, s) <= Cardinality(s) * c}
<1>1. {} \in G
  <2>1. Cardinality({}) = 0 /\ SumOver(f, {}) = 0
    BY FS_EmptySet, SumEmpty
  <2> QED
    BY <2>1
<1>2. ASSUME NEW s \in SUBSET S, NEW x \in S, x \notin s, s \in G PROVE s \cup {x} \in G
  <2>1. IsFiniteSet(s) /\ Cardinality(s) \in Nat
    BY FS_Subset, FS_CardinalityType
  <2>2. Cardinality(s \cup {x}) = Cardinality(s) + 1
    BY <1>2, <2>1, FS_AddElement
  <2>3. SumOver(f, s \cup {x}) = f[x] + SumOver(f, s) /\ SumOver(f, s) \in Int
    BY <1>2, <2>1, SumExtend, SumType
  <2>4. PICK a \in Int, b \in Int, n \in Nat :
           a = f[x] /\ b = SumOver(f, s) /\ n = Cardinality(s) /\ a <= c /\ b <= n * c
    BY <1>2, <2>1, <2>3
  <2>5. a + b <= (n + 1) * c
    BY <2>4
  <2> QED
    BY <2>2, <2>3, <2>4, <2>5
<1>3. SUBSET S \subseteq G
  <2> HIDE DEF G
  <2> QED
    BY <1>1, <1>2, SetInduct
<1> QED
  BY <1>3

----------------------------------------------------------------------------
(* Counting pairs.                                                         *)

\* The pairs of an element x of S and a number up to n[x].
Pairs(n, S) == UNION {{x} \X (1..n[x]) : x \in S}

\* The pairs of one element.
LEMMA PairsOfOne ==
    ASSUME NEW x, NEW m \in Nat
    PROVE  IsFiniteSet({x} \X (1..m)) /\ Cardinality({x} \X (1..m)) = m
<1> DEFINE A == {x}
           B == 1..m
<1>1. IsFiniteSet(A) /\ Cardinality(A) = 1
  BY FS_Singleton
<1>2. IsFiniteSet(B) /\ Cardinality(B) = m
  BY FS_Interval
<1> HIDE DEF A, B
<1>3. IsFiniteSet(A \X B) /\ Cardinality(A \X B) = Cardinality(A) * Cardinality(B)
  BY <1>1, <1>2, FS_Product
<1>4. Cardinality(A \X B) = m
  BY <1>1, <1>2, <1>3
<1> QED
  BY <1>3, <1>4 DEF A, B

\* The number of pairs is the sum of the bounds.
LEMMA PairsCount ==
    ASSUME NEW S, IsFiniteSet(S), NEW n, \A x \in S : n[x] \in Nat
    PROVE  IsFiniteSet(Pairs(n, S)) /\ Cardinality(Pairs(n, S)) = SumOver(n, S)
<1> DEFINE G == {s \in SUBSET S : IsFiniteSet(Pairs(n, s)) /\ Cardinality(Pairs(n, s)) = SumOver(n, s)}
<1>1. {} \in G
  <2>1. Pairs(n, {}) = {}
    BY DEF Pairs
  <2> QED
    BY <2>1, SumEmpty, FS_EmptySet
<1>2. ASSUME NEW s \in SUBSET S, NEW x \in S, x \notin s, s \in G PROVE s \cup {x} \in G
  <2>1. IsFiniteSet(s) /\ \A y \in s \cup {x} : n[y] \in Int
    BY FS_Subset
  <2>2. SumOver(n, s \cup {x}) = n[x] + SumOver(n, s)
    BY <1>2, <2>1, SumExtend
  <2>3. PICK m \in Nat : m = n[x]
    OBVIOUS
  <2> DEFINE P == Pairs(n, s)
             Q == {x} \X (1..m)
  <2>4. Pairs(n, s \cup {x}) = P \cup Q
    BY <2>3 DEF Pairs
  <2>5. P \cap Q = {}
    BY <1>2 DEF Pairs
  <2>6. IsFiniteSet(Q) /\ Cardinality(Q) = m
    BY PairsOfOne
  <2>7. IsFiniteSet(P) /\ Cardinality(P) = SumOver(n, s)
    BY <1>2
  <2> HIDE DEF P, Q
  <2>8. IsFiniteSet(P \cup Q)
        /\ Cardinality(P \cup Q) = Cardinality(P) + Cardinality(Q) - Cardinality(P \cap Q)
    BY <2>6, <2>7, FS_Union
  <2>9. Cardinality(P \cap Q) = 0
    BY <2>5, FS_EmptySet
  <2>10. SumOver(n, s) \in Int
    BY <2>1, SumType
  <2>11. Cardinality(P \cup Q) = n[x] + SumOver(n, s)
    BY <2>3, <2>6, <2>7, <2>8, <2>9, <2>10
  <2> QED
    BY <2>2, <2>4, <2>8, <2>11
<1> HIDE DEF G
<1>3. SUBSET S \subseteq G
  BY <1>1, <1>2, SetInduct
<1> QED
  BY <1>3 DEF G

============================================================================
